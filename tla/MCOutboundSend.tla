-------------------------- MODULE MCOutboundSend ----------------------------
(* Two processes and two billing months: one process can die with a request *)
(* in flight while the other starts a send for the same or the other month. *)
EXTENDS OutboundSend, TLC

CONSTANTS p1, p2, k1, k2

MCProc == {p1, p2}
MCKey == {k1, k2}
MCSymmetry == Permutations(MCProc) \cup Permutations(MCKey)
=============================================================================
