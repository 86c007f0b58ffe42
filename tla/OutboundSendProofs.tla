------------------------- MODULE OutboundSendProofs -------------------------
(***************************************************************************)
(* At most one mail per billing month, for any number of processes and     *)
(* months.  The argument: the lock makes the process that works on a key   *)
(* its only writer; a key whose status is "none" has nothing at Gmail, and *)
(* the operator's evidence stays true until it is used, because a reserved *)
(* key cannot be sent again before the reservation is released.            *)
(***************************************************************************)
EXTENDS OutboundSend, TLAPS

LEMMA InitIInv == Init => IInv
  BY NoProcAssumption
     DEF Init, IInv, TypeOK, PcInv, KeyInv, Running, Untouched, outbound_status

LEMMA StepIInv == IInv /\ [Next]_vars => IInv'
<1> SUFFICES ASSUME IInv, [Next]_vars PROVE IInv'
  OBVIOUS
<1> USE NoProcAssumption DEF IInv, TypeOK, PcInv, KeyInv, Running, Untouched,
                             outbound_status, store, gmail
<1>1. ASSUME NEW p \in Proc, NEW k \in Key, Begin(p, k) PROVE IInv'
  BY <1>1 DEF Begin
<1>2. ASSUME NEW p \in Proc, Reserve(p) PROVE IInv'
  BY <1>2 DEF Reserve, reserve_outbound
<1>3. ASSUME NEW p \in Proc, Send(p) PROVE IInv'
  BY <1>3 DEF Send
<1>4. ASSUME NEW p \in Proc, Record(p) PROVE IInv'
  BY <1>4 DEF Record, record_outbound, Leave, InFlight
<1>5. ASSUME NEW p \in Proc, SendRaises(p) PROVE IInv'
  <2> USE <1>5 DEF SendRaises, mark_outbound_ambiguous, Leave, InFlight
  <2>1. TypeOK'
    OBVIOUS
  <2>2. PcInv'
    OBVIOUS
  <2>3. KeyInv'
    OBVIOUS
  <2> QED
    BY <2>1, <2>2, <2>3
<1>6. ASSUME NEW p \in Proc, Crash(p) PROVE IInv'
  BY <1>6 DEF Crash, Leave, InFlight
<1>7. ASSUME NEW p \in Proc, Accept(p) PROVE IInv'
  BY <1>7 DEF Accept
<1>8. ASSUME NEW p \in Proc, Refuse(p) PROVE IInv'
  BY <1>8 DEF Refuse
<1>9. ASSUME NEW k \in Key, OrphanAccepted(k) PROVE IInv'
  BY <1>9 DEF OrphanAccepted
<1>10. ASSUME NEW k \in Key, OrphanLost(k) PROVE IInv'
  BY <1>10 DEF OrphanLost
<1>11. ASSUME NEW k \in Key, FindMail(k) PROVE IInv'
  <2>1. mails[k] \in Nat /\ orphan[k] \in Nat /\ mails[k] + orphan[k] <= 1
    OBVIOUS
  <2>2. mails[k] > 0
    BY <1>11 DEF FindMail
  <2>3. mails[k] = 1
    <3> HIDE DEF IInv
    <3> QED
      BY <2>1, <2>2
  <2> QED
    BY <1>11, <2>3 DEF FindMail
<1>12. ASSUME NEW k \in Key, ProveUnsent(k) PROVE IInv'
  BY <1>12 DEF ProveUnsent
<1>13. ASSUME NEW k \in Key, ResolveSent(k) PROVE IInv'
  BY <1>13 DEF ResolveSent, reconcile_outbound_sent
<1>14. ASSUME NEW k \in Key, ResolveUnsent(k) PROVE IInv'
  BY <1>14 DEF ResolveUnsent, release_outbound
<1>15. CASE UNCHANGED vars
  BY <1>15 DEF vars
<1> QED
  BY <1>1, <1>2, <1>3, <1>4, <1>5, <1>6, <1>7, <1>8, <1>9, <1>10, <1>11,
     <1>12, <1>13, <1>14, <1>15 DEF Next, ProcessStep, KeyStep

\* The inductive invariant holds in every reachable state.
THEOREM OutboundInvariant == Spec => []IInv
  BY InitIInv, StepIInv, PTL DEF Spec

\* The tables, the processes and Gmail keep their types.
THEOREM OutboundType == Spec => []TypeOK
<1>1. IInv => TypeOK
  BY DEF IInv
<1> QED
  BY OutboundInvariant, <1>1, PTL

\* No billing month is mailed twice, whatever crashes, late acceptances by
\* Gmail and operator resolutions happen.
THEOREM AtMostOnce == Spec => []AtMostOneMail
<1>1. IInv => AtMostOneMail
  BY DEF IInv, TypeOK, KeyInv, AtMostOneMail
<1> QED
  BY OutboundInvariant, <1>1, PTL

\* A mail that Gmail has, or may still accept, always blocks a second send.
THEOREM NeverForgotten == Spec => []NoForgottenMail
<1>1. IInv => NoForgottenMail
  BY DEF IInv, TypeOK, KeyInv, NoForgottenMail, Untouched
<1> QED
  BY OutboundInvariant, <1>1, PTL
=============================================================================
