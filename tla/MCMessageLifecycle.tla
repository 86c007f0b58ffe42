------------------------- MODULE MCMessageLifecycle -------------------------
(* Instances of MessageLifecycle. *)
EXTENDS MessageLifecycle

OneMessage == {1}
TwoMessages == {1, 2}
OneLimit == {1}
TwoLimits == {1, 2}
=============================================================================
