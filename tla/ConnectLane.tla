----------------------------- MODULE ConnectLane ----------------------------
(***************************************************************************)
(* What the queue promises of one provider lane, without saying how: jobs   *)
(* wait, at most one at a time is offered to the provider, it returns to    *)
(* the queue only while the provider has not accepted it, and it ends once. *)
(***************************************************************************)
EXTENDS Naturals, FiniteSets

CONSTANT Job
VARIABLE lane

\* How one job may move.
Moves == {<<"none", "waiting">>,
          <<"waiting", "offered">>, <<"waiting", "done">>,
          <<"offered", "waiting">>, <<"offered", "owned">>, <<"offered", "done">>,
          <<"owned", "done">>}

Held(l) == {j \in Job : l[j] \in {"offered", "owned"}}

Init == lane = [j \in Job |-> "none"]

\* One transaction may end several waiting jobs and move another one.
Next ==
    /\ lane' \in [Job -> {"none", "waiting", "offered", "owned", "done"}]
    /\ \A j \in Job : lane'[j] = lane[j] \/ <<lane[j], lane'[j]>> \in Moves
    /\ \A j, k \in Held(lane') : j = k

Spec == Init /\ [][Next]_lane
=============================================================================
