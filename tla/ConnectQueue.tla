---------------------------- MODULE ConnectQueue ----------------------------
(***************************************************************************)
(* One lane of the Connect job queue: the jobs for one provider instance,   *)
(* the process that holds the lane's file lock and works on its head, and   *)
(* the provider at the other end of the POSTs and GETs.                     *)
(*                                                                          *)
(* Any number of processes pump the queue or invoke a capability; a process *)
(* that does not get the lane lock does nothing, so `pc` and `run` describe *)
(* the one that has it.  Everything that takes no lane lock (enqueue,       *)
(* expiry, pause and resume, removal of the source, a join) interleaves     *)
(* with its steps.  A crash frees the lock between any two of them.         *)
(*                                                                          *)
(* Assumed of the provider: a POST that is going to reach it has done so    *)
(* when a later GET is answered, which is what the code relies on when it   *)
(* takes JOB_NOT_FOUND as proof.                                            *)
(***************************************************************************)
EXTENDS Integers, FiniteSets

CONSTANTS
    Job,          \* job ids, numbered in the order of created_at
    MaxJobs,      \* CONNECT_QUEUE_MAX_JOBS
    Modes,        \* who takes the lane: "pump", "fresh", "joined", "again"
    Origins,      \* whether a job may come from an automation: subset of BOOLEAN
    Entitlements, \* what the licence may cover: "both", "connect", "none"
    Manifests,    \* what the provider's manifest may become
    Events,       \* what else may happen: "remove" a source, "forget" a job
    MaxFaults     \* bound on crashes, lost answers and forgotten jobs

ASSUME QueueAssumption ==
    /\ Job \subseteq Nat
    /\ MaxJobs \in Nat \ {0}
    /\ Modes \subseteq {"pump", "fresh", "joined", "again"}
    /\ Origins \subseteq BOOLEAN /\ Events \subseteq {"remove", "forget"}
    /\ Entitlements \subseteq {"both", "connect", "none"}
    /\ Manifests \subseteq {"same", "drifted", "narrow"}
    /\ MaxFaults \in Nat

VARIABLES
    q,        \* the connect_attachment_jobs and connect_job_dispatch rows
    ent,      \* the entitlements in force
    manifest, \* the capability as the provider describes it now
    prov,     \* what the provider knows of each job
    pc, run,  \* the holder of the lane lock: position and local variables
    reply,    \* the answer on its way to the holder
    open,     \* history: jobs with a POST that nothing has shown to be refused
    faults

row == <<q, open>>
outside == <<ent, manifest>>
holder == <<pc, run, reply>>
vars == <<row, outside, prov, holder, faults>>

Active == {"requested", "accepted", "processing"}
Working == {"accepted", "processing"}
Owning == {"dispatching", "reconciling", "provider_owned"}

\* The row of a job before it is created and after it is deleted.
NoRow(s) == [status |-> s, disp |-> "terminal", poss |-> FALSE, high |-> "requested",
             due |-> FALSE, paused |-> FALSE, late |-> FALSE, src |-> "gone", auto |-> FALSE]

NoRun == [job |-> 0, mode |-> "none", seen |-> "same", again |-> FALSE]

Init ==
    /\ q = [j \in Job |-> NoRow("none")]
    /\ ent \in Entitlements
    /\ manifest = "same"
    /\ prov = [j \in Job |-> "unknown"]
    /\ pc = "idle" /\ run = NoRun /\ reply = "none"
    /\ open = {}
    /\ faults = 0

Fault == faults < MaxFaults /\ faults' = faults + 1

-----------------------------------------------------------------------------
(* The row's state machine: Store methods, each one transaction.            *)

IsActive(r) == r.status \in Active
Unsubmitted(r) == r.disp = "waiting" /\ ~r.poss
Eligible(r) == r.src \in {"kept", "unfollowed"}   \* removal.CONTENT.message_available
Authorized(r) == IF r.auto THEN ent = "both" ELSE ent # "none"

\* Mutant: a job the provider owns has left the lane.
InLane_requested(r) == r.status = "requested" /\ (r.paused => r.disp \in Owning)

\* A row the lane counts: a paused job that waits is out of it.
InLane(r) == IsActive(r) /\ (r.paused => r.disp \in Owning)

\* Mutant: expiry does not look at submission_possible or the dispatch state.
_expire_waiting_any(f) ==
    [j \in Job |-> IF f[j].status = "requested" /\ f[j].late /\ ~f[j].paused
                   THEN [f[j] EXCEPT !.status = "failed", !.disp = "terminal", !.due = FALSE]
                   ELSE f[j]]

_expire_waiting(f) ==
    [j \in Job |-> IF /\ f[j].status = "requested"
                      /\ Unsubmitted(f[j]) /\ ~f[j].paused /\ f[j].late
                   THEN [f[j] EXCEPT !.status = "failed", !.disp = "terminal", !.due = FALSE]
                   ELSE f[j]]

Rank(r) == CASE r.disp = "dispatching" -> 0 [] r.disp = "waiting" -> 2 [] OTHER -> 1

\* Mutant: the lane is ordered by creation alone.
IsHead_oldest(f, j) == InLane(f[j]) /\ \A k \in Job : InLane(f[k]) => j <= k

IsHead(f, j) ==
    /\ InLane(f[j])
    /\ \A k \in Job : InLane(f[k]) =>
          Rank(f[j]) < Rank(f[k]) \/ (Rank(f[j]) = Rank(f[k]) /\ j <= k)

\* Mutant: an attempt whose process died is nobody's.
Claimable_settled(f, j) ==
    /\ IsHead(f, j)
    /\ f[j].disp # "dispatching" /\ f[j].due
    /\ Unsubmitted(f[j]) => Eligible(f[j])

Claimable(f, j) ==
    /\ IsHead(f, j)
    /\ f[j].disp = "dispatching" \/ f[j].due
    /\ Unsubmitted(f[j]) => Eligible(f[j])

\* Mutant: an attempt whose process died is taken for one that never began.
claim_dispatching(r) ==
    [r EXCEPT !.disp = IF @ = "waiting" THEN "dispatching" ELSE @, !.poss = TRUE, !.due = TRUE]

\* The update of claim_connect_lane_head: an attempt found under way belongs to
\* a process that died.
claim(r) ==
    [r EXCEPT !.disp = CASE @ = "dispatching" -> "reconciling"
                         [] @ = "waiting" -> "dispatching"
                         [] OTHER -> @,
              !.poss = @ \/ r.disp \in {"waiting", "dispatching"},
              !.due = TRUE]

MayDefer(r, next) ==
    /\ IsActive(r)
    /\ next = "waiting" => r.status = "requested" /\ r.high = "requested"
    /\ next = "provider_owned" => r.status # "requested"

\* A deferral that is refused raises, and the row stays as it is.
defer_connect_job(j, next, pause) ==
    IF ~MayDefer(q[j], next) THEN q
    ELSE LET f == [q EXCEPT ![j].disp = next, ![j].due = FALSE, ![j].poss = next # "waiting",
                            ![j].paused = @ \/ pause]
         IN  IF next = "waiting" THEN _expire_waiting(f) ELSE f

\* Where a job that may have been submitted goes after an error.
Unsettled(r) == IF r.status \in Working THEN "provider_owned" ELSE "reconciling"

Level(s) == CASE s = "requested" -> 0 [] s = "accepted" -> 1 [] s = "processing" -> 2
              [] OTHER -> 3

\* Mutant: an accepted job keeps its dispatch state.
transition_connect_job_unpaired(r, s) ==
    IF s \in Working THEN [r EXCEPT !.status = s, !.high = s] ELSE [r EXCEPT !.status = s, !.disp = "terminal"]

\* A terminal result of a job whose source is gone is not kept.
transition_connect_job(r, s) ==
    CASE s \in Working ->
           [r EXCEPT !.status = s, !.disp = "provider_owned", !.poss = TRUE, !.due = TRUE,
                     !.high = IF Level(s) > Level(@) THEN s ELSE @]
      [] r.src # "kept" -> NoRow("removed")
      [] OTHER -> [r EXCEPT !.status = s, !.disp = "terminal", !.due = FALSE,
                            !.poss = @ \/ s = "completed"]

\* Mutant: an answer is written whatever the row says by then.
_apply_connect_update_always(r, s) ==
    IF r.status = "removed" THEN r ELSE transition_connect_job(r, s)

\* An answer that is behind the row, or comes after its end, changes nothing.
_apply_connect_update(r, s) ==
    IF IsActive(r) /\ Level(s) > Level(r.status) THEN transition_connect_job(r, s) ELSE r

_mark_connect_failed(j) ==
    IF IsActive(q[j]) THEN [q EXCEPT ![j] = transition_connect_job(@, "failed")] ELSE q

\* _CONNECT_SOURCE_INVALIDATION_SQL: rows that are over or were never submitted
\* go with their source, the others only lose it.
invalidate(r, s) ==
    IF r.status \in {"completed", "failed"} \/ (IsActive(r) /\ Unsubmitted(r))
    THEN NoRow("removed") ELSE [r EXCEPT !.src = s]

-----------------------------------------------------------------------------
(* Steps that take no lane lock.                                            *)

\* create_connect_job, under the source lock of its message.
Create(j) ==
    LET f == _expire_waiting(q) IN
    /\ q[j].status = "none"
    /\ \A k \in Job : k < j => q[k].status # "none"
    /\ Cardinality({k \in Job : InLane(f[k])}) < MaxJobs
    /\ \E auto \in Origins :
          /\ auto => ent = "both"
          /\ ent # "none"
          /\ q' = [f EXCEPT ![j] = [status |-> "requested", disp |-> "waiting", poss |-> FALSE,
                                    high |-> "requested", due |-> TRUE, paused |-> FALSE,
                                    late |-> FALSE, src |-> "kept", auto |-> auto]]
    /\ UNCHANGED <<open, outside, prov, holder, faults>>

Expire ==
    /\ q' = _expire_waiting(q)
    /\ q' # q
    /\ UNCHANGED <<open, outside, prov, holder, faults>>

\* resume_automation_fire_job: the pause does not count against the deadline.
Resume(j) ==
    /\ ent = "both" /\ q[j].paused /\ IsActive(q[j])
    /\ q' = [q EXCEPT ![j].paused = FALSE]
    /\ UNCHANGED <<open, outside, prov, holder, faults>>

\* authorize_connect_job_interactively: a user invokes what an automation began.
Authorize(j) ==
    /\ IsActive(q[j]) /\ q[j].auto /\ ent # "none"
    /\ q' = [q EXCEPT ![j].auto = FALSE, ![j].paused = FALSE]
    /\ UNCHANGED <<open, outside, prov, holder, faults>>

\* The source lock of a job's message is held while its bytes are handed over.
SourceLocked(j) == pc = "posting" /\ run.job = j

\* Another invocation joins an active job and finds that the provider now
\* describes the capability differently.
JoinDrifted(j) ==
    /\ IsActive(q[j]) /\ q[j].src = "kept" /\ ent # "none"
    /\ manifest = "drifted"
    /\ ~SourceLocked(j)
    /\ q' = _mark_connect_failed(j)
    /\ UNCHANGED <<open, outside, prov, holder, faults>>

AcceptRemoval(j) ==
    /\ "remove" \in Events /\ q[j].src = "kept"
    /\ q' = [q EXCEPT ![j] = invalidate(@, "pending")]
    /\ UNCHANGED <<open, outside, prov, holder, faults>>

\* Deleting the message, or dropping the bodies of an unfollowed thread.
CompleteRemoval(j) ==
    /\ q[j].src = "pending" /\ ~SourceLocked(j)
    /\ \/ q' = [q EXCEPT ![j] = invalidate(@, "gone")]
       \/ q' = [q EXCEPT ![j].src = "unfollowed"]
    /\ UNCHANGED <<open, outside, prov, holder, faults>>

\* Retention deletes the message.
PurgeSource(j) ==
    /\ "remove" \in Events /\ q[j].src = "kept" /\ ~SourceLocked(j)
    /\ q' = [q EXCEPT ![j] = invalidate(@, "gone")]
    /\ UNCHANGED <<open, outside, prov, holder, faults>>

DeadlinePasses(j) ==
    /\ IsActive(q[j]) /\ ~q[j].late /\ ~q[j].paused
    /\ q' = [q EXCEPT ![j].late = TRUE]
    /\ UNCHANGED <<open, outside, prov, holder, faults>>

RetryDue(j) ==
    /\ IsActive(q[j]) /\ ~q[j].due
    /\ q' = [q EXCEPT ![j].due = TRUE]
    /\ UNCHANGED <<open, outside, prov, holder, faults>>

LicenceChanges ==
    /\ ent' \in Entitlements \ {ent}
    /\ UNCHANGED <<row, manifest, prov, holder, faults>>

ManifestChanges ==
    /\ manifest = "same"
    /\ manifest' \in Manifests \ {"same"}
    /\ UNCHANGED <<row, ent, prov, holder, faults>>

-----------------------------------------------------------------------------
(* The provider.  A job it does not know is taken by the POST that names it. *)

ProviderTakes ==
    LET s == IF prov[run.job] = "unknown" THEN "accepted" ELSE prov[run.job] IN
    /\ pc = "posting" /\ reply = "none"
    /\ prov' = [prov EXCEPT ![run.job] = s]
    /\ \/ reply' = s /\ UNCHANGED faults
       \/ reply' = "lost" /\ Fault
    /\ UNCHANGED <<row, outside, pc, run>>

ProviderRefuses ==
    /\ pc = "posting" /\ reply = "none"
    /\ prov[run.job] = "unknown"
    /\ \/ reply' \in {"busy", "refused"} /\ UNCHANGED faults
       \/ reply' = "lost" /\ Fault
    /\ UNCHANGED <<row, outside, prov, pc, run>>

ProviderAnswers ==
    /\ pc = "querying" /\ reply = "none"
    /\ \/ /\ reply' = IF prov[run.job] = "unknown" THEN "not_found" ELSE prov[run.job]
          /\ UNCHANGED faults
       \/ reply' = "lost" /\ Fault
    /\ UNCHANGED <<row, outside, prov, pc, run>>

ProviderWorks(j) ==
    /\ \/ prov[j] = "accepted" /\ prov' = [prov EXCEPT ![j] = "processing"]
       \/ prov[j] = "processing" /\ \E s \in {"completed", "failed"} : prov' = [prov EXCEPT ![j] = s]
    /\ UNCHANGED <<row, outside, holder, faults>>

\* The provider loses its record of a job, and the work with it.
ProviderForgets(j) ==
    /\ "forget" \in Events /\ prov[j] # "unknown" /\ Fault
    /\ prov' = [prov EXCEPT ![j] = "unknown"]
    /\ UNCHANGED <<row, outside, holder>>

-----------------------------------------------------------------------------
(* The holder of the lane lock.                                             *)

Ended == pc' = "idle" /\ run' = NoRun /\ reply' = "none"

\* The holder stops after writing f.
EndWith(f) == q' = f /\ Ended /\ UNCHANGED <<open, outside, prov, faults>>

\* The submission that follows a claim, or the query that must come first.
Continue(r, mode) ==
    IF r.disp = "dispatching" /\ mode \notin {"joined", "again"} THEN "submit" ELSE "query"

\* Take the lane lock and claim the head.  The pump first resumes the fires of
\* the head when the licence allows it; an invocation has authorized its job,
\* and may hold a manifest read before it changed.
Claim(j, mode) ==
    LET g == _expire_waiting(q)
        f == IF mode = "pump" /\ ent = "both" THEN [g EXCEPT ![j].paused = FALSE] ELSE g
    IN
    /\ pc = "idle" /\ mode \in Modes
    /\ mode # "pump" => ~q[j].auto /\ ent # "none"
    /\ IsHead(g, j) /\ Claimable(f, j)
    /\ q' = [f EXCEPT ![j] = claim(@)]
    /\ pc' = Continue(q'[j], mode)
    /\ \E seen \in IF mode = "pump" THEN {manifest} ELSE {"same", manifest} :
          run' = [job |-> j, mode |-> mode, seen |-> seen, again |-> FALSE]
    /\ UNCHANGED <<open, outside, prov, reply, faults>>

cur == q[run.job]
\* The holder knows the capability from its registration, not from discovery.
Registered == run.mode \in {"pump", "again"}
\* Where a job goes that may not be submitted for now.
Inactive == IF run.again THEN "reconciling" ELSE "waiting"

\* _defer_inactive_automation_job, before a submission.
PauseInactive ==
    /\ pc = "submit" /\ IsActive(cur) /\ cur.auto /\ ~Authorized(cur)
    /\ EndWith(defer_connect_job(run.job, Inactive, TRUE))

\* _persist_connect_entitlement_failure, before a submission.
FailUnentitled ==
    /\ pc = "submit" /\ IsActive(cur) /\ ~cur.auto /\ ~Authorized(cur)
    /\ EndWith(_mark_connect_failed(run.job))

\* _require_persisted_capability_authority, with a discovered capability.
FailDrifted ==
    /\ \/ pc = "submit" /\ ~run.again
       \/ pc = "query" /\ ~Registered
    /\ run.seen = "drifted"
    /\ EndWith(_mark_connect_failed(run.job))

\* The pump does not find the provider; what was submitted stays so.
DeferAbsent ==
    /\ run.mode = "pump" /\ ~run.again
    /\ \/ pc = "submit" /\ EndWith(defer_connect_job(run.job, "waiting", FALSE))
       \/ /\ pc = "query" /\ Fault
          /\ q' = defer_connect_job(run.job, Unsettled(cur), FALSE)
          /\ Ended /\ UNCHANGED <<open, outside, prov>>

Admitted == pc = "submit" /\ (run.seen = "drifted" => run.again)

\* The source is gone, or its bytes are no longer those that were enqueued.
FailSource == Admitted /\ EndWith(_mark_connect_failed(run.job))

\* The mailbox does not answer, or the source lock is taken, as it is by a
\* removal that is being completed.
DeferSource == Admitted /\ EndWith(defer_connect_job(run.job, "waiting", FALSE))

\* An interactive submission pauses the fires that joined it when automations
\* are off, and that refuses a row that is over; nothing else looks at the row.
Post ==
    /\ Admitted /\ cur.src = "kept"
    /\ Authorized(cur)
    /\ ent = "connect" => IsActive(cur)
    /\ pc' = "posting"
    /\ open' = open \cup {run.job}
    /\ UNCHANGED <<q, outside, prov, run, reply, faults>>

Query ==
    /\ pc = "query" /\ (Registered \/ run.seen # "drifted")
    /\ pc' = "querying"
    /\ UNCHANGED <<row, outside, prov, run, reply, faults>>

\* PROVIDER_BUSY proves that the POST was not accepted.
TakeBusy ==
    /\ reply = "busy"
    /\ q' = defer_connect_job(run.job, IF cur.status = "requested" /\ cur.disp = "dispatching"
                                       THEN "waiting" ELSE Unsettled(cur), FALSE)
    /\ open' = open \ {run.job}
    /\ Ended /\ UNCHANGED <<outside, prov, faults>>

TakeRefusal ==
    /\ reply = "refused"
    /\ q' = _mark_connect_failed(run.job)
    /\ open' = open \ {run.job}
    /\ Ended /\ UNCHANGED <<outside, prov, faults>>

TakeError ==
    /\ reply = "lost"
    /\ EndWith(defer_connect_job(run.job, Unsettled(cur), FALSE))

\* A state the provider reports; the pump leaves a job that is still active to
\* its next round, an invocation polls on.
TakeState ==
    /\ reply \in {"accepted", "processing", "completed", "failed"}
    /\ q' = [q EXCEPT ![run.job] = _apply_connect_update(@, reply)]
    /\ IF IsActive(q'[run.job]) THEN pc' = "polling" /\ reply' = "none" /\ UNCHANGED run
                                ELSE Ended
    /\ UNCHANGED <<open, outside, prov, faults>>

PollAgain ==
    /\ pc = "polling" /\ run.mode # "pump"
    /\ pc' = "querying"
    /\ UNCHANGED <<row, outside, prov, run, reply, faults>>

\* JOB_TIMEOUT: the end of the pump's round or of an invocation's patience.
PollEnds ==
    /\ pc = "polling"
    /\ EndWith(defer_connect_job(run.job, Unsettled(cur), FALSE))

TakeNotFound ==
    /\ reply = "not_found"
    /\ open' = open \ {run.job}
    /\ IF cur.status = "requested" /\ cur.high = "requested"
       THEN pc' = "notfound" /\ reply' = "none" /\ UNCHANGED <<q, run>>
       ELSE q' = defer_connect_job(run.job, Unsettled(cur), FALSE) /\ Ended
    /\ UNCHANGED <<outside, prov, faults>>

(* JOB_NOT_FOUND for a job that was never accepted: it may be sent again.   *)

\* The manifest the resubmission is checked against; a registered capability is
\* discovered again first.
Known == IF Registered THEN manifest ELSE run.seen

\* The row ended meanwhile.
NotFoundOver == pc = "notfound" /\ ~IsActive(cur) /\ EndWith(q)

NotFoundInactive ==
    /\ pc = "notfound" /\ Registered /\ IsActive(cur) /\ ~Authorized(cur)
    /\ EndWith(IF cur.auto THEN defer_connect_job(run.job, "reconciling", TRUE)
                           ELSE _mark_connect_failed(run.job))

\* The provider's manifest is not found.
NotFoundAbsent ==
    /\ pc = "notfound" /\ Registered /\ IsActive(cur) /\ Authorized(cur)
    /\ Fault
    /\ q' = defer_connect_job(run.job, "reconciling", FALSE)
    /\ Ended /\ UNCHANGED <<open, outside, prov>>

MayResubmit == pc = "notfound" /\ IsActive(cur) /\ (Registered => Authorized(cur))

NotFoundDrifted == MayResubmit /\ Known = "drifted" /\ EndWith(_mark_connect_failed(run.job))

\* The attachment is no longer accepted: an error, and nothing is written.
NotFoundNarrow == MayResubmit /\ Known = "narrow" /\ EndWith(q)

\* reset_connect_job_for_resubmission refuses a source that is gone: an error,
\* and nothing is written.
NotFoundSourceless == MayResubmit /\ Known = "same" /\ ~Eligible(cur) /\ EndWith(q)

Reset ==
    /\ MayResubmit /\ Known = "same" /\ Eligible(cur)
    /\ IF cur.high = "requested" /\ cur.disp \in {"waiting", "dispatching", "reconciling"}
       THEN /\ q' = [q EXCEPT ![run.job].status = "requested", ![run.job].disp = "waiting",
                              ![run.job].poss = FALSE, ![run.job].due = TRUE]
            /\ pc' = "reset" /\ UNCHANGED <<run, reply>>
       ELSE UNCHANGED q /\ Ended
    /\ UNCHANGED <<open, outside, prov, faults>>

\* The second claim of the same job.  It fails when the deadline has passed, the
\* source went, or an older job came back to the lane.
Reclaim ==
    LET f == _expire_waiting(q) IN
    /\ pc = "reset"
    /\ IF Claimable(f, run.job)
       THEN /\ q' = [f EXCEPT ![run.job] = claim(@)]
            /\ pc' = "submit" /\ run' = [run EXCEPT !.again = TRUE] /\ UNCHANGED reply
       ELSE q' = f /\ Ended
    /\ UNCHANGED <<open, outside, prov, faults>>

\* The process dies; the operating system frees its locks.
Crash ==
    /\ pc # "idle" /\ Fault
    /\ Ended /\ UNCHANGED <<row, outside, prov>>

-----------------------------------------------------------------------------

Submission ==
    PauseInactive \/ FailUnentitled \/ FailDrifted \/ DeferAbsent \/ FailSource \/ DeferSource
    \/ Post
Reconciliation ==
    Query \/ NotFoundOver \/ NotFoundInactive \/ NotFoundAbsent \/ NotFoundDrifted
    \/ NotFoundNarrow \/ NotFoundSourceless \/ Reset \/ Reclaim
Answer ==
    TakeBusy \/ TakeRefusal \/ TakeError \/ TakeState \/ TakeNotFound \/ PollAgain \/ PollEnds
Step == Submission \/ Reconciliation \/ Answer
Provider == ProviderTakes \/ ProviderRefuses \/ ProviderAnswers

Next ==
    \/ \E j \in Job :
          \/ Create(j) \/ Resume(j) \/ Authorize(j) \/ JoinDrifted(j)
          \/ AcceptRemoval(j) \/ CompleteRemoval(j) \/ PurgeSource(j)
          \/ DeadlinePasses(j) \/ RetryDue(j)
          \/ ProviderWorks(j) \/ ProviderForgets(j)
          \/ \E mode \in Modes : Claim(j, mode)
    \/ Expire \/ LicenceChanges \/ ManifestChanges
    \/ Provider \/ Step \/ Crash

\* The host pumps the queue at the wake-ups it is given, the holder of a lane
\* goes on, time passes, and the provider answers and works.
Fairness ==
    /\ WF_vars(Step) /\ WF_vars(Provider) /\ WF_vars(Expire)
    /\ \A j \in Job :
          /\ WF_vars(Claim(j, "pump")) /\ WF_vars(RetryDue(j))
          /\ WF_vars(DeadlinePasses(j)) /\ WF_vars(ProviderWorks(j))
          /\ WF_vars(CompleteRemoval(j))

Safety == Init /\ [][Next]_vars
Spec == Safety /\ Fairness

-----------------------------------------------------------------------------
(* Properties.                                                              *)

Row == [status : Active \cup {"none", "completed", "failed", "removed"},
        disp : Owning \cup {"waiting", "terminal"},
        poss : BOOLEAN, high : Active, due : BOOLEAN, paused : BOOLEAN, late : BOOLEAN,
        src : {"kept", "pending", "unfollowed", "gone"}, auto : BOOLEAN]

\* The two rows of a job move together: a requested job is waiting, dispatched or
\* reconciled, an accepted one is the provider's, and nothing else is queued.
Paired(r) ==
    CASE r.status = "requested" -> r.disp \in {"waiting", "dispatching", "reconciling"}
      [] r.status \in Working -> r.disp = "provider_owned"
      [] OTHER -> r.disp = "terminal"

\* Types, and the pairing of transport status and dispatch state that the
\* contract for connect_job_dispatch lists.
TypeOK ==
    /\ q \in [Job -> Row] /\ \A j \in Job : Paired(q[j])
    /\ ent \in {"both", "connect", "none"}
    /\ manifest \in {"same", "drifted", "narrow"}
    /\ prov \in [Job -> Working \cup {"unknown", "completed", "failed"}]
    /\ pc \in {"idle", "submit", "posting", "query", "querying", "polling", "notfound", "reset"}
    /\ run \in [job : Job \cup {0}, mode : Modes \cup {"none"},
                seen : {"same", "drifted", "narrow"}, again : BOOLEAN]
    /\ reply \in {"none", "busy", "refused", "lost", "not_found", "accepted", "processing",
                  "completed", "failed"}
    /\ open \subseteq Job /\ faults \in 0..MaxFaults

\* A provider instance never works on two jobs of its lane at a time, unless it
\* changed what it says of the capability (TerminalIsTruthful): a job whose outcome
\* is unknown keeps the lane through crashes, lost answers, refusals, removal of its
\* source and the deadline (claim_connect_lane_head, _defer_generic_connect_error,
\* _expire_waiting_connect_jobs_transaction).
LaneExclusive == manifest # "drifted" => Cardinality({j \in Job : prov[j] \in Working}) <= 1

\* A job is not sent again before an answer has shown that its last POST was not
\* accepted (claim_connect_lane_head, _query_generic_connect_job).
NoBlindPost == [][pc = "submit" /\ pc' = "posting" => run.job \notin open]_vars

\* What the provider has accepted never goes back to the queue, and a job that is
\* over stays over, whatever answers still arrive (transition_connect_job,
\* defer_connect_job, reset_connect_job_for_resubmission).
ProgressIsKept ==
    [][\A j \in Job :
          /\ q[j].status \in Working /\ q'[j].status # "removed" =>
                Level(q'[j].status) >= Level(q[j].status) /\ q'[j].disp # "waiting"
          /\ q[j].status \in {"completed", "failed"} => q'[j].status \in {q[j].status, "removed"}
      ]_vars

\* A row is ended, or deleted with its source, only when the provider is not
\* working on the job and no POST of it is under way.
TerminalIsTruthful ==
    \A j \in Job : q[j].status \in {"completed", "failed", "removed"} =>
        prov[j] \notin Working /\ ~SourceLocked(j)

\* Every job ends: by the provider, by a refusal or by its deadline.
EventuallySettled == \A j \in Job : IsActive(q[j]) ~> ~IsActive(q[j])

-----------------------------------------------------------------------------
(* The lane as its users see it.                                            *)

Seen(r) ==
    CASE r.status = "none" -> "none"
      [] r.status \in {"completed", "failed", "removed"} -> "done"
      [] r.disp = "waiting" -> "waiting"
      [] r.disp = "provider_owned" -> "owned"
      [] OTHER -> "offered"

Lane == INSTANCE ConnectLane WITH lane <- [j \in Job |-> Seen(q[j])]

\* The queue implements the abstract lane: one job at a time is offered or owned,
\* although expiry, pause, removal and joins take no lane lock
\* (claim_connect_lane_head, defer_connect_job, transition_connect_job).
LaneSpec == Lane!Spec
=============================================================================
