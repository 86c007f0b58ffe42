-------------------------- MODULE MessageLifecycle --------------------------
(***************************************************************************)
(* What becomes of a captured message: its analysis by the model, the       *)
(* notice the user gets, the retries in between, and the operations that    *)
(* may interfere.                                                           *)
(*                                                                          *)
(* The operation lock serialises checks, the desktop host's delivery batch  *)
(* and local deletion; its holder is `lock` and there is one control state  *)
(* pc.  Requeueing a paused analysis and changing settings take no lock and *)
(* may happen between any two steps.  A step is one transaction, one call   *)
(* of the mail provider or the model, or one notice; a crash, an exception  *)
(* or the host's deadline may end the lock holder between any two steps.    *)
(***************************************************************************)
EXTENDS Naturals, FiniteSets

CONSTANTS
    Message,       \* captured messages, numbered by received_at
    BodyLimits,    \* values of the body_char_limit setting
    Batch,         \* the LIMIT of the three queues
    MaxRequests,   \* bound on request ids, through requeues
    MaxFaults,     \* bound on crashes, lost acknowledgements and lost answers
    MaxFailures    \* bound on failing notices, fetches and model calls

ASSUME LifecycleAssumption ==
    /\ Message \subseteq Nat
    /\ BodyLimits \subseteq Nat \ {0}
    /\ {Batch, MaxRequests, MaxFaults, MaxFailures} \subseteq Nat

VARIABLES
    row,        \* table messages
    held,       \* messages whose removal is accepted and not complete
    config,     \* the settings file
    lock,       \* holder of the operation lock
    pc, stage,  \* the holder's position, and the queue it works through
    cfg,        \* the settings its check was started with
    work, cur,  \* messages left in the queue, the current message
    req,        \* its AnalysisRequest
    verdict,    \* the failure to record for it
    calls, acked, nextId,   \* history: <<id, message, limit>> of every model
                \* call, ids acknowledged to the gateway, the next fresh id
    shown,      \* history: notices the user saw
    faults, failures

history == <<calls, acked, nextId>>
holder == <<lock, pc, stage, cfg, work, cur, req, verdict>>
vars == <<row, held, config, holder, history, shown, faults, failures>>

None == 0
NoRequest == [id |-> 0, limit |-> 0]

\* A row: status; req, the pinned request; paused (analysis_retryable = 0);
\* due (next_retry_at); error (last_error); fellBack (fallback_notified_at).
Row(status) ==
    [status |-> status, req |-> NoRequest, paused |-> FALSE, due |-> TRUE,
     error |-> FALSE, fellBack |-> FALSE]

Init ==
    /\ row = [m \in Message |-> Row("absent")]
    /\ held = {}
    /\ config \in [enabled : BOOLEAN, limit : BodyLimits]
    /\ lock = "none" /\ pc = "idle" /\ stage = "idle"
    /\ cfg = [enabled |-> FALSE, limit |-> 0, delivers |-> FALSE]
    /\ work = {} /\ cur = None /\ req = NoRequest /\ verdict = "none"
    /\ calls = {} /\ acked = {} /\ nextId = 1
    /\ shown = [m \in Message |-> [analysis |-> 0, fallback |-> 0]]
    /\ faults = 0 /\ failures = 0

Oldest(S) == {m \in S : Cardinality({n \in S : n < m}) < Batch}

Fails == failures < MaxFailures /\ failures' = failures + 1

-----------------------------------------------------------------------------
(* Store operations on the row of one message. *)

Available(m) == m \notin held

\* Mutant: a retry takes the setting of the day.
reserve_analysis_request_unpinned(r) ==
    [r EXCEPT !.req = [id |-> IF r.req.id = 0 THEN nextId ELSE r.req.id, limit |-> cfg.limit]]

reserve_analysis_request(r) ==
    IF r.req.id = 0 THEN [r EXCEPT !.req = [id |-> nextId, limit |-> cfg.limit]] ELSE r

record_failure(r) == [r EXCEPT !.due = FALSE, !.error = TRUE]

\* next_retry_at is NULL, hence due, when the analysis is paused.
record_analysis_failure(r, paused) ==
    [r EXCEPT !.due = paused, !.error = TRUE, !.paused = paused]

\* Mutant: a requeued message keeps its request.
requeue_analysis_keeps_request(r) == [r EXCEPT !.due = TRUE, !.paused = FALSE]

requeue_analysis(r) == [r EXCEPT !.due = TRUE, !.paused = FALSE, !.req = NoRequest]

mark_skipped(r) ==
    [r EXCEPT !.status = "skipped", !.due = TRUE, !.error = TRUE, !.req = NoRequest,
              !.paused = FALSE]

requeue_if_skipped(r) == [r EXCEPT !.status = "pending", !.due = TRUE, !.error = FALSE]

\* Mutant: the request of a finished analysis stays in its row.
mark_analyzed_keeps_request(r) ==
    [r EXCEPT !.status = "analyzed", !.due = TRUE, !.error = FALSE, !.paused = FALSE]

mark_analyzed(r) ==
    [r EXCEPT !.status = "analyzed", !.due = TRUE, !.error = FALSE, !.req = NoRequest,
              !.paused = FALSE]

\* Mutant: a delivered message stays in the queue.
mark_delivery_complete_unsettled(r) == [r EXCEPT !.due = TRUE, !.error = FALSE]

mark_delivery_complete(r) ==
    [r EXCEPT !.status = "summarized", !.due = TRUE, !.error = FALSE]

\* Mutant: the fallback notice is not remembered.
mark_fallback_notified_lost(r) == r

mark_fallback_notified(r) == [r EXCEPT !.fellBack = TRUE]

FallbackDue(m) ==
    row[m].status = "pending" /\ row[m].error /\ ~row[m].fellBack

\* Mutant: removals in progress are not excluded.
notification_intents_all(kinds) ==
    {m \in Message : \/ "analysis" \in kinds /\ row[m].status = "analyzed"
                     \/ "fallback" \in kinds /\ FallbackDue(m)}

notification_intents(kinds) ==
    {m \in Message : /\ Available(m)
                     /\ \/ "analysis" \in kinds /\ row[m].status = "analyzed"
                        \/ "fallback" \in kinds /\ FallbackDue(m)}

pending_delivery == {m \in Message : Available(m) /\ row[m].status = "analyzed" /\ row[m].due}

\* Mutant: a paused analysis is offered again.
pending_paused ==
    {m \in Message : Available(m) /\ row[m].status = "pending" /\ row[m].due}

pending ==
    {m \in Message : Available(m) /\ row[m].status = "pending" /\ ~row[m].paused /\ row[m].due}

Update(m, r) == row' = [row EXCEPT ![m] = r]

-----------------------------------------------------------------------------
(* The check. *)

\* delivers: eom-mail-watch check sends its own notices, the host's check
\* leaves them to the host.
StartCheck ==
    /\ lock = "none"
    /\ lock' = "check"
    /\ \E d \in BOOLEAN :
         cfg' = [enabled |-> config.enabled, limit |-> config.limit, delivers |-> d]
    /\ pc' = "capture"
    /\ UNCHANGED <<row, held, config, stage, work, cur, req, verdict, history, shown,
                   faults, failures>>

\* A new message, or another copy of one that was skipped.
Capture(m) ==
    /\ pc = "capture"
    /\ \/ row[m].status = "absent" /\ Update(m, Row("pending"))
       \/ /\ row[m].status = "skipped" /\ nextId < MaxRequests
          /\ Update(m, requeue_if_skipped(row[m]))
    /\ UNCHANGED <<held, config, holder, history, shown, faults, failures>>

ListFallbacks ==
    /\ pc = "capture"
    /\ pc' = "fallback" /\ stage' = "fallback"
    /\ work' = IF cfg.delivers /\ cfg.enabled
               THEN Oldest(notification_intents({"fallback"})) ELSE {}
    /\ UNCHANGED <<row, held, config, lock, cfg, cur, req, verdict, history, shown,
                   faults, failures>>

RetryFallback(m) ==
    /\ pc = "fallback"
    /\ m \in work
    /\ cur' = m /\ verdict' = "none"
    /\ pc' = "notice"
    /\ UNCHANGED <<row, held, config, lock, stage, cfg, work, req, history, shown,
                   faults, failures>>

\* Messages here are within the retention cutoff: one that is past it is left
\* out of this queue and the next, and purged when the check ends.
ListDeliveries ==
    /\ pc = "fallback"
    /\ work = {}
    /\ work' = Oldest(pending_delivery)
    /\ pc' = "deliver" /\ stage' = "deliver"
    /\ UNCHANGED <<row, held, config, lock, cfg, cur, req, verdict, history, shown,
                   faults, failures>>

Deliver(m) ==
    /\ pc = "deliver"
    /\ m \in work
    /\ cur' = m
    /\ pc' = "settle"
    /\ UNCHANGED <<row, held, config, lock, stage, cfg, work, req, verdict, history, shown,
                   faults, failures>>

ListPending ==
    /\ pc = "deliver"
    /\ work = {}
    /\ work' = Oldest(pending)
    /\ pc' = "analyze" /\ stage' = "analyze"
    /\ UNCHANGED <<row, held, config, lock, cfg, cur, req, verdict, history, shown,
                   faults, failures>>

\* The current message is done.
NextInQueue == pc' = stage /\ work' = work \ {cur} /\ UNCHANGED <<cur, stage>>

Reserve(m) ==
    /\ pc = "analyze"
    /\ m \in work
    /\ Available(m) /\ row[m].status = "pending"
    /\ Update(m, reserve_analysis_request(row[m]))
    /\ req' = row'[m].req
    /\ nextId' = IF row[m].req.id = 0 THEN nextId + 1 ELSE nextId
    /\ cur' = m
    /\ pc' = "fetch"
    /\ UNCHANGED <<held, config, lock, stage, cfg, work, verdict, calls, acked, shown,
                   faults, failures>>

\* The message belongs to another mailbox than the one connected now.
Unverified(m) ==
    /\ pc = "analyze"
    /\ m \in work
    /\ Fails
    /\ Update(m, record_analysis_failure(row[m], TRUE))
    /\ work' = work \ {m}
    /\ UNCHANGED <<held, config, lock, pc, stage, cfg, cur, req, verdict, history, shown, faults>>

\* A failure is followed by a notice when this check sends notices and the
\* message had none, and recorded afterwards.
FailWith(v) ==
    /\ verdict' = v
    /\ pc' = IF cfg.delivers /\ cfg.enabled /\ ~row[cur].fellBack THEN "notice" ELSE "fail"
    /\ UNCHANGED <<lock, stage, cfg, work, cur, req>>

FetchContent ==
    /\ pc = "fetch"
    /\ pc' = "model"
    /\ UNCHANGED <<row, held, config, lock, stage, cfg, work, cur, req, verdict, history, shown,
                   faults, failures>>

ContentUnavailable ==
    /\ pc = "fetch"
    /\ Fails
    /\ Update(cur, mark_skipped(row[cur]))
    /\ NextInQueue
    /\ UNCHANGED <<held, config, lock, cfg, req, verdict, history, shown, faults>>

ContentInvalid ==
    /\ pc = "fetch"
    /\ Fails
    /\ FailWith("pause")
    /\ UNCHANGED <<row, held, config, history, shown, faults>>

Called == calls' = calls \cup {<<req.id, cur, req.limit>>}

ModelAnswers ==
    /\ pc = "model"
    /\ Called
    /\ pc' = "persist"
    /\ UNCHANGED <<row, held, config, lock, stage, cfg, work, cur, req, verdict, acked,
                   nextId, shown, faults, failures>>

\* GatewayOutputRejected, GatewayModelError (retryable or not), ModelError.
ModelFails ==
    /\ pc = "model"
    /\ Called
    /\ Fails
    /\ \E v \in {"retry", "pause", "reject"} : FailWith(v)
    /\ UNCHANGED <<row, held, config, acked, nextId, shown, faults>>

Persist ==
    /\ pc = "persist"
    /\ Available(cur) /\ row[cur].status = "pending"
    /\ Update(cur, mark_analyzed(row[cur]))
    /\ pc' = "ack"
    /\ UNCHANGED <<held, config, lock, stage, cfg, work, cur, req, verdict, history, shown,
                   faults, failures>>

\* A failed acknowledgement is logged and nothing else.
AcknowledgeResult ==
    /\ pc = "ack"
    /\ \E ids \in {{}, {req.id}} : acked' = acked \cup ids
    /\ pc' = "settle"
    /\ UNCHANGED <<row, held, config, lock, stage, cfg, work, cur, req, verdict, calls,
                   nextId, shown, faults, failures>>

\* _deliver_analysis: notices are off, or the host shows it, or it is sent.
\* Mutant: only a check that sends notices closes a message without one.
SettleUnnotified_delivering ==
    /\ pc = "settle"
    /\ ~cfg.enabled
    /\ IF cfg.delivers THEN Update(cur, mark_delivery_complete(row[cur])) ELSE UNCHANGED row
    /\ NextInQueue
    /\ UNCHANGED <<held, config, lock, cfg, req, verdict, history, shown, faults, failures>>

SettleUnnotified ==
    /\ pc = "settle"
    /\ ~cfg.enabled
    /\ Update(cur, mark_delivery_complete(row[cur]))
    /\ NextInQueue
    /\ UNCHANGED <<held, config, lock, cfg, req, verdict, history, shown, faults, failures>>

LeaveToHost ==
    /\ pc = "settle"
    /\ cfg.enabled /\ ~cfg.delivers
    /\ NextInQueue
    /\ UNCHANGED <<row, held, config, lock, cfg, req, verdict, history, shown, faults, failures>>

Show(m, kind) == shown' = [shown EXCEPT ![m][kind] = @ + 1]

\* A notice whose sending failed may have been shown all the same: notify-send
\* or the host's helper is given up, or ntfy's answer lost, after it was
\* accepted.  The code takes it as not shown; it is counted as a fault.
ShowUnanswered(m, kind) ==
    \/ UNCHANGED <<shown, faults>>
    \/ Show(m, kind) /\ faults < MaxFaults /\ faults' = faults + 1

SendAnalysis ==
    /\ pc = "settle"
    /\ cfg.enabled /\ cfg.delivers
    /\ Available(cur)
    /\ Show(cur, "analysis")
    /\ pc' = "sent"
    /\ UNCHANGED <<row, held, config, lock, stage, cfg, work, cur, req, verdict, history,
                   faults, failures>>

SendAnalysisFails ==
    /\ pc = "settle"
    /\ cfg.enabled /\ cfg.delivers
    /\ Available(cur)
    /\ Fails
    /\ ShowUnanswered(cur, "analysis")
    /\ FailWith("delay")
    /\ UNCHANGED <<row, held, config, history>>

MarkDelivered ==
    /\ pc = "sent"
    /\ Update(cur, mark_delivery_complete(row[cur]))
    /\ NextInQueue
    /\ UNCHANGED <<held, config, lock, cfg, req, verdict, history, shown, faults, failures>>

\* _send_fallback.
SendFallback ==
    /\ pc = "notice"
    /\ Available(cur)
    /\ Show(cur, "fallback")
    /\ pc' = "noticed"
    /\ UNCHANGED <<row, held, config, lock, stage, cfg, work, cur, req, verdict, history,
                   faults, failures>>

SendFallbackFails ==
    /\ pc = "notice"
    /\ Available(cur)
    /\ Fails
    /\ ShowUnanswered(cur, "fallback")
    /\ pc' = "fail"
    /\ UNCHANGED <<row, held, config, lock, stage, cfg, work, cur, req, verdict, history>>

MarkFallback ==
    /\ pc = "noticed"
    /\ Update(cur, mark_fallback_notified(row[cur]))
    /\ pc' = "fail"
    /\ UNCHANGED <<held, config, lock, stage, cfg, work, cur, req, verdict, history, shown,
                   faults, failures>>

RecordVerdict ==
    /\ pc = "fail"
    /\ Update(cur, CASE verdict = "none" -> row[cur]
                     [] verdict = "delay" -> record_failure(row[cur])
                     [] OTHER -> record_analysis_failure(row[cur], verdict # "retry"))
    /\ IF verdict = "reject" THEN pc' = "rejected" /\ UNCHANGED <<work, cur, stage>>
                             ELSE NextInQueue
    /\ UNCHANGED <<held, config, lock, cfg, req, verdict, history, shown, faults, failures>>

AcknowledgeRejected ==
    /\ pc = "rejected"
    /\ \E ids \in {{}, {req.id}} : acked' = acked \cup ids
    /\ NextInQueue
    /\ UNCHANGED <<row, held, config, lock, cfg, req, verdict, calls, nextId, shown,
                   faults, failures>>

Release ==
    /\ lock' = "none" /\ pc' = "idle" /\ stage' = "idle"
    /\ work' = {} /\ cur' = None /\ req' = NoRequest /\ verdict' = "none"
    /\ cfg' = [enabled |-> FALSE, limit |-> 0, delivers |-> FALSE]

FinishCheck ==
    /\ pc = "analyze"
    /\ work = {}
    /\ Release
    /\ UNCHANGED <<row, held, config, history, shown, faults, failures>>

-----------------------------------------------------------------------------
(* The desktop host's delivery batch. *)

HostList ==
    /\ lock = "none"
    /\ config.enabled
    /\ lock' = "host"
    /\ work' = Oldest(notification_intents({"analysis", "fallback"}))
    /\ pc' = "host"
    /\ UNCHANGED <<row, held, config, stage, cfg, cur, req, verdict, history, shown,
                   faults, failures>>

IntentKind(m) == IF row[m].status = "analyzed" THEN "analysis" ELSE "fallback"

HostShow(m) ==
    /\ pc = "host"
    /\ m \in work
    /\ \/ /\ Show(m, IntentKind(m))
          /\ pc' = "shown" /\ cur' = m
          /\ UNCHANGED <<work, faults, failures>>
       \/ /\ Fails
          /\ ShowUnanswered(m, IntentKind(m))
          /\ work' = work \ {m}
          /\ UNCHANGED <<pc, cur>>
    /\ UNCHANGED <<row, held, config, lock, stage, cfg, req, verdict, history>>

\* An intent that is no longer current changes nothing.
acknowledge_notification(m) ==
    CASE row[m].status = "analyzed" -> mark_delivery_complete(row[m])
      [] FallbackDue(m) -> mark_fallback_notified(row[m])
      [] OTHER -> row[m]

HostAcknowledge ==
    /\ pc = "shown"
    /\ \/ /\ Update(cur, IF Available(cur) THEN acknowledge_notification(cur) ELSE row[cur])
          /\ UNCHANGED faults
       \/ /\ faults < MaxFaults       \* the call fails
          /\ faults' = faults + 1
          /\ UNCHANGED row
    /\ pc' = "host" /\ work' = work \ {cur}
    /\ UNCHANGED <<held, config, lock, stage, cfg, cur, req, verdict, history, shown, failures>>

HostDone ==
    /\ pc = "host"
    /\ work = {}
    /\ Release
    /\ UNCHANGED <<row, held, config, history, shown, faults, failures>>

\* A crash, an exception that ends the check, or the delivery deadline.
Abort ==
    /\ lock # "none"
    /\ faults < MaxFaults
    /\ faults' = faults + 1
    /\ Release
    /\ UNCHANGED <<row, held, config, history, shown, failures>>

-----------------------------------------------------------------------------
(* Operations beside the check. *)

\* analysis.requeue and the CLI's requeue take no lock.
Requeue(m) ==
    /\ row[m].status = "pending" /\ row[m].paused
    /\ nextId < MaxRequests
    /\ Update(m, requeue_analysis(row[m]))
    /\ UNCHANGED <<held, config, holder, history, shown, faults, failures>>

ChangeSettings ==
    /\ config' \in [enabled : BOOLEAN, limit : BodyLimits]
    /\ UNCHANGED <<row, held, holder, history, shown, faults, failures>>

AcceptRemoval(m) ==
    /\ lock = "none"
    /\ row[m].status \notin {"absent", "removed"} /\ m \notin held
    /\ held' = held \cup {m}
    /\ UNCHANGED <<row, config, holder, history, shown, faults, failures>>

CompleteRemoval(m) ==
    /\ lock = "none"
    /\ m \in held
    /\ held' = held \ {m}
    /\ Update(m, Row("removed"))
    /\ UNCHANGED <<config, holder, history, shown, faults, failures>>

RetryDue(m) ==
    /\ ~row[m].due
    /\ Update(m, [row[m] EXCEPT !.due = TRUE])
    /\ UNCHANGED <<held, config, holder, history, shown, faults, failures>>

-----------------------------------------------------------------------------
CheckStep ==
    \/ ListFallbacks \/ ListDeliveries \/ ListPending \/ FinishCheck
    \/ FetchContent \/ ContentUnavailable \/ ContentInvalid
    \/ ModelAnswers \/ ModelFails \/ Persist \/ AcknowledgeResult
    \/ SettleUnnotified \/ LeaveToHost \/ SendAnalysis \/ SendAnalysisFails \/ MarkDelivered
    \/ SendFallback \/ SendFallbackFails \/ MarkFallback \/ RecordVerdict \/ AcknowledgeRejected
    \/ \E m \in Message : RetryFallback(m) \/ Deliver(m) \/ Reserve(m) \/ Unverified(m)

HostStep == HostAcknowledge \/ HostDone \/ \E m \in Message : HostShow(m)

Beside(m) == Requeue(m) \/ AcceptRemoval(m) \/ CompleteRemoval(m)

Next ==
    \/ StartCheck \/ HostList \/ CheckStep \/ HostStep \/ Abort \/ ChangeSettings
    \/ \E m \in Message : Capture(m) \/ Beside(m) \/ RetryDue(m)

\* The scheduler starts a check and a delivery batch again and again, and
\* repeats one that found the lock busy; a started one goes on; time passes.
Fairness ==
    /\ SF_vars(StartCheck) /\ SF_vars(HostList)
    /\ WF_vars(CheckStep) /\ WF_vars(HostStep)
    /\ \A m \in Message : WF_vars(RetryDue(m))

Spec == Init /\ [][Next]_vars /\ Fairness

-----------------------------------------------------------------------------
MessageRow ==
    [status : {"absent", "pending", "analyzed", "summarized", "skipped", "removed"},
     req : [id : Nat, limit : Nat],
     paused : BOOLEAN, due : BOOLEAN, error : BOOLEAN, fellBack : BOOLEAN]

\* Only a pending message has a paused analysis or a reserved request.
RowOK(r) == r \in MessageRow /\ (r.paused \/ r.req.id # 0 => r.status = "pending")

\* Every variable has the shape the tables and the code give it; only a
\* pending message has a paused analysis or a reserved request.
TypeOK ==
    /\ row \in [Message -> MessageRow] /\ \A m \in Message : RowOK(row[m])
    /\ held \subseteq Message
    /\ config \in [enabled : BOOLEAN, limit : BodyLimits]
    /\ cfg \in [enabled : BOOLEAN, limit : Nat, delivers : BOOLEAN]
    /\ lock \in {"none", "check", "host"}
    /\ work \subseteq Message /\ cur \in Message \cup {None}
    /\ req \in [id : Nat, limit : Nat]
    /\ nextId \in Nat /\ faults \in Nat /\ failures \in Nat
    /\ shown \in [Message -> [analysis : Nat, fallback : Nat]]

\* The message the check analyses stays pending under the request it was
\* reserved with until the check itself moves it, although a requeue may run
\* at any moment: it changes only paused rows, which no check has in hand.
InFlightPinned ==
    pc \in {"fetch", "model", "persist"} =>
        /\ row[cur].status = "pending" /\ ~row[cur].paused
        /\ row[cur].req = req /\ req.id # 0

\* Retries reuse identical content: one request id always means one message
\* and one body limit, whatever the settings have become since.
SameRequestSameContent ==
    \A c, d \in calls : c[1] = d[1] => c = d

\* The gateway forgets a request once its result is acknowledged, so an
\* acknowledged id is never submitted again: the result was stored before, or
\* the analysis is paused and a requeue gives it a fresh id.
AckedIsOver ==
    /\ \A m \in Message : row[m].req.id \in acked => row[m].paused
    /\ pc \in {"fetch", "model", "persist"} => req.id \notin acked

\* Without a fault the user sees each notice of a message once, however often
\* its sending fails; a crash, a lost acknowledgement, or a notice that was
\* shown although its sending raised, adds one at most.
NoticesBounded ==
    \A m \in Message : shown[m].analysis <= 1 + faults /\ shown[m].fallback <= 1 + faults

-----------------------------------------------------------------------------
(* The inductive invariant behind the properties above.                     *)

Loops == {"fallback", "deliver", "analyze"}
InFlight == {"fetch", "model", "persist"}
Failing == {"notice", "noticed", "fail"}
CheckOfOne == InFlight \cup Failing \cup {"ack", "settle", "sent", "rejected"}

\* Where the lock holder is, and what it knows of its current message.
PcInv ==
    /\ pc \in Loops \cup CheckOfOne \cup {"idle", "capture", "host", "shown"}
    /\ lock = CASE pc = "idle" -> "none" [] pc \in {"host", "shown"} -> "host" [] OTHER -> "check"
    /\ pc \in Loops => stage = pc
    /\ pc \in {"idle", "capture", "host", "shown"} => stage = "idle"
    /\ pc \in CheckOfOne => stage \in Loops /\ cur \in Message
    /\ pc = "shown" => /\ cur \in Message /\ Available(cur)
                       /\ row[cur].status = "analyzed" \/ FallbackDue(cur)
    /\ verdict \in {"none", "delay", "retry", "pause", "reject"}
    /\ pc \in InFlight \/ (pc \in Failing /\ verdict \in {"retry", "pause", "reject"}) =>
         /\ stage = "analyze"
         /\ row[cur].status = "pending" /\ ~row[cur].paused
         /\ row[cur].req = req /\ req.id # 0
    /\ pc \in {"ack", "settle", "sent"} => row[cur].status = "analyzed"
    /\ pc = "notice" => ~row[cur].fellBack /\ row[cur].status \notin {"absent", "removed"}

\* What it knows of the messages still in its queue.
Waiting(m) == m \in work /\ (pc \in CheckOfOne \cup {"shown"} => m # cur)

QueueInv ==
    \A m \in Message : Waiting(m) =>
        /\ stage = "fallback" => ~row[m].fellBack /\ row[m].status \notin {"absent", "removed"}
        /\ stage = "deliver" => row[m].status = "analyzed"
        /\ stage = "analyze" => row[m].status = "pending" /\ ~row[m].paused
        /\ lock = "host" => Available(m) /\ (row[m].status = "analyzed" \/ FallbackDue(m))

\* Request ids are fresh, belong to one message each, and are over once
\* acknowledged.
IdInv ==
    /\ nextId > 0
    /\ \A m \in Message : row[m].req.id < nextId
    /\ \A m, n \in Message : row[m].req.id = row[n].req.id /\ row[m].req.id # 0 => m = n
    /\ \A id \in acked : id \in Nat /\ id # 0 /\ id < nextId
    /\ \A m \in Message : row[m].req.id \in acked => row[m].paused
    /\ pc \in {"ack", "rejected"} =>
         /\ req.id # 0 /\ req.id < nextId
         /\ \A m \in Message : row[m].req.id = req.id => row[m].paused

CallInv ==
    /\ \A c \in calls :
         /\ c \in Nat \X Message \X Nat
         /\ c[1] # 0 /\ c[1] < nextId
         /\ \A m \in Message : row[m].req.id = c[1] => c = <<row[m].req.id, m, row[m].req.limit>>
    /\ SameRequestSameContent

\* A notice that was shown is remembered in the row, is about to be, or was
\* forgotten by a fault.
AnalysisTold(m) ==
    \/ row[m].status \in {"summarized", "removed"}
    \/ pc = "sent" /\ cur = m
    \/ pc = "shown" /\ cur = m /\ row[m].status = "analyzed"

FallbackTold(m) ==
    \/ row[m].fellBack \/ row[m].status = "removed"
    \/ pc = "noticed" /\ cur = m
    \/ pc = "shown" /\ cur = m /\ row[m].status # "analyzed"

NoticeInv ==
    \A m \in Message :
        /\ shown[m].analysis <= faults + (IF AnalysisTold(m) THEN 1 ELSE 0)
        /\ shown[m].fallback <= faults + (IF FallbackTold(m) THEN 1 ELSE 0)
        /\ row[m].status = "absent" => shown[m].analysis = 0 /\ shown[m].fallback = 0

\* The inductive invariant: types, what the lock holder knows of its message
\* and its queue, request ids, model calls and remembered notices.
IInv == TypeOK /\ PcInv /\ QueueInv /\ IdInv /\ CallInv /\ NoticeInv

-----------------------------------------------------------------------------
\* No notice of a message appears once its removal has been accepted.
NoNoticeOfRemoved ==
    [][\A m \in Message : m \in held => shown'[m] = shown[m]]_vars

\* A pending message that is not paused is analysed, skipped or paused in the
\* end, and its notice shown or given up, unless the user removes it.
EventuallySettled ==
    \A m \in Message :
        row[m].status \in {"pending", "analyzed"} ~>
            \/ row[m].status \in {"summarized", "skipped", "removed"}
            \/ row[m].paused \/ m \in held
=============================================================================
