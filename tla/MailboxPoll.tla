---------------------------- MODULE MailboxPoll -----------------------------
(***************************************************************************)
(* One Gmail mailbox and the check that polls it: the saved history cursor, *)
(* bounded batches with a continuation, the capture of every listed id, and *)
(* the durable recovery that replaces a cursor Gmail no longer accepts.     *)
(*                                                                          *)
(* A check holds the operation lock from StartPoll, StartStale or           *)
(* ResumeRecovery until it is idle again, so local deletion, resumption of  *)
(* a deferred removal and the purge of a settings change happen when idle.  *)
(* Each step in between is one transaction or one provider call; a crash or *)
(* a provider error may end the check between any two of them.             *)
(*                                                                          *)
(* Left to other modules: analysis, notification, the Sent folder, who      *)
(* grants admission, folder locations and followed threads.  A message is   *)
(* admitted when it is in `match`: its sender is watched, or it carries a    *)
(* selected label, which the user may apply after it has arrived.           *)
(***************************************************************************)
EXTENDS Integers, Sequences, SequencesExt, FiniteSets

CONSTANTS
    Mail,             \* message ids, in the order they arrive
    BatchLimit,       \* MAX_INCREMENTAL_MESSAGE_IDS
    ReplayBound,      \* MAX_HISTORY_CONTINUATION_OFFSET
    PageLimit,        \* ids in one recovery page
    TicksPerSecond,   \* Gmail's search bounds are whole seconds
    Slack,            \* the five minutes a recovery looks back
    Retention,        \* retention_days
    MaxRetention,     \* MAX_RETENTION_DAYS, the life of a suppression
    CheckTicks,       \* the longest a check lasts
    MaxClock,         \* bound on time
    MaxFaults,        \* bound on crashes, errors and interruptions
    Events            \* what else may happen: "expire", "vanish", "label"

ASSUME PollAssumption ==
    /\ Mail \subseteq Nat
    /\ {BatchLimit, PageLimit, TicksPerSecond} \subseteq Nat \ {0}
    /\ {ReplayBound, Slack, CheckTicks, MaxClock, MaxFaults} \subseteq Nat
    /\ Retention \in Nat /\ MaxRetention \in Nat /\ Retention <= MaxRetention
    /\ Events \subseteq {"expire", "vanish", "label"}

VARIABLES
    clock, faults,
    history,      \* Gmail: the ids of its history records, oldest first
    floor,        \* Gmail: records up to this one have expired
    recv,         \* Gmail: arrival time of each message that has arrived
    match,        \* messages the admission rules accept
    gone,         \* messages deleted at Gmail
    cursor,       \* mailbox_state.cursor
    last,         \* mailbox_state.last_success_at
    recovery,     \* the gmail_recovery_state row, or NoRecovery
    stored,       \* table messages
    held,         \* messages with an accepted removal that is not yet complete
    suppressed,   \* table suppressed_messages
    deleted,      \* history variable: messages the user deleted locally
    pc, batch, next, polled   \* the running check: position, ids left, the
                              \* cursor to commit, checked_at

mailbox == <<history, floor, recv, match, gone>>
messages == <<stored, held, suppressed, deleted>>
check == <<pc, batch, next, polled>>
vars == <<clock, faults, mailbox, cursor, last, recovery, messages, check>>

NoRecovery == [open |-> FALSE]
NoCursor == [start |-> 0, prefix |-> <<>>]

\* The local variables of a check that has ended.
Ended == pc' = "idle" /\ batch' = <<>> /\ next' = NoCursor /\ polled' = 0

Init ==
    /\ clock = 0 /\ faults = 0
    /\ history = <<>> /\ floor = 0
    /\ recv = [m \in {} |-> 0]
    /\ match = {} /\ gone = {}
    /\ cursor = NoCursor
    /\ last = 0
    /\ recovery = NoRecovery
    /\ stored = {} /\ held = {} /\ suppressed = {} /\ deleted = {}
    /\ pc = "idle" /\ batch = <<>> /\ next = NoCursor /\ polled = 0

arrived == DOMAIN recv

-----------------------------------------------------------------------------
(* Gmail. *)

Arrive(m) ==
    /\ m \notin arrived
    /\ \A n \in Mail \ arrived : m <= n
    /\ history' = Append(history, m)
    /\ recv' = [n \in arrived \cup {m} |-> IF n = m THEN clock ELSE recv[n]]
    /\ \E watched \in BOOLEAN : match' = IF watched THEN match \cup {m} ELSE match
    /\ UNCHANGED <<clock, faults, floor, gone, cursor, last, recovery, messages, check>>

\* The user applies a selected label to a message that was not admitted.
ApplyLabel(m) ==
    /\ "label" \in Events
    /\ m \in arrived \ (match \cup gone)
    /\ match' = match \cup {m}
    /\ history' = Append(history, m)
    /\ UNCHANGED <<clock, faults, floor, recv, gone, cursor, last, recovery, messages, check>>

Vanish(m) ==
    /\ "vanish" \in Events
    /\ m \in arrived \ gone
    /\ gone' = gone \cup {m}
    /\ UNCHANGED <<clock, faults, history, floor, recv, match, cursor, last, recovery,
                   messages, check>>

ExpireHistory ==
    /\ "expire" \in Events
    /\ floor < Len(history)
    /\ floor' = Len(history)
    /\ UNCHANGED <<clock, faults, history, recv, match, gone, cursor, last, recovery,
                   messages, check>>

Tick ==
    /\ clock < MaxClock
    /\ pc # "idle" => clock < polled + CheckTicks
    /\ clock' = clock + 1
    /\ UNCHANGED <<faults, mailbox, cursor, last, recovery, messages, check>>

\* The distinct ids of the history records after a position, in order of their
\* first record.
Distinct(s) == FoldLeft(LAMBDA ids, m : IF Contains(ids, m) THEN ids ELSE Append(ids, m),
                        <<>>, s)

Records(start) ==
    Distinct(SelectSeq(SubSeq(history, start + 1, Len(history)), LAMBDA m : m \notin gone))

\* messages.list over the recovery window, newest first, after a page token.
Between(after, before) ==
    {m \in arrived \ gone : /\ recv[m] > after * TicksPerSecond
                            /\ recv[m] < before * TicksPerSecond}

SearchBelow(token, after, before) ==
    Reverse(SetToSortSeq({m \in Between(after, before) : m < token}, <))

-----------------------------------------------------------------------------
(* _history_changes: the ids after the saved prefix and the cursor that     *)
(* follows them.                                                            *)

Replayed(c) ==
    LET reached == Len(c.prefix) + BatchLimit + 1
    IN  SubSeq(Records(c.start), 1, IF reached < Len(Records(c.start))
                                    THEN reached ELSE Len(Records(c.start)))

StaleCursor(c) ==
    \/ c.start < floor
    \/ Len(Replayed(c)) > ReplayBound
    \/ ~IsPrefix(c.prefix, Replayed(c))

ChangedIds(c) ==
    LET rest == SubSeq(Replayed(c), Len(c.prefix) + 1, Len(Replayed(c)))
    IN  IF Len(rest) > BatchLimit THEN SubSeq(rest, 1, BatchLimit) ELSE rest

Drained(c) == Len(Replayed(c)) <= Len(c.prefix) + BatchLimit

\* Mutant: an undrained batch is followed by the newest cursor.
CursorAfter_newest(c) == [start |-> Len(history), prefix |-> <<>>]

CursorAfter(c) ==
    IF Drained(c) THEN [start |-> Len(history), prefix |-> <<>>]
                  ELSE [start |-> c.start, prefix |-> c.prefix \o ChangedIds(c)]

\* _capture_ids also looks again at every replayed id outside the batch: a
\* later label event for it is seen in no other way.
Candidates(c) == ChangedIds(c) \o SelectSeq(Replayed(c), LAMBDA m : ~Contains(ChangedIds(c), m))

-----------------------------------------------------------------------------
(* Store operations. *)

has_seen_message(m) == m \in stored \cup suppressed

\* Mutant: age alone deletes a message whose removal is pending.
purge_ignores_removals(now) ==
    /\ stored' = {m \in stored : recv[m] >= now - Retention}
    /\ suppressed' = {m \in suppressed : recovery.open \/ recv[m] + MaxRetention >= now}
    /\ UNCHANGED <<held, deleted>>

\* Mutant: a suppression expires while a recovery still works with its
\* older cutoff.
purge_forgets_recovery(now) ==
    /\ stored' = {m \in stored : recv[m] >= now - Retention \/ m \in held}
    /\ suppressed' = {m \in suppressed : recv[m] + MaxRetention >= now}
    /\ UNCHANGED <<held, deleted>>

purge(now) ==
    /\ stored' = {m \in stored : recv[m] >= now - Retention \/ m \in held}
    /\ suppressed' = {m \in suppressed : recovery.open \/ recv[m] + MaxRetention >= now}
    /\ UNCHANGED <<held, deleted>>

\* Admission, the retention rule and add_message, one transaction.
Capture(m, cutoff) ==
    /\ stored' = IF ~has_seen_message(m) /\ m \in match \ gone /\ recv[m] >= cutoff
                 THEN stored \cup {m} ELSE stored
    /\ UNCHANGED <<held, suppressed, deleted>>

ResetPage(r) == [r EXCEPT !.token = 0, !.page = <<>>, !.loaded = FALSE]

set_state(c) ==
    /\ cursor' = c
    /\ last' = clock

-----------------------------------------------------------------------------
(* The check: an incremental poll. *)

StartPoll ==
    /\ pc = "idle"
    /\ ~recovery.open
    /\ ~StaleCursor(cursor)
    /\ pc' = "capture"
    /\ batch' = Candidates(cursor)
    /\ next' = CursorAfter(cursor)
    /\ polled' = clock
    /\ UNCHANGED <<clock, faults, mailbox, cursor, last, recovery, messages>>

CaptureOne ==
    /\ pc = "capture"
    /\ batch # <<>>
    /\ IF Head(batch) \in held      \* source_start refuses a removal in progress
       THEN UNCHANGED messages
       ELSE Capture(Head(batch), polled - Retention)
    /\ batch' = Tail(batch)
    /\ UNCHANGED <<clock, faults, mailbox, cursor, last, recovery, pc, next, polled>>

Commit ==
    /\ pc = "capture"
    /\ batch = <<>>
    /\ set_state(next)
    /\ pc' = "finish"
    /\ UNCHANGED <<clock, faults, mailbox, recovery, messages, batch, next, polled>>

FinishCheck ==
    /\ pc = "finish"
    /\ purge(polled)
    /\ Ended
    /\ UNCHANGED <<clock, faults, mailbox, cursor, last, recovery>>

-----------------------------------------------------------------------------
(* The check: durable recovery from a stale cursor. *)

\* The replacement cursor is read first ...
StartStale ==
    /\ pc = "idle"
    /\ ~recovery.open
    /\ StaleCursor(cursor)
    /\ pc' = "sampled"
    /\ next' = [start |-> Len(history), prefix |-> <<>>]
    /\ polled' = clock
    /\ UNCHANGED <<clock, faults, mailbox, cursor, last, recovery, messages, batch>>

\* ... and the time afterwards, so that what arrives in between is in both.
RecoverSince == IF last - Slack > clock - Retention THEN last - Slack ELSE clock - Retention

Floor(t) == t \div TicksPerSecond
Ceil(t) == (t + TicksPerSecond - 1) \div TicksPerSecond

\* Mutant: both bounds are rounded inward.
Window_inward(since, now) == [after |-> Ceil(since), before |-> Floor(now)]

Window(since, now) == [after |-> Ceil(since) - 1, before |-> Floor(now) + 1]

CreateRecovery ==
    /\ pc = "sampled"
    /\ recovery' = [open |-> TRUE,
                    window |-> Window(RecoverSince, clock),
                    cutoff |-> clock - Retention,
                    replacement |-> next,
                    created |-> clock,
                    token |-> 0, page |-> <<>>, loaded |-> FALSE, waiting |-> FALSE]
    /\ pc' = "recover"
    /\ next' = NoCursor
    /\ polled' = clock
    /\ UNCHANGED <<clock, faults, mailbox, cursor, last, messages, batch>>

\* A later check finds the row.  A changed folder scope restarts its paging;
\* before next_retry_at nothing else is done.
ResumeRecovery ==
    /\ pc = "idle"
    /\ recovery.open
    /\ \E rescoped \in BOOLEAN : recovery' = IF rescoped THEN ResetPage(recovery) ELSE recovery
    /\ pc' = IF recovery.waiting THEN "finish" ELSE "recover"
    /\ polled' = clock
    /\ UNCHANGED <<clock, faults, mailbox, cursor, last, messages, batch, next>>

\* The largest id stands for "no token": the search starts at the newest.
SearchFrom(r) ==
    SearchBelow(IF r.token = 0 THEN Len(history) + 1 ELSE r.token, r.window.after, r.window.before)

\* Mutant: the last page is taken for every page.
LoadPage_final(r) ==
    LET ids == SearchFrom(r)
        page == SubSeq(ids, 1, IF Len(ids) < PageLimit THEN Len(ids) ELSE PageLimit)
    IN  [r EXCEPT !.loaded = TRUE, !.page = page, !.waiting = FALSE, !.token = 0]

LoadPage(r) ==
    LET ids == SearchFrom(r)
        page == SubSeq(ids, 1, IF Len(ids) < PageLimit THEN Len(ids) ELSE PageLimit)
    IN  [r EXCEPT !.loaded = TRUE, !.page = page, !.waiting = FALSE,
                  !.token = IF Len(ids) > PageLimit THEN Last(page) ELSE 0]

RecoverPage ==
    /\ pc = "recover"
    /\ ~recovery.loaded
    /\ recovery' = LoadPage(recovery)
    /\ UNCHANGED <<clock, faults, mailbox, cursor, last, messages, check>>

\* Seen, gone, unadmitted, too old or inserted: the index moves in the same
\* transaction.
RecoverCandidate ==
    /\ pc = "recover"
    /\ recovery.loaded
    /\ recovery.page # <<>>
    /\ Capture(Head(recovery.page), recovery.cutoff)
    /\ recovery' = [recovery EXCEPT !.page = Tail(@), !.waiting = FALSE]
    /\ UNCHANGED <<clock, faults, mailbox, cursor, last, check>>

FinishPage ==
    /\ pc = "recover"
    /\ recovery.loaded
    /\ recovery.page = <<>>
    /\ recovery.token # 0
    /\ recovery' = [recovery EXCEPT !.loaded = FALSE]
    /\ UNCHANGED <<clock, faults, mailbox, cursor, last, messages, check>>

CompleteRecovery ==
    /\ pc = "recover"
    /\ recovery.loaded
    /\ recovery.page = <<>>
    /\ recovery.token = 0
    /\ cursor' = recovery.replacement
    /\ last' = recovery.created
    /\ recovery' = NoRecovery
    /\ pc' = "finish"
    /\ UNCHANGED <<clock, faults, mailbox, messages, batch, next, polled>>

\* The page or the next candidate's metadata has to come from Gmail.
NeedsProvider ==
    \/ ~recovery.loaded
    \/ recovery.page # <<>> /\ ~has_seen_message(Head(recovery.page))

\* The provider fails: the row waits for next_retry_at.
RecoveryBackoff ==
    /\ pc = "recover"
    /\ NeedsProvider
    /\ faults < MaxFaults
    /\ faults' = faults + 1
    /\ recovery' = [recovery EXCEPT !.waiting = TRUE]
    /\ pc' = "finish"
    /\ UNCHANGED <<clock, mailbox, cursor, last, messages, batch, next, polled>>

\* Gmail rejects the page token: paging restarts in the same window.
TokenInvalid ==
    /\ pc = "recover"
    /\ ~recovery.loaded
    /\ recovery.token # 0
    /\ faults < MaxFaults
    /\ faults' = faults + 1
    /\ recovery' = [ResetPage(recovery) EXCEPT !.waiting = TRUE]
    /\ pc' = "finish"
    /\ UNCHANGED <<clock, mailbox, cursor, last, messages, batch, next, polled>>

\* 200 candidates or 30 seconds: the rest is left to a later check.
RecoveryBudget ==
    /\ pc = "recover"
    /\ faults < MaxFaults
    /\ faults' = faults + 1
    /\ pc' = "finish"
    /\ UNCHANGED <<clock, mailbox, cursor, last, recovery, messages, batch, next, polled>>

\* next_retry_at has passed.
RetryDue ==
    /\ recovery.open
    /\ recovery.waiting
    /\ recovery' = [recovery EXCEPT !.waiting = FALSE]
    /\ UNCHANGED <<clock, faults, mailbox, cursor, last, messages, check>>

\* A provider error that propagates out of the check, or a crash.
Abort ==
    /\ pc # "idle"
    /\ faults < MaxFaults
    /\ faults' = faults + 1
    /\ Ended
    /\ UNCHANGED <<clock, mailbox, cursor, last, recovery, messages>>

-----------------------------------------------------------------------------
(* Other operations under the operation lock. *)

\* inbox.delete and inbox.clear accept a removal ...
AcceptRemoval(m) ==
    /\ pc = "idle"
    /\ m \in stored \ held
    /\ held' = held \cup {m}
    /\ UNCHANGED <<clock, faults, mailbox, cursor, last, recovery, stored, suppressed,
                   deleted, check>>

\* ... and complete it, at once or when its source lock is free.
\* Mutant: the row is deleted and no suppression is written.
ResumeRemoval_unsuppressed(m) ==
    /\ pc = "idle"
    /\ m \in held
    /\ held' = held \ {m}
    /\ stored' = stored \ {m}
    /\ deleted' = deleted \cup {m}
    /\ UNCHANGED <<clock, faults, mailbox, cursor, last, recovery, suppressed, check>>

ResumeRemoval(m) ==
    /\ pc = "idle"
    /\ m \in held
    /\ held' = held \ {m}
    /\ stored' = stored \ {m}
    /\ suppressed' = suppressed \cup {m}
    /\ deleted' = deleted \cup {m}
    /\ UNCHANGED <<clock, faults, mailbox, cursor, last, recovery, check>>

\* The purge of settings.update and of notifications.pending.
IdlePurge ==
    /\ pc = "idle"
    /\ purge(clock)
    /\ UNCHANGED <<clock, faults, mailbox, cursor, last, recovery, check>>

-----------------------------------------------------------------------------
CheckStep ==
    \/ StartPoll \/ CaptureOne \/ Commit \/ FinishCheck
    \/ StartStale \/ CreateRecovery \/ ResumeRecovery
    \/ RecoverPage \/ RecoverCandidate \/ FinishPage \/ CompleteRecovery

Disturbance ==
    \/ RecoveryBackoff \/ TokenInvalid \/ RecoveryBudget \/ Abort \/ ExpireHistory \/ Tick
    \/ IdlePurge

MessageEvent(m) ==
    \/ Arrive(m) \/ ApplyLabel(m) \/ Vanish(m)
    \/ AcceptRemoval(m) \/ ResumeRemoval(m)

Next == CheckStep \/ RetryDue \/ Disturbance \/ \E m \in Mail : MessageEvent(m)

\* The scheduler starts checks for ever and a started check goes on; a retry
\* time passes.  Everything else may or may not happen.
Fairness == WF_vars(CheckStep) /\ WF_vars(RetryDue)

Spec == Init /\ [][Next]_vars /\ Fairness

-----------------------------------------------------------------------------
\* Every variable has the shape its table or provider gives it.
TypeOK ==
    /\ clock \in 0..MaxClock /\ faults \in 0..MaxFaults
    /\ history \in Seq(Mail) /\ floor \in 0..Len(history)
    /\ arrived \subseteq Mail /\ \A m \in arrived : recv[m] \in 0..clock
    /\ match \subseteq arrived /\ gone \subseteq arrived
    /\ cursor.start \in 0..Len(history) /\ cursor.prefix \in Seq(Mail)
    /\ last \in 0..clock
    /\ stored \cup suppressed \cup deleted \subseteq arrived /\ held \subseteq stored
    /\ pc \in {"idle", "capture", "finish", "sampled", "recover"}
    /\ batch \in Seq(Mail)
    /\ pc = "recover" => recovery.open

\* A retained message the watcher must have and does not have yet.
Wanted(m) ==
    /\ m \in match \ (gone \cup deleted)
    /\ recv[m] >= clock - Retention
    /\ ~has_seen_message(m)

\* A saved cursor never passes a message that was not captured: every wanted
\* message still has a history record after the saved position.
NoneSkipped ==
    \A m \in arrived : Wanted(m) =>
        \E i \in (cursor.start + 1)..Len(history) : history[i] = m

\* A locally deleted message never comes back, from the history, from a late
\* label event or from a recovery that runs with an older cutoff.
DeletedStaysDeleted == deleted \cap stored = {}

\* Why deletion lasts.  A deleted message is suppressed, or so old that no
\* capture in progress and none still to come accepts it: not a running poll,
\* not the frozen cutoff of an open recovery, not the next check.
Forgettable(m) ==
    /\ recv[m] < clock - Retention
    /\ pc = "capture" => recv[m] < polled - Retention
    /\ recovery.open => recv[m] < recovery.cutoff

\* The inductive invariant of local deletion: every deleted message is still
\* suppressed, or too old for every capture of service.py that may see it.
DeletionInv ==
    /\ clock \in Nat /\ polled \in Nat /\ polled <= clock
    /\ \A m \in arrived : recv[m] \in Nat
    /\ match \subseteq arrived
    /\ stored \cup held \cup deleted \subseteq arrived
    /\ recovery.open \in BOOLEAN /\ (pc = "recover" => recovery.open)
    /\ recovery.open => {"open", "cutoff"} \subseteq DOMAIN recovery /\ recovery.cutoff \in Int
    /\ DeletedStaysDeleted
    /\ \A m \in deleted : m \in suppressed \/ Forgettable(m)

\* Every message that should be captured is captured, vanishes at Gmail or
\* outlives the retention.
EventuallyCaptured == \A m \in Mail : (m \in arrived /\ Wanted(m)) ~> ~(m \in arrived /\ Wanted(m))
=============================================================================
