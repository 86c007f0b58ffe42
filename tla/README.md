# EOM Email Watcher: verification project

The watcher is a local-first mail application. A Python engine keeps its state in one SQLite
database. A command line and a systemd timer run checks. A desktop host in Rust starts the same
engine as a child process, schedules checks and shows notices. This directory holds TLA+ models of
the engine and its host, the TLC runs that check them and TLAPS proofs of what matters most.

## The system and how its parts interact

| Part | Code | Modules |
| --- | --- | --- |
| Polling and capture, stale-cursor recovery, retention (Gmail) | `service.py`, `gmail.py`, `db.py` | `MailboxPoll` |
| Analysis, retry, pause, requeue, notices | `service.py`, `model.py`, `notifications.py`, `db.py` | `MessageLifecycle` |
| Host delivery batch | `delivery.rs`, `engine_api.py` | `MessageLifecycle` |
| Monthly outbound mail | `cli.py`, `outbound.py`, `db.py` | `OutboundSend` |
| Local deletion, operation lock | `removal.py`, `source_locks.py` | parts in `MailboxPoll`, `MessageLifecycle` |
| Connect job queue | `db.py`, `engine_api.py` | `ConnectQueue`, `ConnectLane` |
| Automation fires, scheduling and calendar writes | `db.py`, `service.py`, `scheduling.py` | planned |
| Followed threads, coverage, reconcile, bodies | `reconcile*.py`, `thread_*.py`, `body_state.py` | planned |
| IMAP, Microsoft 365, Sent folder | `imap.py`, `microsoft365.py` | planned |
| Labels, mailbox identity, accounts, configuration | `db.py`, `engine_api.py`, `config.py` | planned |
| Desktop scheduler, engine process, supervision | `scheduler.rs`, `engine.rs`, `delivery.rs`, `lib.rs` | planned |
| Deployment lease and cutover | `deployment.py`, `windows_cutover.py` | planned |
| Migrations, MIME and text, benchmarks, user interface | | not modelled |

One file lock, the operation lock, serialises the writers: a check, the host's delivery batch, local
deletion, retention changes and account changes. It is taken without waiting; whoever finds it busy
gives up and comes again later, and a crash frees it. Inside it every step is one SQLite transaction
or one call to a provider, the model gateway or the notification service, so a crash may fall between
any two. `analysis.requeue` and most settings changes do not take the lock and may happen at any
moment. `PROJECT.json` lists every component with what is modelled of it, and every hazard at the
line where it bites.

## Modules

### OutboundSend
State: the tables `outbound_sends` and `outbound_reservations`, the outbound lock, per process the
position in `_send_hours` and its request, Gmail's mails, and the operator's evidence. Actions follow
`_send_hours` (`Begin`, `Reserve`, `Send`, `Record`, `SendRaises`), `outbound-resolve` (`ResolveSent`,
`ResolveUnsent`), crashes, and Gmail accepting a request whose process has died (`OrphanAccepted`).
What the operator finds out (`FindMail`, `ProveUnsent`) is outside the code. It is assumed to be true
when they look: unsent means that no send is running and none is on its way. It may be old when
`outbound-resolve` acts on it.

### MailboxPoll
State: Gmail's history with its expiring floor, arrival times, late labels; `mailbox_state` (cursor,
`last_success_at`), the `gmail_recovery_state` row, `messages`, `suppressed_messages`, removals in
progress, and the running check. A cursor is a start id and a prefix already walked, as in the
continuation cursor of `gmail.py`. `StartPoll`, `CaptureOne`, `Commit` and `FinishCheck` are a check
with a valid cursor. `StartStale`, `CreateRecovery`, `RecoverPage`, `RecoverCandidate`, `FinishPage`
and `CompleteRecovery` are the recovery of `service.py`; `RecoveryBackoff`, `TokenInvalid`,
`RecoveryBudget` its failures. `AcceptRemoval`, `ResumeRemoval` and `IdlePurge` run while no check
does. Time has ticks below Gmail's one-second search grain, so rounding of the window is visible.

### MessageLifecycle
State: per message the analysis columns of `messages` (`status`, the pinned request,
`analysis_retryable`, `next_retry_at`, `last_error`, `fallback_notified_at`), the settings file, the
lock and its holder. `ListFallbacks` to `FinishCheck` are `_process_pending`, with one action per
transaction, provider call, model call, gateway acknowledgement and notice; the exception handlers
are `ContentUnavailable`, `ContentInvalid`, `ModelFails` followed by an optional fallback notice and
`RecordVerdict`. `HostList`, `HostShow`, `HostAcknowledge`, `HostDone` are `deliver_batch_until` with
the engine calls it makes. `Requeue` and `ChangeSettings` take no lock. Ids given to the gateway,
model calls and notices shown are kept as history.

A sending that fails (`SendAnalysisFails`, `SendFallbackFails`, the failing branch of `HostShow`) may
have shown its notice all the same: `notify-send` is given up after ten seconds, ntfy's answer is
lost, or the host's helper is stopped at the deadline, after the notice was accepted. The code takes
each of these as "nothing got through" and tries again, so the user sees the notice twice. The model
lets it happen (`ShowUnanswered`) and counts it as a fault, beside crashes and lost acknowledgements;
`NoticesBounded` says that nothing else repeats a notice. One notice stands for both channels: a
popup and a push of the same sending are not counted twice.

Messages are within the retention cutoff. `ListDeliveries` and `ListPending` leave out what
`logical_messages_within_cutoff` leaves out; such a message gets no analysis and no notice, and is
purged at the end of the check unless its thread is followed.

### ConnectQueue and ConnectLane
One lane of the Connect queue: the jobs for one provider instance. State: the job and dispatch rows
(`q`), the licence, the provider's manifest, what the provider knows of each job, the process that
holds the lane's file lock (`pc`, `run`) and the answer on its way to it. `Claim` takes the lock and
the head; the steps up to `Post` are `_submit_generic_connect_job`, `Query` to `TakeNotFound` the
GETs and polls, and the `NotFound...` actions, `Reset` and `Reclaim` the resubmission in
`_run_claimed_generic_connect_job`. `Create`, `Expire`, `Resume`, `Authorize`, `JoinDrifted` and the
removal actions take no lane lock. `open` is history: jobs with a POST that nothing has shown to be
refused. The provider library is external; the model assumes of it what the code relies on when it
takes JOB_NOT_FOUND as proof: a POST that is going to arrive has arrived when a later GET is
answered. A terminal row that outlives its source because an automation fire still needs it is
deleted with its source here; no property tells the two apart. `ConnectLane` is the lane as its users
see it, one job at a time offered or owned, and `LaneSpec` is the refinement of it.

## Runs

| Run | Instance | Shows |
| --- | --- | --- |
| `outbound_send` | two processes, two months, symmetric | no month is mailed twice, no mail is forgotten, a recorded send is real |
| `mailbox_recovery` | two messages, two ticks per second, 4 ticks, one fault | no retained message is skipped by polling or recovery; deletion lasts |
| `mailbox_backlog` | three messages, one id per batch, late labels, one fault | the same along continuation cursors |
| `mailbox_progress` | two messages, one id per batch and page, one fault | every message that should be captured is captured |
| `mailbox_backlog_gap` | three messages, one id per batch, expiry | a violation, see Findings |
| `message_lifecycle` | one message, two body limits, three request ids, one fault, two failures | pinned requests, same content on retry, acknowledged ids are over, notices bounded, none for removed mail, and the message is settled in spite of a crash; the inductive invariant with a fault |
| `message_progress` | two messages, queues of one, one failure | a failing message does not starve the other; the inductive invariant |
| `connect_queue` | two jobs, every way to take the lane, removals, two faults | the abstract lane is implemented, no blind second POST, no row ends while the provider works |
| `connect_licence` | two jobs in a lane of one, automation and user jobs, three licences, a manifest that changes or narrows, one fault | the provider never works on two jobs, although paused jobs leave the lane and return; accepted work stays accepted, what is over stays over |
| `connect_progress` | two jobs, the pump, one crash or lost answer | every job ends |
| `connect_join_truth`, `connect_sourceless` | two jobs | violations, see Findings |

Bounds. Two messages are enough for a batch boundary, a page boundary and one message overtaking
another; three make a continuation with a middle. Four ticks hold two seconds, the slack and the
retention edge. One fault is enough to hit every pair of steps; the notice bound is stated in terms
of the number of faults. Three request ids allow a requeue after a rejected request and one more
reservation. Two jobs are enough for one to overtake the other in a lane; the limit of 25 jobs is
scaled to one or two, so that a paused job returning to a full lane happens. `MaxFailures` and `MaxFaults` bound disturbances, never the checks.

Fairness. The scheduler starts a check and a delivery batch again after each one, busy or failed
(strong fairness of `StartCheck` and `HostList`, because they compete for the lock); a started
operation goes on until it ends or dies (weak fairness of `CheckStep` and `HostStep`); retry times
pass. `EventuallySettled` is
about finitely many failures: the code tries a failing message again for ever, and 25 of them that
are due at every check would keep the others out. In the queue the host pumps at the wake-ups it is given, the holder of the lane goes on, the
provider answers and finishes its work, and deadlines pass (weak fairness). `connect_progress`
leaves out a provider that forgets a job it accepted: the contract keeps such a job in the lane for
the operator to see. Users, Gmail and failures have no fairness. Deadlock is unchecked only in
`outbound_send` and the queue's runs, where all months may be sent and all jobs may be over.

## Findings

* `mailbox_backlog_gap`: a batch that leaves ids behind its continuation still moves
  `last_success_at` to now. If the history then expires, recovery starts after the waiting ids and
  they are never looked at; the label admission contract says that a stale cursor never skips ahead.
* `connect_join_truth`: an invocation that joins an active job after the provider changed its
  manifest fails the row whatever its dispatch state, without the lane lock. The contract says that
  only a terminal status of the provider ends work that may have been submitted. `LaneExclusive` is
  therefore stated for a manifest that has not changed in this way.
* `connect_sourceless`: a job whose attempt died before its POST and whose source is then removed is
  answered JOB_NOT_FOUND, cannot be reset, and nothing is written: it heads its lane for ever.

## Proofs

All theorems hold for every value of the constants that satisfies the module's `ASSUME`, so for any
number of messages, processes, faults and requeues. They say nothing about liveness.

* `OutboundSendProofs`: `IInv` is inductive; hence at most one mail per month. It adds to the types
  who holds the lock, what each point of `_send_hours` knows of its key, and that old evidence stays
  true because a key under evidence keeps its reservation.
* `MailboxPollProofs`: a locally deleted message is never stored again. "Deleted messages are not
  stored" is not inductive: a suppression may be purged. `DeletionInv` adds that a deleted message
  without suppression is too old for the running poll, for the cutoff frozen in an open recovery and
  for every later check. It needs `Retention <= MaxRetention`, which the configuration enforces.
* `MessageLifecycleProofs`: `IInv` is inductive. Its parts: what the lock holder knows of its message
  (`PcInv`) and of the rest of its queue (`QueueInv`; without it a queued row could have been paused
  and requeued), uniqueness and freshness of request ids (`IdInv`), agreement of past calls with the
  pinned request (`CallInv`), and that a notice shown is remembered, about to be, or paid for by a
  fault, which includes one that was shown although its sending raised (`NoticeInv`). From it follow types, `InFlightPinned`, `SameRequestSameContent`,
  `AckedIsOver` and `NoticesBounded`.

Only model-checked: the properties of `ConnectQueue`, with its refinement of `ConnectLane`,
`NoneSkipped` (it speaks of folds over sequences), `NoNoticeOfRemoved`, and the
liveness properties; temporal reasoning under fairness and induction over data are out of the
prover's reach.

## Not modelled

Dry runs write nothing. Wording, formatting, prompts and output validation are data. Migrations are
one-way SQL rewrites. The provider adapters are represented by what the engine sees of them. A check
is assumed to take no longer than the five minutes of slack (`CheckTicks`), which no code enforces.

## Plan

In this order, each with an MC module, runs, mutants and, where it pays, proofs:

1. `SchedulingRun`: extraction, proposal, review deadline, decision, calendar write begun before the
   call; no double booking, no write without a decision.
2. `AutomationFire`: admission at capture, approval bound to a revision, pause, resume, retry.
3. `Removal`: one-use keys, frozen targets, units held by busy source locks, resume; composed with
   `MailboxPoll` through the suppression.
4. `Reconcile`: frozen coverage progress resumed under captures, removals and follow changes.
5. `Scheduler` and `Delivery`: deadlines, manual checks, cancellation; the fairness assumed above
   as a theorem-like liveness run.
6. `ImapPoll`, `SentPoll`, `CalendarRound`: cursors and tokens committed with what they cover.
7. `MailboxIdentity`, `Labels`, `ConfigFile`, `Deployment`.
8. More proofs: `NoNoticeOfRemoved`, the safety invariants and the refinement of `ConnectQueue`,
   and those of 1 to 3.
