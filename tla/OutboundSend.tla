---------------------------- MODULE OutboundSend ----------------------------
(***************************************************************************)
(* The monthly outbound mail: `send-hours` runs of cli.py, the two SQLite  *)
(* tables of db.py that keep a billing month from being mailed twice, the  *)
(* operator who resolves an unfinished send, and Gmail, which may accept a *)
(* request long after the process that made it has died.                   *)
(*                                                                         *)
(* `--test-to` and `--dry-run` runs touch neither table and are left out.  *)
(***************************************************************************)
EXTENDS Naturals

CONSTANTS
    Proc,       \* processes that may run `send-hours`
    Key,        \* dedupe keys, one per billing month
    NoProc      \* the outbound operation lock is free

ASSUME NoProcAssumption == NoProc \notin Proc

VARIABLES
    sends,          \* table outbound_sends: the keys recorded as sent
    reservations,   \* table outbound_reservations: key -> status or "none"
    lock,           \* the outbound operation lock, freed when its holder dies
    pc,             \* where each process is in _send_hours
    key,            \* the dedupe key each process works on
    req,            \* the process's own request at Gmail
    orphan,         \* key -> requests at Gmail whose process is gone
    mails,          \* key -> mails Gmail has accepted
    evidence        \* key -> what the operator has established about it

store == <<sends, reservations>>
gmail == <<orphan, mails>>
vars == <<sends, reservations, lock, pc, key, req, orphan, mails, evidence>>

Init ==
    /\ sends = {}
    /\ reservations = [k \in Key |-> "none"]
    /\ lock = NoProc
    /\ pc = [p \in Proc |-> "idle"]
    /\ key \in [Proc -> Key]
    /\ req = [p \in Proc |-> "none"]
    /\ orphan = [k \in Key |-> 0]
    /\ mails = [k \in Key |-> 0]
    /\ evidence = [k \in Key |-> "none"]

-----------------------------------------------------------------------------
(* The Store methods, each one BEGIN IMMEDIATE transaction. *)

outbound_status(k) == IF k \in sends THEN "sent" ELSE reservations[k]

reserve_outbound(k) ==
    /\ reservations' = [reservations EXCEPT ![k] = "reserved"]
    /\ UNCHANGED sends

\* Mutant: a failed send is taken for an unsent one and its key released.
mark_outbound_ambiguous_releases(k) ==
    /\ reservations[k] = "reserved"
    /\ reservations' = [reservations EXCEPT ![k] = "none"]
    /\ UNCHANGED sends

\* A failed send is not known to be unsent: the reservation stays.
mark_outbound_ambiguous(k) ==
    /\ reservations[k] = "reserved"
    /\ reservations' = [reservations EXCEPT ![k] = "ambiguous"]
    /\ UNCHANGED sends

\* Mutant: the reservation is deleted and the send is not inserted.
record_outbound_deletes_only(k) ==
    /\ reservations[k] = "reserved"
    /\ reservations' = [reservations EXCEPT ![k] = "none"]
    /\ UNCHANGED sends

\* Mutant: the reservation is kept with a status of its own.
record_outbound_keeps_row(k) ==
    /\ reservations[k] = "reserved"
    /\ sends' = sends \cup {k}
    /\ reservations' = [reservations EXCEPT ![k] = "sent"]

record_outbound(k) ==
    /\ reservations[k] = "reserved"
    /\ sends' = sends \cup {k}
    /\ reservations' = [reservations EXCEPT ![k] = "none"]

reconcile_outbound_sent(k) ==
    /\ k \notin sends
    /\ reservations[k] # "none"
    /\ sends' = sends \cup {k}
    /\ reservations' = [reservations EXCEPT ![k] = "none"]

release_outbound(k) ==
    /\ k \notin sends
    /\ reservations[k] # "none"
    /\ reservations' = [reservations EXCEPT ![k] = "none"]
    /\ UNCHANGED sends

-----------------------------------------------------------------------------
(* _send_hours.  A process that leaves the `with lock` block goes idle.    *)
(* Its unanswered request, if any, is left behind at Gmail.                *)

InFlight(p) == IF req[p] = "inflight" THEN 1 ELSE 0

Leave(p) ==
    /\ pc' = [pc EXCEPT ![p] = "idle"]
    /\ lock' = NoProc
    /\ orphan' = [orphan EXCEPT ![key[p]] = @ + InFlight(p)]
    /\ req' = [req EXCEPT ![p] = "none"]

\* Mutant: the status is checked without the lock.
Begin_without_lock(p, k) ==
    /\ pc[p] = "idle"
    /\ outbound_status(k) = "none"
    /\ lock' = p
    /\ pc' = [pc EXCEPT ![p] = "checked"]
    /\ key' = [key EXCEPT ![p] = k]
    /\ UNCHANGED <<store, req, gmail, evidence>>

\* The status check: an already sent or unresolved key ends the run at once.
Begin(p, k) ==
    /\ pc[p] = "idle"
    /\ lock = NoProc
    /\ outbound_status(k) = "none"
    /\ lock' = p
    /\ pc' = [pc EXCEPT ![p] = "checked"]
    /\ key' = [key EXCEPT ![p] = k]
    /\ UNCHANGED <<store, req, gmail, evidence>>

Reserve(p) ==
    /\ pc[p] = "checked"
    /\ outbound_status(key[p]) = "none"
    /\ reserve_outbound(key[p])
    /\ pc' = [pc EXCEPT ![p] = "reserved"]
    /\ UNCHANGED <<lock, key, req, gmail, evidence>>

Send(p) ==
    /\ pc[p] = "reserved"
    /\ pc' = [pc EXCEPT ![p] = "waiting"]
    /\ req' = [req EXCEPT ![p] = "inflight"]
    /\ UNCHANGED <<store, lock, key, gmail, evidence>>

\* Mutant: the send is recorded before Gmail has answered.
Record_before_answer(p) ==
    /\ pc[p] = "waiting"
    /\ record_outbound(key[p])
    /\ Leave(p)
    /\ UNCHANGED <<key, mails, evidence>>

\* Gmail answered with a message id and the id is recorded.
Record(p) ==
    /\ pc[p] = "waiting"
    /\ req[p] = "accepted"
    /\ record_outbound(key[p])
    /\ Leave(p)
    /\ UNCHANGED <<key, mails, evidence>>

\* The send raised (refused, timed out, no answer) or its recording did.
SendRaises(p) ==
    /\ pc[p] = "waiting"
    /\ mark_outbound_ambiguous(key[p])
    /\ Leave(p)
    /\ UNCHANGED <<key, mails, evidence>>

\* The process dies, or fails before it reserves: nothing is written.
Crash(p) ==
    /\ pc[p] # "idle"
    /\ Leave(p)
    /\ UNCHANGED <<store, key, mails, evidence>>

-----------------------------------------------------------------------------
(* Gmail. *)

Accept(p) ==
    /\ req[p] = "inflight"
    /\ req' = [req EXCEPT ![p] = "accepted"]
    /\ mails' = [mails EXCEPT ![key[p]] = @ + 1]
    /\ UNCHANGED <<store, lock, pc, key, orphan, evidence>>

Refuse(p) ==
    /\ req[p] = "inflight"
    /\ req' = [req EXCEPT ![p] = "refused"]
    /\ UNCHANGED <<store, lock, pc, key, gmail, evidence>>

OrphanAccepted(k) ==
    /\ orphan[k] > 0
    /\ orphan' = [orphan EXCEPT ![k] = @ - 1]
    /\ mails' = [mails EXCEPT ![k] = @ + 1]
    /\ UNCHANGED <<store, lock, pc, key, req, evidence>>

OrphanLost(k) ==
    /\ orphan[k] > 0
    /\ orphan' = [orphan EXCEPT ![k] = @ - 1]
    /\ UNCHANGED <<store, lock, pc, key, req, mails, evidence>>

-----------------------------------------------------------------------------
(* The operator.  Looking takes no lock, so the evidence is gathered in    *)
(* one step and acted on in a later one.  What the operator sees is         *)
(* outside the code and assumed to be true at the moment they look.         *)

\* "Independently check Gmail Sent": the mail is there.
FindMail(k) ==
    /\ reservations[k] # "none"
    /\ mails[k] > 0
    /\ evidence' = [evidence EXCEPT ![k] = "sent"]
    /\ UNCHANGED <<store, lock, pc, key, req, gmail>>

\* "Proving no message was accepted": no send is running, nothing is on its
\* way to Gmail and Gmail has nothing.
ProveUnsent(k) ==
    /\ reservations[k] # "none"
    /\ lock = NoProc
    /\ orphan[k] = 0
    /\ mails[k] = 0
    /\ evidence' = [evidence EXCEPT ![k] = "unsent"]
    /\ UNCHANGED <<store, lock, pc, key, req, gmail>>

\* outbound-resolve: the whole command runs under the lock.
ResolveSent(k) ==
    /\ evidence[k] = "sent"
    /\ lock = NoProc
    /\ reconcile_outbound_sent(k)
    /\ evidence' = [evidence EXCEPT ![k] = "none"]
    /\ UNCHANGED <<lock, pc, key, req, gmail>>

ResolveUnsent(k) ==
    /\ evidence[k] = "unsent"
    /\ lock = NoProc
    /\ release_outbound(k)
    /\ evidence' = [evidence EXCEPT ![k] = "none"]
    /\ UNCHANGED <<lock, pc, key, req, gmail>>

-----------------------------------------------------------------------------
ProcessStep(p) ==
    \/ \E k \in Key : Begin(p, k)
    \/ Reserve(p)
    \/ Send(p)
    \/ Record(p)
    \/ SendRaises(p)
    \/ Crash(p)
    \/ Accept(p)
    \/ Refuse(p)

KeyStep(k) ==
    \/ OrphanAccepted(k)
    \/ OrphanLost(k)
    \/ FindMail(k)
    \/ ProveUnsent(k)
    \/ ResolveSent(k)
    \/ ResolveUnsent(k)

Next == (\E p \in Proc : ProcessStep(p)) \/ (\E k \in Key : KeyStep(k))

Spec == Init /\ [][Next]_vars

-----------------------------------------------------------------------------
\* The state has the shape the two tables and _send_hours give it.
TypeOK ==
    /\ sends \subseteq Key
    /\ reservations \in [Key -> {"none", "reserved", "ambiguous"}]
    /\ lock \in Proc \cup {NoProc}
    /\ pc \in [Proc -> {"idle", "checked", "reserved", "waiting"}]
    /\ key \in [Proc -> Key]
    /\ req \in [Proc -> {"none", "inflight", "accepted", "refused"}]
    /\ orphan \in [Key -> Nat]
    /\ mails \in [Key -> Nat]
    /\ evidence \in [Key -> {"none", "sent", "unsent"}]

\* "SQLite duplicate protection prevents more than one production send for a
\* billing month": whatever crashes, late acceptances and resolutions occur,
\* Gmail accepts at most one mail per dedupe key.
AtMostOneMail == \A k \in Key : mails[k] <= 1

\* A mail that Gmail accepted or may still accept is never forgotten: its key
\* is recorded as sent or still holds a reservation that blocks a new send.
NoForgottenMail ==
    \A k \in Key : mails[k] + orphan[k] > 0 => outbound_status(k) # "none"

\* A key recorded as sent, by record_outbound or by the operator, has a mail.
RecordedIsReal == \A k \in sends : mails[k] > 0

-----------------------------------------------------------------------------
\* What makes AtMostOneMail inductive: who holds the lock, what each point of
\* _send_hours knows of its key, and what the operator's evidence still implies.
Running(p) == pc[p] # "idle"

Untouched(k) == mails[k] = 0 /\ orphan[k] = 0

PcInv ==
    \A p \in Proc :
        /\ Running(p) <=> lock = p
        /\ pc[p] # "waiting" <=> req[p] = "none"
        /\ pc[p] = "checked" => outbound_status(key[p]) = "none"
        /\ pc[p] \in {"reserved", "waiting"} =>
              /\ key[p] \notin sends
              /\ reservations[key[p]] = "reserved"
        /\ Running(p) /\ req[p] # "accepted" => Untouched(key[p])
        /\ req[p] = "accepted" => mails[key[p]] = 1 /\ orphan[key[p]] = 0

KeyInv ==
    \A k \in Key :
        /\ mails[k] + orphan[k] <= 1
        /\ outbound_status(k) = "none" => Untouched(k)
        /\ k \in sends => reservations[k] = "none" /\ mails[k] = 1 /\ orphan[k] = 0
        /\ evidence[k] = "sent" => mails[k] = 1
        /\ evidence[k] = "unsent" =>
              /\ reservations[k] # "none"
              /\ Untouched(k)
              /\ \A p \in Proc : Running(p) => key[p] # k

\* The inductive invariant: types, what each point of _send_hours knows of its
\* key, and what the two tables know of every key's mail.
IInv == TypeOK /\ PcInv /\ KeyInv
=============================================================================
