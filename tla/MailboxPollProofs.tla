------------------------- MODULE MailboxPollProofs --------------------------
(***************************************************************************)
(* A locally deleted message never returns, for every set of messages,      *)
(* batch and page size, retention no longer than MaxRetention, and any      *)
(* number of crashes, errors and expirations.                               *)
(***************************************************************************)
EXTENDS MailboxPoll, TLAPS

\* The tables are empty at the start.
LEMMA InitDeletion == Init => DeletionInv
BY DEF Init, DeletionInv, DeletedStaysDeleted, NoRecovery, arrived

\* A purge drops a suppression only when the message is too old for every
\* capture still to come and no recovery with an older cutoff is open.
LEMMA PurgeKeeps ==
    ASSUME NEW now \in Nat, now <= clock,
           DeletionInv, purge(now), pc' = "idle",
           UNCHANGED <<clock, mailbox, recovery>>,
           polled' \in Nat, polled' <= clock
    PROVE  DeletionInv'
<1> USE PollAssumption
<1>1. \A m \in deleted' : m \in suppressed' \/ Forgettable(m)'
  <2> SUFFICES ASSUME NEW m \in deleted, m \notin suppressed'
               PROVE  Forgettable(m)'
    BY DEF purge
  <2>1. recv[m] \in Nat /\ clock \in Nat
    BY DEF DeletionInv, arrived
  <2>2. CASE m \in suppressed
    <3>1. ~recovery.open /\ ~(recv[m] + MaxRetention >= now)
      BY <2>2 DEF purge
    <3> QED  BY <3>1, <2>1 DEF Forgettable, mailbox
  <2>3. CASE m \notin suppressed
    <3>1. Forgettable(m)
      BY <2>3 DEF DeletionInv
    <3> QED  BY <3>1 DEF Forgettable, mailbox
  <2> QED  BY <2>2, <2>3
<1> QED  BY <1>1 DEF DeletionInv, DeletedStaysDeleted, purge, arrived, mailbox

\* A capture stores no deleted message when its cutoff is one that the
\* invariant speaks of.
LEMMA CaptureKeeps ==
    ASSUME NEW m, NEW cutoff \in Int, DeletionInv, Capture(m, cutoff),
           \A n \in deleted : n \in suppressed \/ recv[n] < cutoff
    PROVE  /\ stored' \subseteq arrived
           /\ deleted' \cap stored' = {}
<1>1. m \in stored' \ stored => m \in arrived /\ m \notin deleted
  <2> SUFFICES ASSUME m \in stored', m \notin stored
               PROVE  m \in arrived /\ m \notin deleted
    OBVIOUS
  <2>1. m \notin suppressed /\ m \in match /\ recv[m] >= cutoff
    BY DEF Capture, has_seen_message
  <2>2. m \in arrived /\ recv[m] \in Nat
    BY <2>1 DEF DeletionInv
  <2> QED  BY <2>1, <2>2
<1>2. stored' \subseteq stored \cup {m} /\ deleted' = deleted
  BY DEF Capture
<1> QED  BY <1>1, <1>2 DEF DeletionInv, DeletedStaysDeleted

\* Paging, backoff and retry leave the frozen cutoff of the recovery alone.
RowFrozen ==
    /\ recovery'.open = recovery.open
    /\ recovery'.cutoff = recovery.cutoff
    /\ {"open", "cutoff"} \subseteq DOMAIN recovery'

\* Such a step keeps the invariant.
LEMMA RowKeeps ==
    ASSUME DeletionInv, recovery.open, RowFrozen,
           UNCHANGED <<clock, mailbox, messages>>,
           pc' = "capture" => pc = "capture" /\ polled' = polled,
           polled' \in Nat, polled' <= clock
    PROVE  DeletionInv'
BY DEF RowFrozen, DeletionInv, DeletedStaysDeleted, Forgettable, arrived, mailbox, messages

-----------------------------------------------------------------------------
\* Every step keeps the invariant.
LEMMA NextDeletion == DeletionInv /\ [Next]_vars => DeletionInv'
<1> USE PollAssumption
<1> SUFFICES ASSUME DeletionInv, [Next]_vars PROVE DeletionInv'
  OBVIOUS
<1>1. ASSUME NEW x \in Mail, Arrive(x) PROVE DeletionInv'
  <2>1. arrived' = arrived \cup {x} /\ \A n \in arrived : recv'[n] = recv[n]
    BY <1>1 DEF Arrive, arrived
  <2>2. recv'[x] = clock /\ match' \subseteq match \cup {x}
    BY <1>1 DEF Arrive, arrived
  <2>3. \A m \in deleted : Forgettable(m) => Forgettable(m)'
    BY <1>1, <2>1 DEF Arrive, Forgettable, DeletionInv, check
  <2> QED  BY <1>1, <2>1, <2>2, <2>3 DEF Arrive, DeletionInv, DeletedStaysDeleted, messages, check
<1>2. ASSUME NEW x \in Mail, ApplyLabel(x) PROVE DeletionInv'
  BY <1>2 DEF ApplyLabel, DeletionInv, DeletedStaysDeleted, Forgettable, arrived, messages, check
<1>3. ASSUME NEW x \in Mail, Vanish(x) PROVE DeletionInv'
  BY <1>3 DEF Vanish, DeletionInv, DeletedStaysDeleted, Forgettable, arrived, messages, check
<1>4. ASSUME NEW x \in Mail, AcceptRemoval(x) PROVE DeletionInv'
  BY <1>4 DEF AcceptRemoval, DeletionInv, DeletedStaysDeleted, Forgettable, arrived, mailbox, check
<1>5. ASSUME NEW x \in Mail, ResumeRemoval(x) PROVE DeletionInv'
  BY <1>5 DEF ResumeRemoval, DeletionInv, DeletedStaysDeleted, Forgettable, arrived, mailbox, check
<1>6. CASE Tick
  BY <1>6 DEF Tick, DeletionInv, DeletedStaysDeleted, Forgettable, arrived, mailbox, messages, check
<1>7. CASE ExpireHistory
  BY <1>7 DEF ExpireHistory, DeletionInv, DeletedStaysDeleted, Forgettable, arrived, messages, check
<1>8. CASE IdlePurge
  BY <1>8, PurgeKeeps DEF IdlePurge, check, DeletionInv
<1>9. CASE FinishCheck
  BY <1>9, PurgeKeeps DEF FinishCheck, Ended, DeletionInv
<1>10. CASE StartPoll
  BY <1>10 DEF StartPoll, DeletionInv, DeletedStaysDeleted, Forgettable, arrived, mailbox, messages
<1>11. CASE CaptureOne
  <2>1. CASE Head(batch) \in held
    BY <1>11, <2>1 DEF CaptureOne, DeletionInv, DeletedStaysDeleted, Forgettable, arrived,
                       mailbox, messages
  <2>2. CASE Head(batch) \notin held
    <3>1. Capture(Head(batch), polled - Retention) /\ polled - Retention \in Int
      BY <1>11, <2>2 DEF CaptureOne, DeletionInv
    <3>2. \A n \in deleted : n \in suppressed \/ recv[n] < polled - Retention
      BY <1>11 DEF CaptureOne, DeletionInv, Forgettable
    <3>3. stored' \subseteq arrived /\ deleted' \cap stored' = {}
      BY <3>1, <3>2, CaptureKeeps
    <3> QED  BY <1>11, <3>1, <3>3 DEF CaptureOne, Capture, DeletionInv, DeletedStaysDeleted,
                                      Forgettable, arrived, mailbox
  <2> QED  BY <2>1, <2>2
<1>12. CASE Commit
  BY <1>12 DEF Commit, DeletionInv, DeletedStaysDeleted, Forgettable, arrived, mailbox, messages
<1>13. CASE StartStale
  BY <1>13 DEF StartStale, DeletionInv, DeletedStaysDeleted, Forgettable, arrived, mailbox, messages
<1>14. CASE CreateRecovery
  <2>1. recovery'.open = TRUE /\ recovery'.cutoff = clock - Retention
        /\ {"open", "cutoff"} \subseteq DOMAIN recovery'
    BY <1>14 DEF CreateRecovery
  <2> QED  BY <1>14, <2>1 DEF CreateRecovery, DeletionInv, DeletedStaysDeleted, Forgettable,
                              arrived, mailbox, messages
<1>15. CASE ResumeRecovery
  <2>1. RowFrozen
    BY <1>15 DEF ResumeRecovery, ResetPage, RowFrozen, DeletionInv
  <2> QED  BY <1>15, <2>1, RowKeeps DEF ResumeRecovery, DeletionInv
<1>16. CASE RecoverPage
  <2>1. RowFrozen
    BY <1>16 DEF RecoverPage, LoadPage, RowFrozen, DeletionInv
  <2> QED  BY <1>16, <2>1, RowKeeps DEF RecoverPage, DeletionInv, check
<1>17. CASE FinishPage
  <2>1. RowFrozen
    BY <1>17 DEF FinishPage, RowFrozen, DeletionInv
  <2> QED  BY <1>17, <2>1, RowKeeps DEF FinishPage, DeletionInv, check
<1>18. CASE RecoveryBackoff
  <2>1. RowFrozen
    BY <1>18 DEF RecoveryBackoff, RowFrozen, DeletionInv
  <2> QED  BY <1>18, <2>1, RowKeeps DEF RecoveryBackoff, DeletionInv
<1>19. CASE TokenInvalid
  <2>1. RowFrozen
    BY <1>19 DEF TokenInvalid, ResetPage, RowFrozen, DeletionInv
  <2> QED  BY <1>19, <2>1, RowKeeps DEF TokenInvalid, DeletionInv
<1>20. CASE RetryDue
  <2>1. RowFrozen
    BY <1>20 DEF RetryDue, RowFrozen, DeletionInv
  <2> QED  BY <1>20, <2>1, RowKeeps DEF RetryDue, DeletionInv, check
<1>21. CASE RecoverCandidate
  <2>1. RowFrozen
    BY <1>21 DEF RecoverCandidate, RowFrozen, DeletionInv
  <2>2. Capture(Head(recovery.page), recovery.cutoff) /\ recovery.cutoff \in Int
    BY <1>21 DEF RecoverCandidate, DeletionInv
  <2>3. \A n \in deleted : n \in suppressed \/ recv[n] < recovery.cutoff
    BY <1>21 DEF RecoverCandidate, DeletionInv, Forgettable
  <2>4. stored' \subseteq arrived /\ deleted' \cap stored' = {}
    BY <2>2, <2>3, CaptureKeeps
  <2> QED  BY <1>21, <2>1, <2>2, <2>4 DEF RecoverCandidate, RowFrozen, Capture, DeletionInv,
                DeletedStaysDeleted, Forgettable, arrived, mailbox, check
<1>22. CASE CompleteRecovery
  <2>1. recovery'.open = FALSE
    BY <1>22 DEF CompleteRecovery, NoRecovery
  <2> QED  BY <1>22, <2>1 DEF CompleteRecovery, DeletionInv, DeletedStaysDeleted, Forgettable,
                              arrived, mailbox, messages
<1>23. CASE RecoveryBudget
  BY <1>23 DEF RecoveryBudget, DeletionInv, DeletedStaysDeleted, Forgettable, arrived,
               mailbox, messages
<1>24. CASE Abort
  BY <1>24 DEF Abort, Ended, DeletionInv, DeletedStaysDeleted, Forgettable, arrived,
               mailbox, messages
<1>25. CASE UNCHANGED vars
  BY <1>25 DEF vars, DeletionInv, DeletedStaysDeleted, Forgettable, arrived, mailbox,
               messages, check
<1> HIDE DEF DeletionInv
<1>26. CASE CheckStep
  BY <1>26, <1>9, <1>10, <1>11, <1>12, <1>13, <1>14, <1>15, <1>16, <1>17, <1>21, <1>22
     DEF CheckStep
<1>27. CASE Disturbance
  BY <1>27, <1>6, <1>7, <1>8, <1>18, <1>19, <1>23, <1>24 DEF Disturbance
<1>28. ASSUME NEW x \in Mail, MessageEvent(x) PROVE DeletionInv'
  BY <1>28, <1>1, <1>2, <1>3, <1>4, <1>5 DEF MessageEvent
<1> QED  BY <1>20, <1>25, <1>26, <1>27, <1>28 DEF Next

-----------------------------------------------------------------------------
\* The argument above holds in every reachable state.
THEOREM DeletionInvariant == Spec => []DeletionInv
BY InitDeletion, NextDeletion, PTL DEF Spec

\* inbox.delete and inbox.clear are final: no poll, late label event or
\* recovery stores a deleted message again.
THEOREM DeletionIsFinal == Spec => []DeletedStaysDeleted
<1>1. DeletionInv => DeletedStaysDeleted
  BY DEF DeletionInv
<1> QED  BY <1>1, DeletionInvariant, PTL
=============================================================================
