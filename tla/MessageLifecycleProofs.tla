-------------------- MODULE MessageLifecycleProofs ---------------------
(***************************************************************************)
(* The invariants of MessageLifecycle for every set of messages, settings,  *)
(* batch size and number of faults, failures and requeues.  IInv is         *)
(* inductive; its parts are proved one by one.                              *)
(***************************************************************************)
EXTENDS MessageLifecycle, TLAPS

\* The store is empty and no one holds the lock.
LEMMA InitIInv == Init => IInv
<1> SUFFICES ASSUME Init PROVE IInv
  OBVIOUS
<1>1. TypeOK
  BY LifecycleAssumption
  DEF Init, TypeOK, Row, RowOK, MessageRow, NoRequest, None
<1>2. PcInv /\ QueueInv /\ IdInv /\ CallInv /\ NoticeInv
  BY LifecycleAssumption
  DEF Init, Row, NoRequest, None, PcInv, QueueInv, Waiting, IdInv, CallInv,
      SameRequestSameContent, NoticeInv, Loops, InFlight, Failing, CheckOfOne
<1> QED  BY <1>1, <1>2 DEF IInv

-----------------------------------------------------------------------------
(* Types. *)

\* Every store operation turns a row into a row.
LEMMA OperationsTyped ==
    ASSUME NEW r, RowOK(r)
    PROVE  /\ RowOK(record_failure(r))
           /\ RowOK(requeue_if_skipped(r))
           /\ RowOK(mark_skipped(r))
           /\ RowOK(mark_analyzed(r))
           /\ RowOK(mark_fallback_notified(r))
           /\ r.status = "analyzed" => RowOK(mark_delivery_complete(r))
           /\ r.status = "pending" => RowOK(requeue_analysis(r))
           /\ r.status = "pending" =>
                \A paused \in BOOLEAN : RowOK(record_analysis_failure(r, paused))
           /\ r.status = "pending" /\ nextId \in Nat /\ cfg.limit \in Nat =>
                RowOK(reserve_analysis_request(r))
           /\ RowOK([r EXCEPT !.due = TRUE])
BY DEF RowOK, MessageRow, NoRequest, record_failure, requeue_if_skipped, mark_skipped,
       mark_analyzed, mark_fallback_notified, mark_delivery_complete, requeue_analysis,
       record_analysis_failure, reserve_analysis_request

\* Writing a row keeps the table well typed.
LEMMA UpdateTyped ==
    ASSUME TypeOK, NEW m \in Message, NEW r, RowOK(r), Update(m, r)
    PROVE  row' \in [Message -> MessageRow] /\ \A n \in Message : RowOK(row'[n])
BY DEF TypeOK, Update, RowOK

\* Counting a notice keeps the counters well typed.
LEMMA ShowTyped ==
    ASSUME TypeOK, NEW m \in Message, NEW kind \in {"analysis", "fallback"}, Show(m, kind)
    PROVE  shown' \in [Message -> [analysis : Nat, fallback : Nat]]
BY DEF TypeOK, Show

\* A failed sending counts a fault for every notice it counts.
LEMMA UnansweredEffect ==
    ASSUME TypeOK, NEW m \in Message, NEW kind \in {"analysis", "fallback"},
           ShowUnanswered(m, kind)
    PROVE  /\ shown' \in [Message -> [analysis : Nat, fallback : Nat]] /\ faults' \in Nat
           /\ \/ UNCHANGED <<shown, faults>>
              \/ /\ faults' = faults + 1
                 /\ \A n \in Message : /\ shown'[n].analysis <= shown[n].analysis + 1
                                       /\ shown'[n].fallback <= shown[n].fallback + 1
                                       /\ n # m => shown'[n] = shown[n]
<1>1. CASE UNCHANGED <<shown, faults>>
  BY <1>1 DEF TypeOK
<1>2. CASE Show(m, kind) /\ faults' = faults + 1
  <2>1. shown' \in [Message -> [analysis : Nat, fallback : Nat]] /\ faults' \in Nat
    BY <1>2, ShowTyped DEF TypeOK
  <2>2. \A n \in Message : /\ shown'[n].analysis <= shown[n].analysis + 1
                           /\ shown'[n].fallback <= shown[n].fallback + 1
                           /\ n # m => shown'[n] = shown[n]
    BY <1>2 DEF TypeOK, Show
  <2> QED  BY <1>2, <2>1, <2>2
<1> QED  BY <1>1, <1>2 DEF ShowUnanswered

\* Every step keeps the types.
LEMMA NextTypeOK == IInv /\ [Next]_vars => TypeOK'
<1> SUFFICES ASSUME IInv, [Next]_vars PROVE TypeOK'
  OBVIOUS
<1> USE LifecycleAssumption DEF IInv, TypeOK, PcInv, Loops, InFlight, Failing, CheckOfOne,
       NextInQueue, Release, Fails, FailWith, holder, history, NoRequest, None
<1>1. CASE FetchContent \/ ContentInvalid \/ ModelAnswers \/ ModelFails \/ AcknowledgeResult
  BY <1>1 DEF FetchContent, ContentInvalid, ModelAnswers, ModelFails, AcknowledgeResult
<1>2. CASE LeaveToHost \/ AcknowledgeRejected \/ \E x \in Message : RetryFallback(x)
  BY <1>2 DEF LeaveToHost, AcknowledgeRejected, RetryFallback
<1>27. CASE SendAnalysisFails
  <2>1. shown' \in [Message -> [analysis : Nat, fallback : Nat]] /\ faults' \in Nat
    BY <1>27, UnansweredEffect DEF SendAnalysisFails
  <2> QED  BY <1>27, <2>1 DEF SendAnalysisFails
<1>28. CASE SendFallbackFails
  <2>1. shown' \in [Message -> [analysis : Nat, fallback : Nat]] /\ faults' \in Nat
    BY <1>28, UnansweredEffect DEF SendFallbackFails
  <2> QED  BY <1>28, <2>1 DEF SendFallbackFails
<1>3. CASE \E x \in Message : Deliver(x) \/ AcceptRemoval(x)
  BY <1>3 DEF Deliver, AcceptRemoval
<1>4. CASE HostList \/ ListFallbacks \/ ListDeliveries \/ ListPending
  BY <1>4 DEF HostList, ListFallbacks, ListDeliveries, ListPending, Oldest,
        notification_intents, pending_delivery, pending
<1>5. CASE StartCheck
  BY <1>5 DEF StartCheck
<1>6. CASE FinishCheck
  BY <1>6 DEF FinishCheck
<1>7. CASE ContentUnavailable
  <2>1. RowOK(mark_skipped(row[cur]))
    BY <1>7, OperationsTyped DEF ContentUnavailable
  <2>2. row' \in [Message -> MessageRow] /\ \A n \in Message : RowOK(row'[n])
    BY <1>7, <2>1, UpdateTyped DEF ContentUnavailable
  <2> QED  BY <1>7, <2>2 DEF ContentUnavailable
<1>8. CASE Persist
  BY <1>8, UpdateTyped, OperationsTyped DEF Persist
<1>9. CASE SettleUnnotified
  BY <1>9, UpdateTyped, OperationsTyped DEF SettleUnnotified
<1>10. CASE SendAnalysis
  BY <1>10, ShowTyped DEF SendAnalysis
<1>11. CASE MarkDelivered
  BY <1>11, UpdateTyped, OperationsTyped DEF MarkDelivered
<1>12. CASE SendFallback
  BY <1>12, ShowTyped DEF SendFallback
<1>13. CASE MarkFallback
  BY <1>13, UpdateTyped, OperationsTyped DEF MarkFallback
<1>14. CASE RecordVerdict
  <2>1. RowOK(row[cur]) /\ cur \in Message
    BY <1>14 DEF RecordVerdict
  <2>2. CASE verdict \in {"none", "delay"}
    BY <1>14, <2>1, <2>2, UpdateTyped, OperationsTyped DEF RecordVerdict
  <2>3. CASE verdict \notin {"none", "delay"}
    <3>1. row[cur].status = "pending" /\ (verdict # "retry") \in BOOLEAN
      BY <1>14, <2>3 DEF RecordVerdict
    <3>2. RowOK(record_analysis_failure(row[cur], verdict # "retry"))
      BY <2>1, <3>1, OperationsTyped
    <3>3. Update(cur, record_analysis_failure(row[cur], verdict # "retry"))
      BY <1>14, <2>3 DEF RecordVerdict
    <3> QED  BY <1>14, <2>1, <3>2, <3>3, UpdateTyped DEF RecordVerdict
  <2> QED  BY <2>2, <2>3
<1>15. CASE HostAcknowledge
  <2>1. RowOK(row[cur]) /\ cur \in Message
    BY <1>15 DEF HostAcknowledge
  <2>2. RowOK(acknowledge_notification(cur))
    BY <2>1, OperationsTyped DEF acknowledge_notification, FallbackDue
  <2> QED  BY <1>15, <2>1, <2>2, UpdateTyped DEF HostAcknowledge
<1>16. CASE HostDone
  BY <1>16 DEF HostDone
<1>17. CASE Abort
  BY <1>17 DEF Abort
<1>18. CASE ChangeSettings
  BY <1>18 DEF ChangeSettings
<1>19. ASSUME NEW x \in Message, Reserve(x) PROVE TypeOK'
  <2>1. RowOK(reserve_analysis_request(row[x]))
    BY <1>19, OperationsTyped DEF Reserve
  <2>2. row' \in [Message -> MessageRow] /\ \A n \in Message : RowOK(row'[n])
    BY <1>19, <2>1, UpdateTyped DEF Reserve
  <2>3. req' \in [id : Nat, limit : Nat]
    BY <1>19, <2>2 DEF Reserve, MessageRow
  <2> QED  BY <1>19, <2>2, <2>3 DEF Reserve
<1>20. ASSUME NEW x \in Message, Unverified(x) PROVE TypeOK'
  <2>1. row[x].status = "pending"
    BY <1>20 DEF Unverified, QueueInv, Waiting
  <2>2. RowOK(record_analysis_failure(row[x], TRUE))
    BY <2>1, OperationsTyped
  <2>3. row' \in [Message -> MessageRow] /\ \A n \in Message : RowOK(row'[n])
    BY <1>20, <2>2, UpdateTyped DEF Unverified
  <2> QED  BY <1>20, <2>3 DEF Unverified
<1>21. ASSUME NEW x \in Message, HostShow(x) PROVE TypeOK'
  <2>1. IntentKind(x) \in {"analysis", "fallback"}
    BY DEF IntentKind
  <2>2. shown' \in [Message -> [analysis : Nat, fallback : Nat]] /\ faults' \in Nat
    BY <1>21, <2>1, ShowTyped, UnansweredEffect DEF HostShow
  <2> QED  BY <1>21, <2>2 DEF HostShow
<1>22. ASSUME NEW x \in Message, Capture(x) PROVE TypeOK'
  <2>1. RowOK(Row("pending"))
    BY DEF RowOK, Row, MessageRow, NoRequest
  <2> QED  BY <1>22, <2>1, UpdateTyped, OperationsTyped DEF Capture
<1>23. ASSUME NEW x \in Message, Requeue(x) PROVE TypeOK'
  BY <1>23, UpdateTyped, OperationsTyped DEF Requeue
<1>24. ASSUME NEW x \in Message, CompleteRemoval(x) PROVE TypeOK'
  <2>1. RowOK(Row("removed"))
    BY DEF RowOK, Row, MessageRow, NoRequest
  <2> QED  BY <1>24, <2>1, UpdateTyped DEF CompleteRemoval
<1>25. ASSUME NEW x \in Message, RetryDue(x) PROVE TypeOK'
  BY <1>25, UpdateTyped, OperationsTyped DEF RetryDue
<1>26. CASE UNCHANGED vars
  BY <1>26 DEF vars
<1> QED
  BY <1>1, <1>2, <1>3, <1>4, <1>5, <1>6, <1>7, <1>8, <1>9, <1>10, <1>11, <1>12,
     <1>13, <1>14, <1>15, <1>16, <1>17, <1>18, <1>19, <1>20, <1>21, <1>22, <1>23, <1>24,
     <1>25, <1>26, <1>27, <1>28
  DEF Next, CheckStep, HostStep, Beside

-----------------------------------------------------------------------------
(* What the lock holder knows of its current message and of its queue. *)

\* No step of another actor moves the message in hand.
LEMMA NextPcInv == IInv /\ [Next]_vars => PcInv'
<1> SUFFICES ASSUME IInv, [Next]_vars PROVE PcInv'
  OBVIOUS
<1> USE LifecycleAssumption DEF IInv, TypeOK, RowOK, MessageRow, PcInv, QueueInv, Waiting,
       Loops, InFlight, Failing, CheckOfOne, Update, NextInQueue, Release, Fails, FailWith,
       holder, history, Row, NoRequest, None, record_failure, record_analysis_failure,
       requeue_analysis, mark_skipped, requeue_if_skipped, mark_analyzed,
       mark_delivery_complete, mark_fallback_notified, reserve_analysis_request,
       FallbackDue, Available
<1>1. CASE StartCheck \/ HostList \/ ListFallbacks \/ ListDeliveries \/ ListPending
  BY <1>1 DEF StartCheck, HostList, ListFallbacks, ListDeliveries, ListPending
<1>2. CASE FinishCheck \/ FetchContent \/ AcknowledgeResult \/ HostDone \/ Abort
  BY <1>2 DEF FinishCheck, FetchContent, AcknowledgeResult, HostDone, Abort
<1>3. CASE ChangeSettings \/ \E x \in Message : AcceptRemoval(x)
  BY <1>3 DEF ChangeSettings, AcceptRemoval
<1>4. CASE ContentUnavailable
  BY <1>4 DEF ContentUnavailable
<1>5. CASE ContentInvalid
  BY <1>5 DEF ContentInvalid
<1>6. CASE ModelAnswers
  BY <1>6 DEF ModelAnswers
<1>7. CASE ModelFails
  BY <1>7 DEF ModelFails
<1>8. CASE Persist
  BY <1>8 DEF Persist
<1>9. CASE SettleUnnotified
  BY <1>9 DEF SettleUnnotified
<1>10. CASE LeaveToHost
  BY <1>10 DEF LeaveToHost
<1>11. CASE SendAnalysis
  BY <1>11 DEF SendAnalysis
<1>12. CASE SendAnalysisFails
  BY <1>12 DEF SendAnalysisFails
<1>13. CASE MarkDelivered
  BY <1>13 DEF MarkDelivered
<1>14. CASE SendFallback
  BY <1>14 DEF SendFallback
<1>15. CASE SendFallbackFails
  BY <1>15 DEF SendFallbackFails
<1>16. CASE MarkFallback
  BY <1>16 DEF MarkFallback
<1>17. CASE RecordVerdict
  BY <1>17 DEF RecordVerdict
<1>18. CASE AcknowledgeRejected
  BY <1>18 DEF AcknowledgeRejected
<1>19. CASE HostAcknowledge
  BY <1>19 DEF HostAcknowledge
<1>20. ASSUME NEW x \in Message, RetryFallback(x) PROVE PcInv'
  BY <1>20 DEF RetryFallback
<1>21. ASSUME NEW x \in Message, Deliver(x) PROVE PcInv'
  BY <1>21 DEF Deliver
<1>22. ASSUME NEW x \in Message, Reserve(x) PROVE PcInv'
  <2>1. row'[x].req = req' /\ req'.id # 0
    BY <1>22 DEF Reserve, IdInv
  <2>2. row'[x].status = "pending" /\ ~row'[x].paused
    BY <1>22 DEF Reserve
  <2> QED  BY <1>22, <2>1, <2>2 DEF Reserve
<1>23. ASSUME NEW x \in Message, Unverified(x) PROVE PcInv'
  BY <1>23 DEF Unverified
<1>24. ASSUME NEW x \in Message, HostShow(x) PROVE PcInv'
  BY <1>24 DEF HostShow
<1>25. ASSUME NEW x \in Message, Capture(x) PROVE PcInv'
  BY <1>25 DEF Capture
<1>26. ASSUME NEW x \in Message, Requeue(x) PROVE PcInv'
  BY <1>26 DEF Requeue
<1>27. ASSUME NEW x \in Message, CompleteRemoval(x) PROVE PcInv'
  BY <1>27 DEF CompleteRemoval
<1>28. ASSUME NEW x \in Message, RetryDue(x) PROVE PcInv'
  BY <1>28 DEF RetryDue
<1>29. CASE UNCHANGED vars
  BY <1>29 DEF vars
<1> QED
  BY <1>1, <1>2, <1>3, <1>4, <1>5, <1>6, <1>7, <1>8, <1>9, <1>10, <1>11, <1>12,
     <1>13, <1>14, <1>15, <1>16, <1>17, <1>18, <1>19, <1>20, <1>21, <1>22, <1>23, <1>24,
     <1>25, <1>26, <1>27, <1>28, <1>29
  DEF Next, CheckStep, HostStep, Beside

\* Nor one that is still in the queue.
LEMMA NextQueueInv == IInv /\ [Next]_vars => QueueInv'
<1> SUFFICES ASSUME IInv, [Next]_vars PROVE QueueInv'
  OBVIOUS
<1> USE LifecycleAssumption DEF IInv, TypeOK, RowOK, MessageRow, PcInv, QueueInv, Waiting,
       Loops, InFlight, Failing, CheckOfOne, Update, NextInQueue, Release, Fails, FailWith,
       holder, history, Row, NoRequest, None, record_failure, record_analysis_failure,
       requeue_analysis, mark_skipped, requeue_if_skipped, mark_analyzed,
       mark_delivery_complete, mark_fallback_notified, reserve_analysis_request,
       FallbackDue, Available
<1>1. CASE StartCheck \/ FinishCheck \/ FetchContent \/ ContentInvalid \/ ModelAnswers
  BY <1>1 DEF StartCheck, FinishCheck, FetchContent, ContentInvalid, ModelAnswers
<1>2. CASE ModelFails \/ AcknowledgeResult \/ LeaveToHost \/ SendAnalysis
          \/ SendAnalysisFails
  BY <1>2 DEF ModelFails, AcknowledgeResult, LeaveToHost, SendAnalysis, SendAnalysisFails
<1>3. CASE SendFallback \/ SendFallbackFails \/ AcknowledgeRejected \/ HostDone \/ Abort
  BY <1>3 DEF SendFallback, SendFallbackFails, AcknowledgeRejected, HostDone, Abort
<1>4. CASE ChangeSettings
          \/ \E x \in Message : RetryFallback(x) \/ Deliver(x) \/ AcceptRemoval(x)
  BY <1>4 DEF ChangeSettings, RetryFallback, Deliver, AcceptRemoval
<1>5. CASE ListDeliveries
  BY <1>5 DEF ListDeliveries, Oldest, pending_delivery
<1>6. CASE ListPending
  BY <1>6 DEF ListPending, Oldest, pending
<1>7. CASE ListFallbacks
  BY <1>7 DEF ListFallbacks, Oldest, notification_intents
<1>8. CASE HostList
  BY <1>8 DEF HostList, Oldest, notification_intents
<1>9. CASE ContentUnavailable
  BY <1>9 DEF ContentUnavailable
<1>10. CASE Persist
  BY <1>10 DEF Persist
<1>11. CASE SettleUnnotified
  BY <1>11 DEF SettleUnnotified
<1>12. CASE MarkDelivered
  BY <1>12 DEF MarkDelivered
<1>13. CASE MarkFallback
  BY <1>13 DEF MarkFallback
<1>14. CASE RecordVerdict
  BY <1>14 DEF RecordVerdict
<1>15. CASE HostAcknowledge
  BY <1>15 DEF HostAcknowledge
<1>16. ASSUME NEW x \in Message, Reserve(x) PROVE QueueInv'
  BY <1>16 DEF Reserve
<1>17. ASSUME NEW x \in Message, Unverified(x) PROVE QueueInv'
  BY <1>17 DEF Unverified
<1>18. ASSUME NEW x \in Message, HostShow(x) PROVE QueueInv'
  BY <1>18 DEF HostShow
<1>19. ASSUME NEW x \in Message, Capture(x) PROVE QueueInv'
  BY <1>19 DEF Capture
<1>20. ASSUME NEW x \in Message, Requeue(x) PROVE QueueInv'
  BY <1>20 DEF Requeue
<1>21. ASSUME NEW x \in Message, CompleteRemoval(x) PROVE QueueInv'
  BY <1>21 DEF CompleteRemoval
<1>22. ASSUME NEW x \in Message, RetryDue(x) PROVE QueueInv'
  BY <1>22 DEF RetryDue
<1>23. CASE UNCHANGED vars
  BY <1>23 DEF vars
<1> QED
  BY <1>1, <1>2, <1>3, <1>4, <1>5, <1>6, <1>7, <1>8, <1>9, <1>10, <1>11, <1>12,
     <1>13, <1>14, <1>15, <1>16, <1>17, <1>18, <1>19, <1>20, <1>21, <1>22, <1>23
  DEF Next, CheckStep, HostStep, Beside

-----------------------------------------------------------------------------
(* Requests. *)


\* An acknowledged notice changes the status or the fallback mark and no more.
LEMMA AcknowledgeEffect ==
    ASSUME TypeOK, NEW m \in Message,
           Update(m, IF Available(m) THEN acknowledge_notification(m) ELSE row[m])
    PROVE  /\ \A n \in Message \ {m} : row'[n] = row[n]
           /\ row'[m].req = row[m].req /\ row'[m].paused = row[m].paused
           /\ \/ ~Available(m) \/ (row[m].status # "analyzed" /\ ~FallbackDue(m))
              \/ row[m].status = "analyzed" /\ row'[m].status = "summarized"
                 /\ row'[m].fellBack = row[m].fellBack
              \/ FallbackDue(m) /\ row'[m].status = "pending" /\ row'[m].fellBack
<1> DEFINE r == IF Available(m) THEN acknowledge_notification(m) ELSE row[m]
<1>1. row[m] \in MessageRow /\ row'[m] = r /\ \A n \in Message \ {m} : row'[n] = row[n]
  BY DEF TypeOK, Update
<1>2. CASE Available(m) /\ row[m].status = "analyzed"
  <2>1. row'[m] = mark_delivery_complete(row[m])
    BY <1>1, <1>2 DEF acknowledge_notification, FallbackDue
  <2>2. row'[m].req = row[m].req /\ row'[m].status = "summarized"
    BY <1>1, <2>1 DEF mark_delivery_complete, MessageRow
  <2>3. row'[m].paused = row[m].paused /\ row'[m].fellBack = row[m].fellBack
    BY <1>1, <2>1 DEF mark_delivery_complete, MessageRow
  <2> QED  BY <1>1, <1>2, <2>2, <2>3
<1>3. CASE Available(m) /\ row[m].status # "analyzed" /\ FallbackDue(m)
  <2>1. r = mark_fallback_notified(row[m])
    BY <1>3 DEF acknowledge_notification, FallbackDue
  <2> QED  BY <1>1, <1>3, <2>1 DEF mark_fallback_notified, MessageRow, FallbackDue
<1>4. CASE ~Available(m) \/ (row[m].status # "analyzed" /\ ~FallbackDue(m))
  <2>1. r = row[m]
    BY <1>4 DEF acknowledge_notification
  <2> QED  BY <1>1, <1>4, <2>1
<1> QED  BY <1>2, <1>3, <1>4

\* A capture makes a row pending that has no request and is not paused.
LEMMA CaptureEffect ==
    ASSUME TypeOK, NEW m \in Message, Capture(m)
    PROVE  /\ \A n \in Message \ {m} : row'[n] = row[n]
           /\ row'[m].status = "pending" /\ row'[m].req.id = 0 /\ ~row'[m].paused
           /\ \/ row[m].status = "absent"
              \/ row[m].status = "skipped" /\ row'[m].fellBack = row[m].fellBack
           /\ UNCHANGED <<pc, work, cur, req, calls, acked, nextId, shown, faults>>
           /\ pc = "capture"
<1>1. RowOK(row[m]) /\ row \in [Message -> MessageRow]
  BY DEF TypeOK
<1>2. /\ UNCHANGED <<pc, work, cur, req, calls, acked, nextId, shown, faults>>
      /\ pc = "capture"
  BY DEF Capture, holder, history
<1>3. CASE row[m].status = "absent" /\ Update(m, Row("pending"))
  <2>1. row'[m] = Row("pending") /\ \A n \in Message \ {m} : row'[n] = row[n]
    BY <1>1, <1>3 DEF Update
  <2> QED  BY <1>2, <1>3, <2>1 DEF Row, NoRequest
<1>4. CASE row[m].status = "skipped" /\ Update(m, requeue_if_skipped(row[m]))
  <2>1. row'[m] = requeue_if_skipped(row[m]) /\ \A n \in Message \ {m} : row'[n] = row[n]
    BY <1>1, <1>4 DEF Update
  <2>2. row[m].req.id = 0 /\ ~row[m].paused
    BY <1>1, <1>4 DEF RowOK, MessageRow
  <2>3. /\ row'[m].status = "pending" /\ row'[m].req = row[m].req
        /\ row'[m].paused = row[m].paused /\ row'[m].fellBack = row[m].fellBack
    BY <1>1, <2>1 DEF requeue_if_skipped, MessageRow
  <2> QED  BY <1>2, <1>4, <2>1, <2>2, <2>3
<1> QED  BY <1>3, <1>4 DEF Capture

\* Recording a failure pauses the current message, or not, and keeps its request.
LEMMA RecordEffect ==
    ASSUME TypeOK, PcInv, RecordVerdict
    PROVE  /\ cur \in Message /\ \A n \in Message \ {cur} : row'[n] = row[n]
           /\ row'[cur].req = row[cur].req
           /\ verdict \in {"none", "delay"} => row'[cur].paused = row[cur].paused
           /\ verdict \in {"pause", "reject"} => row'[cur].paused
<1>1. cur \in Message /\ row[cur] \in MessageRow
  BY DEF TypeOK, PcInv, RecordVerdict, CheckOfOne, Failing
<1>2. CASE verdict \in {"none", "delay"}
  BY <1>1, <1>2 DEF TypeOK, RecordVerdict, Update, record_failure, MessageRow
<1>3. CASE verdict = "retry"
  BY <1>1, <1>3 DEF TypeOK, RecordVerdict, Update, record_analysis_failure, MessageRow
<1>4. CASE verdict \in {"pause", "reject"}
  <2>1. (verdict # "retry") = TRUE
    BY <1>4
  <2>2. Update(cur, record_analysis_failure(row[cur], verdict # "retry"))
    BY <1>4 DEF RecordVerdict
  <2>3. Update(cur, record_analysis_failure(row[cur], TRUE))
    BY <2>1, <2>2
  <2> QED  BY <1>1, <1>4, <2>3 DEF TypeOK, Update, record_analysis_failure, MessageRow
<1> QED  BY <1>2, <1>3, <1>4 DEF PcInv

\* A row that loses its request, or keeps it and stays paused, breaks nothing.
LEMMA IdKeeps ==
    ASSUME IInv, NEW x \in Message,
           \A m \in Message \ {x} : row'[m] = row[m],
           row'[x].req.id = 0 \/ (row'[x].req = row[x].req /\ (row[x].paused => row'[x].paused)),
           UNCHANGED <<acked, nextId>>, pc' \notin {"ack", "rejected"}
    PROVE  IdInv'
BY DEF IInv, IdInv

\* Ids stay unique and an acknowledged one never comes back.
LEMMA NextIdInv == IInv /\ [Next]_vars => IdInv'
<1> SUFFICES ASSUME IInv, [Next]_vars PROVE IdInv'
  OBVIOUS
<1> USE LifecycleAssumption DEF IInv, TypeOK, RowOK, MessageRow, PcInv, QueueInv, Waiting,
       IdInv, Loops, InFlight, Failing, CheckOfOne, Update, NextInQueue, Release, Fails,
       FailWith, holder, history, Row, NoRequest, None, record_failure,
       record_analysis_failure, requeue_analysis, mark_skipped, requeue_if_skipped,
       mark_analyzed, mark_delivery_complete, mark_fallback_notified,
       reserve_analysis_request
<1>1. CASE StartCheck \/ HostList \/ ListFallbacks \/ ListDeliveries \/ ListPending
  BY <1>1 DEF StartCheck, HostList, ListFallbacks, ListDeliveries, ListPending
<1>2. CASE FinishCheck \/ FetchContent \/ ContentInvalid \/ ModelAnswers \/ ModelFails
  BY <1>2 DEF FinishCheck, FetchContent, ContentInvalid, ModelAnswers, ModelFails
<1>3. CASE LeaveToHost \/ SendAnalysis \/ SendAnalysisFails \/ SendFallback
          \/ SendFallbackFails
  BY <1>3 DEF LeaveToHost, SendAnalysis, SendAnalysisFails, SendFallback, SendFallbackFails
<1>4. CASE HostDone \/ Abort \/ ChangeSettings
          \/ \E x \in Message : RetryFallback(x) \/ Deliver(x)
  BY <1>4 DEF HostDone, Abort, ChangeSettings, RetryFallback, Deliver
<1>5. CASE \E x \in Message : HostShow(x) \/ AcceptRemoval(x)
  BY <1>5 DEF HostShow, AcceptRemoval
<1>6. CASE ContentUnavailable
  BY <1>6 DEF ContentUnavailable
<1>7. CASE Persist
  BY <1>7 DEF Persist
<1>8. CASE AcknowledgeResult
  BY <1>8 DEF AcknowledgeResult
<1>9. CASE SettleUnnotified
  BY <1>9 DEF SettleUnnotified
<1>10. CASE MarkDelivered
  BY <1>10 DEF MarkDelivered
<1>11. CASE MarkFallback
  BY <1>11 DEF MarkFallback
<1>12. CASE RecordVerdict
  <2>1. /\ pc = "fail" /\ pc' # "ack" /\ (pc' = "rejected" => verdict = "reject")
        /\ UNCHANGED <<req, acked, nextId>>
    BY <1>12 DEF RecordVerdict
  <2>2. \A m \in Message : row'[m].req = row[m].req /\ (m # cur => row'[m] = row[m])
    BY <1>12, RecordEffect
  <2>3. CASE verdict \in {"none", "delay"}
    <3>1. row'[cur].paused = row[cur].paused /\ cur \in Message
      BY <1>12, <2>3, RecordEffect
    <3> QED  BY <2>1, <2>2, <2>3, <3>1, IdKeeps
  <2>4. CASE verdict \notin {"none", "delay"}
    <3>1. row[cur].req = req /\ req.id # 0 /\ ~row[cur].paused /\ cur \in Message
      BY <2>1, <2>4
    <3>2. verdict # "retry" => row'[cur].paused
      BY <1>12, <2>4, RecordEffect
    <3> QED  BY <2>1, <2>2, <2>4, <3>1, <3>2
  <2> QED  BY <2>3, <2>4
<1>13. CASE AcknowledgeRejected
  BY <1>13 DEF AcknowledgeRejected
<1>14. CASE HostAcknowledge
  <2>1. \A m \in Message : row'[m].req = row[m].req /\ row'[m].paused = row[m].paused
    BY <1>14, AcknowledgeEffect DEF HostAcknowledge
  <2> QED  BY <1>14, <2>1 DEF HostAcknowledge
<1>15. ASSUME NEW x \in Message, Reserve(x) PROVE IdInv'
  BY <1>15 DEF Reserve
<1>16. ASSUME NEW x \in Message, Unverified(x) PROVE IdInv'
  BY <1>16 DEF Unverified
<1>17. ASSUME NEW x \in Message, Capture(x) PROVE IdInv'
  <2> QED  BY <1>17, CaptureEffect, IdKeeps
<1>18. ASSUME NEW x \in Message, Requeue(x) PROVE IdInv'
  BY <1>18 DEF Requeue
<1>19. ASSUME NEW x \in Message, CompleteRemoval(x) PROVE IdInv'
  BY <1>19 DEF CompleteRemoval
<1>20. ASSUME NEW x \in Message, RetryDue(x) PROVE IdInv'
  BY <1>20 DEF RetryDue
<1>21. CASE UNCHANGED vars
  BY <1>21 DEF vars
<1> QED
  BY <1>1, <1>2, <1>3, <1>4, <1>5, <1>6, <1>7, <1>8, <1>9, <1>10, <1>11, <1>12,
     <1>13, <1>14, <1>15, <1>16, <1>17, <1>18, <1>19, <1>20, <1>21
  DEF Next, CheckStep, HostStep, Beside

\* A call of the pinned request repeats an earlier call or is the first of its id.
LEMMA CallKeeps ==
    ASSUME IInv, pc = "model", Called, UNCHANGED <<row, nextId>>
    PROVE  CallInv'
<1> DEFINE new == <<req.id, cur, req.limit>>
<1>1. cur \in Message /\ row[cur].req = req /\ req.id # 0 /\ req \in [id : Nat, limit : Nat]
  BY DEF IInv, TypeOK, PcInv, InFlight, CheckOfOne
<1>2. new \in Nat \X Message \X Nat /\ new[1] = req.id /\ new[1] < nextId
  BY <1>1 DEF IInv, IdInv
<1>3. \A m \in Message : row[m].req.id = new[1] => m = cur
  BY <1>1, <1>2 DEF IInv, IdInv
<1>4. \A c \in calls : c[1] = new[1] => c = new
  BY <1>1, <1>2 DEF IInv, CallInv
<1> QED
  BY <1>1, <1>2, <1>3, <1>4 DEF IInv, CallInv, SameRequestSameContent, Called

\* A model call carries the request that is pinned in the row.
LEMMA NextCallInv == IInv /\ [Next]_vars => CallInv'
<1> SUFFICES ASSUME IInv, [Next]_vars PROVE CallInv'
  OBVIOUS
<1> USE LifecycleAssumption DEF IInv, TypeOK, RowOK, MessageRow, PcInv, IdInv, CallInv,
       SameRequestSameContent, Loops, InFlight, Failing, CheckOfOne, Update, NextInQueue,
       Release, Fails, FailWith, holder, history, Row, NoRequest, None, record_failure,
       record_analysis_failure, requeue_analysis, mark_skipped, requeue_if_skipped,
       mark_analyzed, mark_delivery_complete, mark_fallback_notified,
       reserve_analysis_request
<1>1. CASE StartCheck \/ HostList \/ ListFallbacks \/ ListDeliveries \/ ListPending
  BY <1>1 DEF StartCheck, HostList, ListFallbacks, ListDeliveries, ListPending
<1>2. CASE FinishCheck \/ FetchContent \/ ContentInvalid \/ AcknowledgeResult \/ LeaveToHost
  BY <1>2 DEF FinishCheck, FetchContent, ContentInvalid, AcknowledgeResult, LeaveToHost
<1>3. CASE SendAnalysis \/ SendAnalysisFails \/ SendFallback \/ SendFallbackFails
          \/ AcknowledgeRejected
  BY <1>3 DEF SendAnalysis, SendAnalysisFails, SendFallback, SendFallbackFails,
        AcknowledgeRejected
<1>4. CASE HostDone \/ Abort \/ ChangeSettings
          \/ \E x \in Message : RetryFallback(x) \/ Deliver(x)
  BY <1>4 DEF HostDone, Abort, ChangeSettings, RetryFallback, Deliver
<1>5. CASE \E x \in Message : HostShow(x) \/ AcceptRemoval(x)
  BY <1>5 DEF HostShow, AcceptRemoval
<1>6. CASE ContentUnavailable
  BY <1>6 DEF ContentUnavailable
<1>7. CASE ModelAnswers
  BY <1>7, CallKeeps DEF ModelAnswers
<1>8. CASE ModelFails
  BY <1>8, CallKeeps DEF ModelFails
<1>9. CASE Persist
  BY <1>9 DEF Persist
<1>10. CASE SettleUnnotified
  BY <1>10 DEF SettleUnnotified
<1>11. CASE MarkDelivered
  BY <1>11 DEF MarkDelivered
<1>12. CASE MarkFallback
  BY <1>12 DEF MarkFallback
<1>13. CASE RecordVerdict
  BY <1>13 DEF RecordVerdict
<1>14. CASE HostAcknowledge
  <2>1. \A m \in Message : row'[m].req = row[m].req /\ row'[m].paused = row[m].paused
    BY <1>14, AcknowledgeEffect DEF HostAcknowledge
  <2> QED  BY <1>14, <2>1 DEF HostAcknowledge
<1>15. ASSUME NEW x \in Message, Reserve(x) PROVE CallInv'
  BY <1>15 DEF Reserve
<1>16. ASSUME NEW x \in Message, Unverified(x) PROVE CallInv'
  BY <1>16 DEF Unverified
<1>17. ASSUME NEW x \in Message, Capture(x) PROVE CallInv'
  <2> QED  BY <1>17, CaptureEffect
<1>18. ASSUME NEW x \in Message, Requeue(x) PROVE CallInv'
  BY <1>18 DEF Requeue
<1>19. ASSUME NEW x \in Message, CompleteRemoval(x) PROVE CallInv'
  BY <1>19 DEF CompleteRemoval
<1>20. ASSUME NEW x \in Message, RetryDue(x) PROVE CallInv'
  BY <1>20 DEF RetryDue
<1>21. CASE UNCHANGED vars
  BY <1>21 DEF vars
<1> QED
  BY <1>1, <1>2, <1>3, <1>4, <1>5, <1>6, <1>7, <1>8, <1>9, <1>10, <1>11, <1>12,
     <1>13, <1>14, <1>15, <1>16, <1>17, <1>18, <1>19, <1>20, <1>21
  DEF Next, CheckStep, HostStep, Beside

-----------------------------------------------------------------------------
(* Notices. *)

Told == {"sent", "noticed", "shown"}

\* A sending that fails after the notice was shown pays for it with a fault.
LEMMA UnansweredNotice ==
    ASSUME IInv, NEW m \in Message, NEW kind \in {"analysis", "fallback"},
           ShowUnanswered(m, kind), row[m].status # "absent",
           UNCHANGED row, pc \notin Told, pc' \notin Told
    PROVE  NoticeInv'
<1>1. TypeOK /\ NoticeInv
  BY DEF IInv
<1>2. \A n \in Message : /\ AnalysisTold(n) <=> AnalysisTold(n)'
                         /\ FallbackTold(n) <=> FallbackTold(n)'
  BY DEF AnalysisTold, FallbackTold, Told
<1>3. faults \in Nat /\ \A n \in Message : shown[n].analysis \in Nat /\ shown[n].fallback \in Nat
  BY <1>1 DEF TypeOK
<1>4. /\ shown' \in [Message -> [analysis : Nat, fallback : Nat]]
      /\ \/ UNCHANGED <<shown, faults>>
         \/ /\ faults' = faults + 1
            /\ \A n \in Message : /\ shown'[n].analysis <= shown[n].analysis + 1
                                  /\ shown'[n].fallback <= shown[n].fallback + 1
                                  /\ n # m => shown'[n] = shown[n]
  BY <1>1, UnansweredEffect
<1>5. \A n \in Message : shown'[n].analysis \in Nat /\ shown'[n].fallback \in Nat
  BY <1>4
<1>6. CASE UNCHANGED <<shown, faults>>
  BY <1>1, <1>2, <1>6 DEF NoticeInv
<1>7. CASE /\ faults' = faults + 1
           /\ \A n \in Message : /\ shown'[n].analysis <= shown[n].analysis + 1
                                 /\ shown'[n].fallback <= shown[n].fallback + 1
                                 /\ n # m => shown'[n] = shown[n]
  BY <1>1, <1>2, <1>3, <1>5, <1>7 DEF NoticeInv
<1> QED  BY <1>4, <1>6, <1>7

\* A notice is sent only when the row does not remember one.
LEMMA NextNoticeInv == IInv /\ [Next]_vars => NoticeInv'
<1> SUFFICES ASSUME IInv, [Next]_vars PROVE NoticeInv'
  OBVIOUS
<1> USE LifecycleAssumption DEF IInv, TypeOK, RowOK, MessageRow, PcInv, QueueInv, Waiting,
       NoticeInv, AnalysisTold, FallbackTold, FallbackDue, Available, Show, Loops, InFlight,
       Failing, CheckOfOne, Update, NextInQueue, Release, Fails, FailWith, holder, history,
       Row, NoRequest, None, record_failure, record_analysis_failure, requeue_analysis,
       mark_skipped, requeue_if_skipped, mark_analyzed, mark_delivery_complete,
       mark_fallback_notified, reserve_analysis_request
<1>1. CASE StartCheck \/ HostList \/ ListFallbacks \/ ListDeliveries \/ ListPending
  BY <1>1 DEF StartCheck, HostList, ListFallbacks, ListDeliveries, ListPending
<1>2. CASE FinishCheck \/ FetchContent \/ ContentInvalid \/ ModelAnswers \/ ModelFails
  BY <1>2 DEF FinishCheck, FetchContent, ContentInvalid, ModelAnswers, ModelFails
<1>3. CASE AcknowledgeResult \/ LeaveToHost \/ AcknowledgeRejected
  BY <1>3 DEF AcknowledgeResult, LeaveToHost, AcknowledgeRejected
<1>4. CASE HostDone \/ ChangeSettings
          \/ \E x \in Message : RetryFallback(x) \/ Deliver(x) \/ AcceptRemoval(x)
  BY <1>4 DEF HostDone, ChangeSettings, RetryFallback, Deliver, AcceptRemoval
<1>5. CASE ContentUnavailable
  BY <1>5 DEF ContentUnavailable
<1>6. CASE Persist
  BY <1>6 DEF Persist
<1>7. CASE SettleUnnotified
  BY <1>7 DEF SettleUnnotified
<1>8. CASE SendAnalysis
  BY <1>8 DEF SendAnalysis
<1>9. CASE MarkDelivered
  BY <1>9 DEF MarkDelivered
<1>10. CASE SendFallback
  <2>1. ~row[cur].fellBack /\ cur \in Message
    BY <1>10 DEF SendFallback
  <2>2. shown'[cur].analysis = shown[cur].analysis
    BY <1>10, <2>1 DEF SendFallback
  <2>3. shown'[cur].fallback = shown[cur].fallback + 1
    BY <1>10, <2>1 DEF SendFallback
  <2>4. \A m \in Message \ {cur} : shown'[m] = shown[m]
    BY <1>10, <2>1 DEF SendFallback
  <2>5. pc = "notice" /\ pc' = "noticed" /\ UNCHANGED <<row, cur, faults>>
    BY <1>10 DEF SendFallback
  <2>6. faults \in Nat /\ shown[cur].analysis \in Nat /\ shown[cur].fallback \in Nat
    BY <2>1
  <2>7. row[cur].status \notin {"absent", "removed"}
    BY <1>10 DEF SendFallback
  <2> HIDE DEF TypeOK, RowOK, MessageRow, PcInv, QueueInv
  <2>8. ~FallbackTold(cur) /\ FallbackTold(cur)' /\ (AnalysisTold(cur) <=> AnalysisTold(cur)')
    BY <2>1, <2>5, <2>7
  <2>9. \A m \in Message \ {cur} : /\ AnalysisTold(m) <=> AnalysisTold(m)'
                                   /\ FallbackTold(m) <=> FallbackTold(m)'
    BY <2>5
  <2> HIDE DEF AnalysisTold, FallbackTold
  <2> QED  BY <2>1, <2>2, <2>3, <2>4, <2>5, <2>6, <2>7, <2>8, <2>9
<1>11. CASE MarkFallback
  BY <1>11 DEF MarkFallback
<1>12. CASE RecordVerdict
  BY <1>12 DEF RecordVerdict
<1>13. CASE HostAcknowledge
  <2>1. CASE faults' = faults + 1 /\ UNCHANGED row
    BY <1>13, <2>1 DEF HostAcknowledge
  <2>2. CASE UNCHANGED faults
    <3>1. cur \in Message /\ Update(cur, IF Available(cur) THEN acknowledge_notification(cur) ELSE row[cur])
      BY <1>13, <2>2 DEF HostAcknowledge
    <3>2. pc = "shown" /\ pc' = "host" /\ UNCHANGED <<shown, cur>>
      BY <1>13 DEF HostAcknowledge
    <3>3. /\ Available(cur) /\ (row[cur].status = "analyzed" \/ FallbackDue(cur))
          /\ faults \in Nat /\ shown[cur].analysis \in Nat /\ shown[cur].fallback \in Nat
      BY <3>1, <3>2
    <3>4. TypeOK
      BY DEF IInv
    <3> HIDE DEF TypeOK, RowOK, MessageRow, PcInv, QueueInv, Update, Available
    <3>5. /\ \A n \in Message \ {cur} : row'[n] = row[n]
          /\ \/ row[cur].status = "analyzed" /\ row'[cur].status = "summarized"
                /\ row'[cur].fellBack = row[cur].fellBack
             \/ FallbackDue(cur) /\ row'[cur].status = "pending" /\ row'[cur].fellBack
      BY <3>1, <3>3, <3>4, AcknowledgeEffect
    <3> QED  BY <2>2, <3>1, <3>2, <3>3, <3>5
  <2> QED  BY <1>13, <2>1, <2>2 DEF HostAcknowledge
<1>14. CASE Abort
  BY <1>14 DEF Abort
<1>15. ASSUME NEW x \in Message, Reserve(x) PROVE NoticeInv'
  BY <1>15 DEF Reserve
<1>16. ASSUME NEW x \in Message, Unverified(x) PROVE NoticeInv'
  BY <1>16 DEF Unverified
<1>17. ASSUME NEW x \in Message, HostShow(x) PROVE NoticeInv'
  <2>1. CASE Show(x, IntentKind(x)) /\ pc' = "shown" /\ cur' = x /\ UNCHANGED faults
    BY <1>17, <2>1 DEF HostShow, IntentKind
  <2>2. CASE ShowUnanswered(x, IntentKind(x)) /\ UNCHANGED <<pc, cur>>
    <3>1. row[x].status # "absent" /\ pc \notin Told /\ pc' \notin Told /\ UNCHANGED row
      BY <1>17, <2>2 DEF HostShow, Told
    <3>2. IntentKind(x) \in {"analysis", "fallback"}
      BY DEF IntentKind
    <3> QED  BY <2>2, <3>1, <3>2, UnansweredNotice
  <2> QED  BY <1>17, <2>1, <2>2 DEF HostShow
<1>18. ASSUME NEW x \in Message, Capture(x) PROVE NoticeInv'
  <2> QED  BY <1>18, CaptureEffect
<1>19. ASSUME NEW x \in Message, Requeue(x) PROVE NoticeInv'
  BY <1>19 DEF Requeue
<1>20. ASSUME NEW x \in Message, CompleteRemoval(x) PROVE NoticeInv'
  BY <1>20 DEF CompleteRemoval
<1>21. ASSUME NEW x \in Message, RetryDue(x) PROVE NoticeInv'
  BY <1>21 DEF RetryDue
<1>22. CASE UNCHANGED vars
  BY <1>22 DEF vars
<1>23. CASE SendAnalysisFails
  <2>1. /\ cur \in Message /\ row[cur].status # "absent" /\ UNCHANGED row
        /\ pc \notin Told /\ pc' \notin Told
    BY <1>23 DEF SendAnalysisFails, Told
  <2> QED  BY <1>23, <2>1, UnansweredNotice DEF SendAnalysisFails
<1>24. CASE SendFallbackFails
  <2>1. /\ cur \in Message /\ row[cur].status # "absent" /\ UNCHANGED row
        /\ pc \notin Told /\ pc' \notin Told
    BY <1>24 DEF SendFallbackFails, Told
  <2> QED  BY <1>24, <2>1, UnansweredNotice DEF SendFallbackFails
<1> QED
  BY <1>1, <1>2, <1>3, <1>4, <1>5, <1>6, <1>7, <1>8, <1>9, <1>10, <1>11, <1>12,
     <1>13, <1>14, <1>15, <1>16, <1>17, <1>18, <1>19, <1>20, <1>21, <1>22, <1>23, <1>24
  DEF Next, CheckStep, HostStep, Beside

-----------------------------------------------------------------------------
\* IInv holds in every reachable state.
THEOREM LifecycleInvariant == Spec => []IInv
<1>1. IInv /\ [Next]_vars => IInv'
  <2> SUFFICES ASSUME IInv, [Next]_vars PROVE IInv'
    OBVIOUS
  <2> QED
    BY NextTypeOK, NextPcInv, NextQueueInv, NextIdInv, NextCallInv, NextNoticeInv DEF IInv
<1> QED  BY InitIInv, <1>1, PTL DEF Spec

\* Types: every reachable state has the shape the tables and the code give it,
\* and only a pending message is paused or has a reserved request.
THEOREM LifecycleTyped == Spec => []TypeOK
<1>1. IInv => TypeOK
  BY DEF IInv
<1> QED  BY LifecycleInvariant, <1>1, PTL

\* While a check fetches and analyses a message its row stays pending under the
\* request the check reserved, whatever runs beside it.
THEOREM RequestPinned == Spec => []InFlightPinned
<1>1. IInv => InFlightPinned
  BY DEF IInv, PcInv, InFlight, InFlightPinned
<1> QED  BY LifecycleInvariant, <1>1, PTL

\* One request id means one message and one body limit in all model calls.
THEOREM RetriesSendTheSame == Spec => []SameRequestSameContent
<1>1. IInv => SameRequestSameContent
  BY DEF IInv, CallInv
<1> QED  BY LifecycleInvariant, <1>1, PTL

\* An id that was acknowledged to the gateway is not submitted again.
THEOREM AcknowledgedIsOver == Spec => []AckedIsOver
<1>1. IInv => AckedIsOver
  <2> SUFFICES ASSUME IInv PROVE AckedIsOver
    OBVIOUS
  <2>1. \A m \in Message : row[m].req.id \in acked => row[m].paused
    BY DEF IInv, IdInv
  <2>2. pc \in InFlight => cur \in Message /\ row[cur].req = req /\ ~row[cur].paused
    BY DEF IInv, PcInv, CheckOfOne
  <2> QED  BY <2>1, <2>2 DEF AckedIsOver, InFlight
<1> QED  BY LifecycleInvariant, <1>1, PTL

\* The user sees each notice of a message once, plus once for every fault.
THEOREM NoticesAreBounded == Spec => []NoticesBounded
<1>1. IInv => NoticesBounded
  BY DEF IInv, TypeOK, NoticeInv, NoticesBounded
<1> QED  BY LifecycleInvariant, <1>1, PTL

=============================================================================
