-------------------------- MODULE GuardNodeProofs --------------------------
(***************************************************************************)
(* Theorems about GuardNode and the event lists read beside it, for any    *)
(* set of events, txs and handlers.                                        *)
(***************************************************************************)
EXTENDS EventList, TLAPS

USE DatabaseAssumption, TxApprovalAssumption, MaxSignAssumption
    DEF SemaphoreIsFree, Confirmed

-----------------------------------------------------------------------------
(* Type correctness *)

\* A guard starts in a state of the declared types.
LEMMA InitTypeOK == Init => TypeOK
BY DEF Init, DatabaseInit, TxApprovalInit, EventProcessorInit, ProcessorInit,
       TypeOK, DatabaseTypeOK, TxApprovalTypeOK, EventProcessorTypeOK,
       ProcessorTypeOK, IdleHandler, HandlerState, NoTx, InsertOps, JobPc,
       EventUnexpectedFailsLimit

\* The tables keep their types under every update of DatabaseAction.
LEMMA UpdatesTyped ==
  ASSUME DatabaseTypeOK
  PROVE  /\ UNCHANGED tables => DatabaseTypeOK'
         /\ \A e : \A s \in EventStatus, b \in BOOLEAN :
              setEventStatus(e, s, b) => DatabaseTypeOK'
         /\ \A e : insertConfirmedEvent(e) => DatabaseTypeOK'
         /\ \A t : \A s \in TransactionStatus :
              setTxStatus(t, s) => DatabaseTypeOK'
         /\ \A t : setTxAsSignFailed(t) => DatabaseTypeOK'
         /\ \A t : resetFailedInSign(t) => DatabaseTypeOK'
         /\ \A t : insertNewTx(t) => DatabaseTypeOK'
         /\ \A t, u : replaceTx(u, t) => DatabaseTypeOK'
<1> USE DEF DatabaseTypeOK
<1>1. UNCHANGED tables => DatabaseTypeOK'
  BY DEF tables
<1>2. ASSUME NEW e, NEW s \in EventStatus, NEW b \in BOOLEAN,
             setEventStatus(e, s, b)
      PROVE  DatabaseTypeOK'
  <2>1. CASE e \in Events
    BY <1>2, <2>1 DEF setEventStatus, EventUnexpectedFailsLimit
  <2>2. CASE e \notin Events
    <3>1. evStatus' = evStatus /\ evFails' = evFails
      BY <1>2, <2>2 DEF setEventStatus
    <3>2. QED
      BY <1>2, <3>1 DEF setEventStatus
  <2>3. QED
    BY <2>1, <2>2
<1>3. ASSUME NEW e, insertConfirmedEvent(e)
      PROVE  DatabaseTypeOK'
  BY <1>3 DEF insertConfirmedEvent, EventStatus
<1>4. ASSUME NEW t, NEW s \in TransactionStatus, setTxStatus(t, s)
      PROVE  DatabaseTypeOK'
  BY <1>4 DEF setTxStatus
<1>5. ASSUME NEW t, setTxAsSignFailed(t)
      PROVE  DatabaseTypeOK'
  BY <1>5 DEF setTxAsSignFailed, TransactionStatus, ActiveStatuses
<1>6. ASSUME NEW t, resetFailedInSign(t)
      PROVE  DatabaseTypeOK'
  BY <1>6 DEF resetFailedInSign
<1>7. ASSUME NEW t, insertNewTx(t)
      PROVE  DatabaseTypeOK'
  BY <1>7 DEF insertNewTx, TransactionStatus, ActiveStatuses
<1>8. ASSUME NEW t, NEW u, replaceTx(u, t)
      PROVE  DatabaseTypeOK'
  BY <1>8 DEF replaceTx, TransactionStatus, ActiveStatuses
<1>9. QED
  BY <1>1, <1>2, <1>3, <1>4, <1>5, <1>6, <1>7, <1>8

\* One step per action of TxApproval.
LEMMA ApprovalTyped ==
  ASSUME TypeOK, Approval(TxApprovalNext)
  PROVE  TypeOK'
<1> DEFINE Rest == EventProcessorTypeOK /\ ProcessorTypeOK /\ resurrected \subseteq Txs
<1>0. DatabaseTypeOK /\ TxApprovalTypeOK /\ Rest
  BY DEF TypeOK
<1>r. Rest'
  BY <1>0 DEF Approval, eventJobVars, processorVars, EventProcessorTypeOK,
              ProcessorTypeOK
<1>s. SUFFICES ASSUME TxApprovalNext
               PROVE  DatabaseTypeOK' /\ TxApprovalTypeOK'
  BY <1>r DEF Approval, TypeOK
<1> USE <1>0 DEF approvalVars
<1>1. ASSUME NEW t \in Txs, Agree(t)
      PROVE  DatabaseTypeOK' /\ TxApprovalTypeOK'
  BY <1>1, UpdatesTyped DEF Agree, TxApprovalTypeOK
<1>2. ASSUME NEW t \in Txs, SkipInvalid(t)
      PROVE  DatabaseTypeOK' /\ TxApprovalTypeOK'
  BY <1>2, UpdatesTyped DEF SkipInvalid, TxApprovalTypeOK
<1>3. ASSUME NEW e \in Events, RejectRequest(e)
      PROVE  DatabaseTypeOK' /\ TxApprovalTypeOK'
  BY <1>3, UpdatesTyped DEF RejectRequest, TxApprovalTypeOK, EventStatus
<1>4. CASE EnqueueSignFailedTxs
  BY <1>4, UpdatesTyped DEF EnqueueSignFailedTxs, TxApprovalTypeOK,
                            getUnsignedFailedSignTxs
<1>5. CASE ClearTransactions
  BY <1>5, UpdatesTyped DEF ClearTransactions, TxApprovalTypeOK
<1>6. ASSUME NEW h \in Handlers, NEW t \in Txs, SetTxAsApproved(h, t)
      PROVE  DatabaseTypeOK' /\ TxApprovalTypeOK'
  BY <1>6, UpdatesTyped DEF SetTxAsApproved, TxApprovalTypeOK, HandlerState,
                            IdleHandler, InsertOps
<1>7. ASSUME NEW h \in Handlers, NEW t \in Txs, ManualRequest(h, t)
      PROVE  DatabaseTypeOK' /\ TxApprovalTypeOK'
  BY <1>7, UpdatesTyped DEF ManualRequest, TxApprovalTypeOK, HandlerState,
                            IdleHandler, InsertOps
<1>8. ASSUME NEW h \in Handlers, InsertTxRead(h)
      PROVE  DatabaseTypeOK' /\ TxApprovalTypeOK'
  <2>1. PICK op \in InsertOps, old \in Txs \cup {NoTx} :
          handler' = [handler EXCEPT ![h].pc = "write",
                                     ![h].op = op, ![h].old = old]
    BY <1>8 DEF InsertTxRead
  <2>2. handler' \in [Handlers -> HandlerState]
    <3>1. handler \in [Handlers -> HandlerState]
      BY DEF TxApprovalTypeOK
    <3>2. [[[handler[h] EXCEPT !.pc = "write"] EXCEPT !.op = op]
              EXCEPT !.old = old] \in HandlerState
      BY <3>1 DEF HandlerState
    <3>3. handler' = [handler EXCEPT ![h] =
                        [[[handler[h] EXCEPT !.pc = "write"] EXCEPT !.op = op]
                           EXCEPT !.old = old]]
      BY <2>1, <3>1
    <3>4. QED
      BY <3>1, <3>2, <3>3
  <2>3. QED
    BY <1>8, <2>2, UpdatesTyped DEF InsertTxRead, TxApprovalTypeOK
<1>9. ASSUME NEW h \in Handlers, InsertTxWrite(h)
      PROVE  DatabaseTypeOK' /\ TxApprovalTypeOK'
  <2>1. DatabaseTypeOK'
    BY <1>9, UpdatesTyped DEF InsertTxWrite, TxApprovalTypeOK, HandlerState
  <2>2. TxApprovalTypeOK'
    <3>1. [handler[h] EXCEPT !.pc = "event"] \in HandlerState
      BY DEF TxApprovalTypeOK, HandlerState
    <3>2. IdleHandler \in HandlerState
      BY DEF IdleHandler, HandlerState, InsertOps
    <3>3. \/ handler' = [handler EXCEPT ![h] =
                           [handler[h] EXCEPT !.pc = "event"]]
          \/ handler' = [handler EXCEPT ![h] = IdleHandler]
      BY <1>9 DEF InsertTxWrite, Finish, TxApprovalTypeOK
    <3>4. handler' \in [Handlers -> HandlerState]
      BY <3>1, <3>2, <3>3 DEF TxApprovalTypeOK
    <3>5. candidates' \subseteq Txs /\ txSignSemaphore' = Free
      BY <1>9 DEF InsertTxWrite, TxApprovalTypeOK
    <3>6. QED
      BY <3>4, <3>5 DEF TxApprovalTypeOK
  <2>3. QED
    BY <2>1, <2>2
<1>10. ASSUME NEW h \in Handlers, UpdateEventOfApprovedTx(h)
       PROVE  DatabaseTypeOK' /\ TxApprovalTypeOK'
  <2>1. DatabaseTypeOK'
    <3>1. \/ \E e : setEventStatus(e, "in-payment", FALSE)
          \/ \E e : setEventStatus(e, "in-reward", FALSE)
          \/ UNCHANGED tables
      BY <1>10 DEF UpdateEventOfApprovedTx
    <3>2. "in-payment" \in EventStatus /\ "in-reward" \in EventStatus
      BY DEF EventStatus, RewardStatuses
    <3>3. QED
      BY <3>1, <3>2, UpdatesTyped
  <2>2. TxApprovalTypeOK'
    BY <1>10 DEF UpdateEventOfApprovedTx, TxApprovalTypeOK, HandlerState,
                 Finish, IdleHandler, InsertOps
  <2>3. QED
    BY <2>1, <2>2
<1>11. QED
  BY <1>s, <1>1, <1>2, <1>3, <1>4, <1>5, <1>6, <1>7, <1>8, <1>9, <1>10
     DEF TxApprovalNext, HandlerNext

\* One step per action of EventProcessor.
LEMMA EventsTyped ==
  ASSUME TypeOK, Jobs(EventProcessorNext)
  PROVE  TypeOK'
<1> DEFINE Mine == /\ DatabaseTypeOK
                   /\ candidates \subseteq Txs
                   /\ EventProcessorTypeOK
<1>0. Mine
  BY DEF TypeOK, TxApprovalTypeOK
<1>s. SUFFICES ASSUME EventProcessorNext
               PROVE  Mine' /\ UNCHANGED <<handler, txSignSemaphore>>
  BY DEF Jobs, TypeOK, processorVars, TxApprovalTypeOK, ProcessorTypeOK
<1> USE <1>0 DEF approvalVars, EventProcessorTypeOK
<1>st. {"pending-payment", "pending-reward", "payment-waiting",
        "reward-waiting", "spent", "reached-limit", "rejected", "timeout"}
         \subseteq EventStatus
  BY DEF EventStatus, RewardStatuses
<1>rows. ASSUME NEW S \in SUBSET EventStatus
         PROVE  Rows(getEventsByStatuses(S)) \subseteq EventRow
  BY DEF Rows, getEventsByStatuses, EventRow, DatabaseTypeOK
<1>1. ASSUME NEW e \in Events, ProcessScannedEvents(e)
      PROVE  Mine' /\ UNCHANGED <<handler, txSignSemaphore>>
  BY <1>1, UpdatesTyped DEF ProcessScannedEvents, eventJobVars
<1>2. ASSUME NEW e \in Events, TimeoutEvent(e)
      PROVE  Mine' /\ UNCHANGED <<handler, txSignSemaphore>>
  BY <1>2, <1>st, UpdatesTyped DEF TimeoutEvent
<1>3. CASE StartConfirmedEvents
  BY <1>3, <1>st, <1>rows, UpdatesTyped DEF StartConfirmedEvents
<1>4. CASE AbortConfirmedEvents
  BY <1>4, UpdatesTyped DEF AbortConfirmedEvents
<1>5. ASSUME NEW r \in confirmedTodo, SpentEvent(r)
      PROVE  Mine' /\ UNCHANGED <<handler, txSignSemaphore>>
  BY <1>5, <1>st, UpdatesTyped DEF SpentEvent, TakeConfirmed
<1>6. ASSUME NEW r \in confirmedTodo, ReachedLimitEvent(r)
      PROVE  Mine' /\ UNCHANGED <<handler, txSignSemaphore>>
  BY <1>6, <1>st, UpdatesTyped DEF ReachedLimitEvent, TakeConfirmed
<1>7. ASSUME NEW r \in confirmedTodo, RejectEvent(r)
      PROVE  Mine' /\ UNCHANGED <<handler, txSignSemaphore>>
  BY <1>7, <1>st, UpdatesTyped DEF RejectEvent, TakeConfirmed
<1>8. ASSUME NEW r \in confirmedTodo, NotEnoughAssets(r)
      PROVE  Mine' /\ UNCHANGED <<handler, txSignSemaphore>>
  BY <1>8, <1>st, UpdatesTyped DEF NotEnoughAssets, TakeConfirmed
<1>9. ASSUME NEW r \in confirmedTodo, LeaveEvent(r)
      PROVE  Mine' /\ UNCHANGED <<handler, txSignSemaphore>>
  BY <1>9, UpdatesTyped DEF LeaveEvent, TakeConfirmed
<1>10. ASSUME NEW r \in confirmedTodo, NEW t \in Txs, CreateTx(r, t)
       PROVE  Mine' /\ UNCHANGED <<handler, txSignSemaphore>>
  BY <1>10, UpdatesTyped DEF CreateTx, TakeConfirmed
<1>11. CASE StartTimeout
  BY <1>11, UpdatesTyped DEF StartTimeout, getEventsByStatuses
<1>12. CASE StartRequeue
  BY <1>12, <1>st, <1>rows, UpdatesTyped DEF StartRequeue
<1>13. ASSUME NEW r \in requeueTodo, RequeueEvent(r)
       PROVE  Mine' /\ UNCHANGED <<handler, txSignSemaphore>>
  BY <1>13, <1>st, UpdatesTyped DEF RequeueEvent, setEventStatusToPending
<1>14. QED
  BY <1>s, <1>1, <1>2, <1>3, <1>4, <1>5, <1>6, <1>7, <1>8, <1>9, <1>10,
     <1>11, <1>12, <1>13 DEF EventProcessorNext

\* One step per action of TransactionProcessor.
LEMMA ProcessorTyped ==
  ASSUME TypeOK, Processor(ProcessorNext)
  PROVE  TypeOK'
<1> DEFINE Mine == DatabaseTypeOK /\ ProcessorTypeOK
<1>0. Mine
  BY DEF TypeOK
<1>s. SUFFICES ASSUME ProcessorNext
               PROVE  Mine' /\ UNCHANGED txSignSemaphore
  BY DEF Processor, TypeOK, approvalVars, eventJobVars, TxApprovalTypeOK,
         EventProcessorTypeOK
<1> USE <1>0 DEF ProcessorTypeOK, JobPc, GoTo, Continue
<1>st. /\ TransactionStatus = {"sent", "signed", "approved", "sign-failed",
                              "in-sign", "invalid", "completed"}
       /\ {"pending-payment", "pending-reward", "completed"} \subseteq EventStatus
  BY DEF TransactionStatus, ActiveStatuses, EventStatus, RewardStatuses
<1>row. \A r \in todo : r.tx \in Txs
  BY DEF TxRow
<1>1. CASE ProcessTransactions
  <2>1. {[tx |-> t, status |-> txStatus[t]] : t \in getActiveTransactions}
          \subseteq TxRow
    BY DEF getActiveTransactions, TxRow, ActiveStatuses
  <2>2. QED
    BY <1>1, <2>1, UpdatesTyped DEF ProcessTransactions
<1>2. ASSUME NEW r \in todo, LeaveTx(r)
      PROVE  Mine' /\ UNCHANGED txSignSemaphore
  BY <1>2, UpdatesTyped DEF LeaveTx, Take
<1>3. ASSUME NEW r \in todo, ProcessApprovedTx(r)
      PROVE  Mine' /\ UNCHANGED txSignSemaphore
  BY <1>3, <1>row, UpdatesTyped DEF ProcessApprovedTx, Take
<1>4. ASSUME NEW r \in todo, ProcessInSignTx(r)
      PROVE  Mine' /\ UNCHANGED txSignSemaphore
  BY <1>4, UpdatesTyped DEF ProcessInSignTx, Take
<1>5. ASSUME NEW r \in todo, ProcessSignFailedTx(r)
      PROVE  Mine' /\ UNCHANGED txSignSemaphore
  BY <1>5, <1>st, <1>row, UpdatesTyped
     DEF ProcessSignFailedTx, Take, SetTransactionAsInvalid
<1>6. ASSUME NEW r \in todo, ProcessSignedTx(r)
      PROVE  Mine' /\ UNCHANGED txSignSemaphore
  BY <1>6, <1>st, UpdatesTyped DEF ProcessSignedTx, Take
<1>7. ASSUME NEW r \in todo, ProcessSentTx(r)
      PROVE  Mine' /\ UNCHANGED txSignSemaphore
  BY <1>7, <1>st, <1>row, UpdatesTyped
     DEF ProcessSentTx, Take, SetTransactionAsInvalid
<1>8. CASE SendToSign
  <2>1. DatabaseTypeOK'
    BY <1>8, <1>st, UpdatesTyped DEF SendToSign
  <2>2. signing' \in [Txs -> 0 .. MaxSign]
    <3>1. \A t \in Txs : signing[t] \in 0 .. MaxSign
      OBVIOUS
    <3>2. \A t \in Txs : signing'[t] = IF t = cur THEN signing[t] + 1
                                                 ELSE signing[t]
      BY <1>8 DEF SendToSign
    <3>3. signing[cur] < MaxSign
      BY <1>8 DEF SendToSign
    <3>4. \A t \in Txs : signing'[t] \in 0 .. MaxSign
      BY <3>1, <3>2, <3>3, MaxSignAssumption
    <3>5. signing' = [t \in Txs |-> signing'[t]]
      BY <1>8 DEF SendToSign
    <3>6. QED
      BY <3>4, <3>5
  <2>3. QED
    BY <1>8, <2>1, <2>2 DEF SendToSign
<1>9. CASE AdvanceEvent
  BY <1>9, <1>st, UpdatesTyped DEF AdvanceEvent, setEventStatusToPending
<1>10. CASE ResetEvent
  <2>1. \/ setEventStatus(EventOf[cur], "pending-payment",
                          jobPc = "reset-unexpected")
        \/ setEventStatus(EventOf[cur], "pending-reward",
                          jobPc = "reset-unexpected")
    BY <1>10 DEF ResetEvent
  <2>2. (jobPc = "reset-unexpected") \in BOOLEAN
    OBVIOUS
  <2>3. DatabaseTypeOK'
    BY <1>st, <2>1, <2>2, UpdatesTyped
  <2>4. QED
    BY <1>10, <2>3 DEF ResetEvent
<1>11. CASE NotifyFails
  BY <1>11, UpdatesTyped DEF NotifyFails
<1>12. ASSUME NEW t \in Txs, HandleSuccessfulSign(t)
       PROVE  Mine' /\ UNCHANGED txSignSemaphore
  BY <1>12, <1>st, UpdatesTyped, MaxSignAssumption
     DEF HandleSuccessfulSign, Answered, updateWithSignedTx, jobVars
<1>13. ASSUME NEW t \in Txs, HandleFailedSign(t)
       PROVE  Mine' /\ UNCHANGED txSignSemaphore
  BY <1>13, UpdatesTyped, MaxSignAssumption
     DEF HandleFailedSign, Answered, jobVars
<1>14. ASSUME NEW t \in Txs, ChainStep(t)
       PROVE  Mine' /\ UNCHANGED txSignSemaphore
  BY <1>14, UpdatesTyped DEF ChainStep, jobVars
<1>15. QED
  BY <1>s, <1>1, <1>2, <1>3, <1>4, <1>5, <1>6, <1>7, <1>8, <1>9, <1>10,
     <1>11, <1>12, <1>13, <1>14 DEF ProcessorNext, JobNext, TakeAny

\* A restart keeps the types.
LEMMA RestartTyped ==
  ASSUME TypeOK, Restart
  PROVE  TypeOK'
BY UpdatesTyped
   DEF TypeOK, Restart, Continue, GoTo, TxApprovalTypeOK, EventProcessorTypeOK,
       ProcessorTypeOK, JobPc, IdleHandler, HandlerState, NoTx, InsertOps

\* Nothing changes, and the types with it.
LEMMA StutterTyped ==
  ASSUME TypeOK, UNCHANGED vars
  PROVE  TypeOK'
BY DEF TypeOK, vars, tables, approvalVars, eventJobVars, processorVars,
       DatabaseTypeOK, TxApprovalTypeOK, EventProcessorTypeOK, ProcessorTypeOK

\* Every reachable state of a guard is of the declared types.
THEOREM TypeCorrect == Spec => []TypeOK
<1>1. Init => TypeOK
  BY InitTypeOK
<1>2. TypeOK /\ [Next]_vars => TypeOK'
  BY ApprovalTyped, EventsTyped, ProcessorTyped, RestartTyped, StutterTyped
     DEF Next
<1>3. QED
  BY <1>1, <1>2, PTL DEF Spec

-----------------------------------------------------------------------------
(* At most one valid tx per event and type *)

\* SlotInv only reads these variables.
LEMMA Untouched ==
  ASSUME SlotInv,
         UNCHANGED <<handler, txStatus, txSignSemaphore, jobVars, resurrected>>
  PROVE  SlotInv'
BY DEF SlotInv, LockInv, InsertInv, ReadStillHolds, JobInv, OneValidTx,
       IsValidRow, jobVars

\* While no row becomes invalid, the job's list stays right.
LEMMA JobInvKept ==
  ASSUME TypeOK, JobInv, UNCHANGED jobVars,
         \A u \in Txs : txStatus'[u] = "invalid" => txStatus[u] = "invalid"
  PROVE  JobInv'
<1>1. \A r \in todo : r.tx \in Txs
  BY DEF TypeOK, ProcessorTypeOK, TxRow
<1>2. QED
  BY <1>1 DEF JobInv, jobVars

\* What insertTx decides under the semaphore is right when it decides it.
LEMMA DecisionRight ==
  ASSUME TypeOK, NEW h \in Handlers, handler[h].tx \in Txs, InsertTxRead(h)
  PROVE  ReadStillHolds(handler[h])' /\ handler'[h].tx = handler[h].tx
<1> DEFINE t == handler[h].tx
<1>1. PICK op \in InsertOps, old \in Txs \cup {NoTx} :
        /\ \/ TypeOf[t] \in EventTypes /\ insertEventTx(t, op, old)
           \/ TypeOf[t] = "coldStorage" /\ insertColdStorageTx(t, op, old)
           \/ TypeOf[t] = "manual" /\ insertManualTx(t, op, old)
        /\ handler' = [handler EXCEPT ![h].pc = "write",
                                      ![h].op = op, ![h].old = old]
  BY DEF InsertTxRead
<1>2. /\ handler'[h].op = op /\ handler'[h].old = old
      /\ handler'[h].tx = t
  BY <1>1 DEF TypeOK, TxApprovalTypeOK, HandlerState
<1>3. "coldStorage" \notin EventTypes /\ "manual" \notin EventTypes
  BY DEF EventTypes
<1>4. CASE op = "new" /\ TypeOf[t] \in EventTypes
  <2>1. getEventValidTxsByType(EventOf[t], TypeOf[t]) = {}
    BY <1>1, <1>3, <1>4 DEF insertEventTx
  <2>2. \A u \in Txs : ~(SameSlot(t, u) /\ IsValidRow(u))
    BY <2>1 DEF getEventValidTxsByType, SameSlot
  <2>3. SameSlot(t, t)
    BY DEF SameSlot
  <2>4. \A u \in Txs : ~(SameSlot(t, u) /\ IsValidRow(u)')
    BY <2>2 DEF InsertTxRead, IsValidRow, tables
  <2>5. QED
    BY <1>2, <1>4, <2>4 DEF ReadStillHolds
<1>5. CASE op = "replace"
  <2>1. TypeOf[t] \in EventTypes /\ insertEventTx(t, op, old)
    BY <1>1, <1>3, <1>5 DEF insertColdStorageTx, insertManualTx
  <2>2. /\ old \in Txs \ {t}
        /\ getEventValidTxsByType(EventOf[t], TypeOf[t]) = {old}
    BY <1>5, <2>1 DEF insertEventTx
  <2>3. SameSlot(t, old)
    BY <2>2 DEF getEventValidTxsByType, SameSlot
  <2>4. \A u \in Txs : SameSlot(t, u) /\ IsValidRow(u) => u = old
    BY <2>2 DEF getEventValidTxsByType, SameSlot
  <2>5. \A u \in Txs : SameSlot(t, u) /\ IsValidRow(u)' => u = old
    BY <2>4 DEF InsertTxRead, IsValidRow, tables
  <2>6. QED
    BY <1>2, <1>5, <2>1, <2>2, <2>3, <2>5 DEF ReadStillHolds
<1>6. CASE op # "replace" /\ ~(op = "new" /\ TypeOf[t] \in EventTypes)
  BY <1>2, <1>6 DEF ReadStillHolds
<1>7. QED
  BY <1>2, <1>4, <1>5, <1>6

\* The write of insertTx keeps at most one valid tx in a slot.
LEMMA WriteRight ==
  ASSUME TypeOK, SlotInv, NEW h \in Handlers, InsertTxWrite(h),
         UNCHANGED <<jobVars, resurrected>>
  PROVE  SlotInv'
<1> DEFINE s == handler[h]
<1>1. /\ s.pc = "write" /\ s.tx \in Txs /\ ReadStillHolds(s)
      /\ txSignSemaphore = h /\ txSignSemaphore' = Free
  BY DEF SlotInv, InsertInv, LockInv, InsertTxWrite
<1>2. \A g \in Handlers \ {h} : handler'[g] = handler[g]
                                 /\ handler[g].pc # "write"
  BY <1>1 DEF SlotInv, LockInv, InsertTxWrite, Finish, TypeOK, TxApprovalTypeOK
<1>3. handler'[h].pc \in {"idle", "event"}
      /\ (handler'[h].pc # "idle" => handler'[h].tx = s.tx)
  BY DEF InsertTxWrite, Finish, IdleHandler, TypeOK, TxApprovalTypeOK,
         HandlerState
<1>4. LockInv'
  BY <1>1, <1>2, <1>3, TxApprovalAssumption DEF LockInv
<1>5. InsertInv'
  <2>1. \A g \in Handlers : handler[g].pc # "idle" => handler[g].tx \in Txs
    BY DEF SlotInv, InsertInv
  <2>2. QED
    BY <1>1, <1>2, <1>3, <2>1 DEF InsertInv
<1>6. \/ UNCHANGED txStatus
      \/ s.op = "new" /\ CanInsert(s.tx) /\ insertNewTx(s.tx)
      \/ s.op = "replace" /\ CanInsert(s.tx) /\ replaceTx(s.old, s.tx)
  BY DEF InsertTxWrite, tables, resetFailedInSign
<1>7. JobInv'
  <2>1. \A u \in Txs : txStatus'[u] = "invalid" => txStatus[u] = "invalid"
    BY <1>6 DEF insertNewTx, replaceTx, TypeOK, DatabaseTypeOK
  <2>2. QED
    BY <2>1, JobInvKept DEF SlotInv
<1>8. OneValidTx'
  <2>1. OneValidTx /\ resurrected' = resurrected
    BY DEF SlotInv
  <2>2. CASE UNCHANGED txStatus
    BY <2>1, <2>2 DEF OneValidTx, IsValidRow
  <2>3. CASE s.op = "new" /\ insertNewTx(s.tx)
    <3>1. \A u \in Txs \ {s.tx} : IsValidRow(u)' <=> IsValidRow(u)
      BY <2>3 DEF insertNewTx, IsValidRow, TypeOK, DatabaseTypeOK
    <3>2. TypeOf[s.tx] \in EventTypes =>
            \A u \in Txs : SameSlot(s.tx, u) /\ IsValidRow(u) => u \in resurrected
      BY <1>1, <2>3 DEF ReadStillHolds
    <3>3. QED
      BY <1>1, <2>1, <3>1, <3>2 DEF OneValidTx, SameSlot
  <2>4. CASE s.op = "replace" /\ replaceTx(s.old, s.tx)
    <3>1. /\ s.old \in Txs \ {s.tx}
          /\ SameSlot(s.tx, s.old)
          /\ \A u \in Txs : SameSlot(s.tx, u) /\ IsValidRow(u) =>
               u = s.old \/ u \in resurrected
      BY <1>1, <2>4 DEF ReadStillHolds
    <3>2. /\ \A u \in Txs \ {s.tx, s.old} : txStatus'[u] = txStatus[u]
          /\ txStatus'[s.old] = "absent"
      BY <1>1, <2>4, <3>1 DEF replaceTx, TypeOK, DatabaseTypeOK
    <3>3. \A u \in Txs \ {s.tx} : IsValidRow(u)' => IsValidRow(u) /\ u # s.old
      BY <3>1, <3>2 DEF IsValidRow
    <3>4. QED
      BY <1>1, <2>1, <3>1, <3>3 DEF OneValidTx, SameSlot
  <2>5. QED
    BY <1>6, <2>2, <2>3, <2>4
<1>9. QED
  BY <1>4, <1>5, <1>7, <1>8 DEF SlotInv

\* A handler that starts has decided nothing yet.
LEMMA StartKeepsSlot ==
  ASSUME TypeOK, SlotInv, NEW h \in Handlers, NEW t \in Txs, NEW b \in BOOLEAN,
         handler[h].pc = "idle",
         handler' = [handler EXCEPT ![h] =
                       [IdleHandler EXCEPT !.pc = "insert", !.tx = t,
                                           !.fresh = b]],
         UNCHANGED <<txStatus, txSignSemaphore, jobVars, resurrected>>
  PROVE  SlotInv'
<1>1. /\ handler'[h].pc = "insert" /\ handler'[h].tx = t
      /\ \A g \in Handlers \ {h} : handler'[g] = handler[g]
  BY DEF TypeOK, TxApprovalTypeOK, IdleHandler
<1>2. LockInv'
  BY <1>1 DEF SlotInv, LockInv
<1>3. InsertInv'
  BY <1>1 DEF SlotInv, InsertInv, ReadStillHolds, IsValidRow
<1>4. JobInv' /\ OneValidTx'
  BY DEF SlotInv, JobInv, OneValidTx, IsValidRow, jobVars
<1>5. QED
  BY <1>2, <1>3, <1>4 DEF SlotInv

\* The handlers keep the slots: one step per action of TxApproval.
LEMMA ApprovalKeepsSlot ==
  ASSUME TypeOK, SlotInv, Approval(TxApprovalNext)
  PROVE  SlotInv'
<1>0. UNCHANGED <<jobVars, resurrected>>
  BY DEF Approval, processorVars, jobVars
<1>s. SUFFICES ASSUME TxApprovalNext
               PROVE  SlotInv'
  BY DEF Approval
<1>1. ASSUME NEW t \in Txs, Agree(t) \/ SkipInvalid(t)
      PROVE  SlotInv'
  BY <1>0, <1>1, Untouched DEF Agree, SkipInvalid, tables
<1>2. ASSUME NEW e \in Events, RejectRequest(e)
      PROVE  SlotInv'
  BY <1>0, <1>2, Untouched DEF RejectRequest, setEventStatus, approvalVars
<1>3. CASE EnqueueSignFailedTxs \/ ClearTransactions
  BY <1>0, <1>3, Untouched DEF EnqueueSignFailedTxs, ClearTransactions, tables
<1>4. ASSUME NEW h \in Handlers, NEW t \in Txs, SetTxAsApproved(h, t)
      PROVE  SlotInv'
  <2>1. (txStatus[t] = "absent") \in BOOLEAN
    OBVIOUS
  <2>2. QED
    BY <1>0, <1>4, <2>1, StartKeepsSlot DEF SetTxAsApproved, tables
<1>5. ASSUME NEW h \in Handlers, NEW t \in Txs, ManualRequest(h, t)
      PROVE  SlotInv'
  <2>1. FALSE \in BOOLEAN
    OBVIOUS
  <2>2. QED
    BY <1>0, <1>5, <2>1, StartKeepsSlot DEF ManualRequest, tables
<1>6. ASSUME NEW h \in Handlers, InsertTxRead(h)
      PROVE  SlotInv'
  <2>1. /\ handler[h].pc = "insert" /\ handler[h].tx \in Txs
        /\ txSignSemaphore = Free /\ txSignSemaphore' = h
    BY <1>6 DEF InsertTxRead, SlotInv, InsertInv
  <2>2. ReadStillHolds(handler[h])' /\ handler'[h].tx = handler[h].tx
    BY <1>6, <2>1, DecisionRight
  <2>3. /\ handler'[h].pc = "write"
        /\ \A g \in Handlers \ {h} : handler'[g] = handler[g]
                                     /\ handler[g].pc # "write"
    BY <1>6, <2>1, TxApprovalAssumption
       DEF InsertTxRead, TypeOK, TxApprovalTypeOK, HandlerState, SlotInv, LockInv
  <2>4. LockInv' /\ InsertInv'
    BY <2>1, <2>2, <2>3 DEF LockInv, InsertInv, SlotInv
  <2>5. JobInv' /\ OneValidTx'
    BY <1>0, <1>6 DEF InsertTxRead, tables, SlotInv, JobInv, OneValidTx,
                      IsValidRow, jobVars
  <2>6. QED
    BY <2>4, <2>5 DEF SlotInv
<1>7. ASSUME NEW h \in Handlers, InsertTxWrite(h)
      PROVE  SlotInv'
  BY <1>0, <1>7, WriteRight
<1>8. ASSUME NEW h \in Handlers, UpdateEventOfApprovedTx(h)
      PROVE  SlotInv'
  <2>1. /\ handler'[h].pc = "idle" /\ handler[h].pc = "event"
        /\ \A g \in Handlers \ {h} : handler'[g] = handler[g]
    BY <1>8 DEF UpdateEventOfApprovedTx, Finish, IdleHandler, TypeOK,
                TxApprovalTypeOK
  <2>2. UNCHANGED <<txStatus, txSignSemaphore>>
    BY <1>8 DEF UpdateEventOfApprovedTx, setEventStatus, tables
  <2>3. LockInv'
    BY <2>1, <2>2 DEF SlotInv, LockInv
  <2>4. InsertInv'
    BY <1>0, <2>1, <2>2 DEF SlotInv, InsertInv, ReadStillHolds, IsValidRow
  <2>5. JobInv' /\ OneValidTx'
    BY <1>0, <2>2 DEF SlotInv, JobInv, OneValidTx, IsValidRow, jobVars
  <2>6. QED
    BY <2>3, <2>4, <2>5 DEF SlotInv
<1>9. QED
  BY <1>s, <1>1, <1>2, <1>3, <1>4, <1>5, <1>6, <1>7, <1>8
     DEF TxApprovalNext, HandlerNext

\* The event jobs write no tx.
LEMMA EventJobsWriteNoTx ==
  ASSUME EventProcessorNext
  PROVE  UNCHANGED <<handler, txStatus, txSignSemaphore>>
<1> USE DEF setEventStatus, tables, approvalVars, TakeConfirmed
<1>1. ASSUME NEW e \in Events, ProcessScannedEvents(e) \/ TimeoutEvent(e)
      PROVE  UNCHANGED <<handler, txStatus, txSignSemaphore>>
  BY <1>1 DEF ProcessScannedEvents, insertConfirmedEvent, TimeoutEvent
<1>2. CASE \/ StartConfirmedEvents \/ AbortConfirmedEvents
           \/ StartTimeout \/ StartRequeue
  BY <1>2 DEF StartConfirmedEvents, AbortConfirmedEvents, StartTimeout,
              StartRequeue
<1>3. ASSUME NEW r \in confirmedTodo,
             \/ SpentEvent(r) \/ ReachedLimitEvent(r) \/ RejectEvent(r)
             \/ NotEnoughAssets(r) \/ LeaveEvent(r)
             \/ \E t \in Txs : CreateTx(r, t)
      PROVE  UNCHANGED <<handler, txStatus, txSignSemaphore>>
  BY <1>3 DEF SpentEvent, ReachedLimitEvent, RejectEvent, NotEnoughAssets,
              LeaveEvent, CreateTx
<1>4. ASSUME NEW r \in requeueTodo, RequeueEvent(r)
      PROVE  UNCHANGED <<handler, txStatus, txSignSemaphore>>
  BY <1>4 DEF RequeueEvent, setEventStatusToPending
<1>5. QED
  BY <1>1, <1>2, <1>3, <1>4 DEF EventProcessorNext

\* The event jobs keep the slots, for they write no tx.
LEMMA EventsKeepSlot ==
  ASSUME SlotInv, Jobs(EventProcessorNext)
  PROVE  SlotInv'
<1>1. UNCHANGED <<jobVars, resurrected>>
  BY DEF Jobs, processorVars, jobVars
<1>2. QED
  BY <1>1, EventJobsWriteNoTx, Untouched DEF Jobs

\* A step of the processor that makes no row valid, unless by a signature,
\* keeps the slots.
LEMMA NoNewValid ==
  ASSUME SlotInv, UNCHANGED <<handler, txSignSemaphore>>,
         resurrected \subseteq resurrected',
         \A u \in Txs : IsValidRow(u)' => IsValidRow(u) \/ u \in resurrected'
  PROVE  LockInv' /\ InsertInv' /\ OneValidTx'
<1>1. LockInv'
  BY DEF SlotInv, LockInv
<1>2. InsertInv'
  BY DEF SlotInv, InsertInv, ReadStillHolds
<1>3. OneValidTx'
  BY DEF SlotInv, OneValidTx
<1>4. QED
  BY <1>1, <1>2, <1>3

\* The transaction job and the sign callbacks keep the slots.
LEMMA ProcessorKeepsSlot ==
  ASSUME TypeOK, SlotInv, Processor(ProcessorNext)
  PROVE  SlotInv'
<1>0. /\ UNCHANGED handler
      /\ resurrected' = resurrected \cup
           {t \in Txs : txStatus[t] = "invalid" /\ txStatus'[t] = "signed"}
  BY DEF Processor, approvalVars
<1>s. SUFFICES ASSUME ProcessorNext
               PROVE  /\ UNCHANGED txSignSemaphore
                      /\ \A u \in Txs : IsValidRow(u)' =>
                           IsValidRow(u) \/ u \in resurrected'
                      /\ JobInv'
  BY <1>0, NoNewValid DEF Processor, SlotInv
<1> DEFINE Goal == /\ UNCHANGED txSignSemaphore
                   /\ \A u \in Txs : IsValidRow(u)' =>
                        IsValidRow(u) \/ u \in resurrected'
                   /\ JobInv'
<1>j. JobInv /\ DatabaseTypeOK /\ ProcessorTypeOK
  BY DEF SlotInv, TypeOK
<1>row. \A r \in todo : r.tx \in Txs
  BY <1>j DEF ProcessorTypeOK, TxRow
<1> USE DEF IsValidRow
<1>1. CASE ProcessTransactions
  <2>1. UNCHANGED <<txStatus, txSignSemaphore, jobPc, cur>>
    BY <1>1 DEF ProcessTransactions, tables
  <2>2. jobPc = "run"
        /\ todo' = {[tx |-> t, status |-> txStatus[t]] : t \in getActiveTransactions}
    BY <1>1 DEF ProcessTransactions
  <2>3. \A r \in todo' : txStatus[r.tx] # "invalid"
    BY <2>2 DEF getActiveTransactions, ActiveStatuses
  <2>4. \A r, s \in todo' : r.tx = s.tx => r = s
    BY <2>2
  <2>5. QED
    BY <2>1, <2>2, <2>3, <2>4 DEF JobInv
\* Take(r) with a status other than "invalid" written, or nothing
<1>2. ASSUME NEW r \in todo, Take(r),
             \/ UNCHANGED txStatus
             \/ \E s \in {"sent", "completed", "sign-failed"} :
                  /\ txStatus[r.tx] # "absent"
                  /\ txStatus' = [txStatus EXCEPT ![r.tx] = s],
             \/ UNCHANGED <<jobPc, cur>>
             \/ jobPc' \in {"sign", "advance"} /\ cur' = r.tx
      PROVE  Goal
  <2>1. /\ UNCHANGED txSignSemaphore
        /\ jobPc = "run" /\ todo' = todo \ {r}
    BY <1>2 DEF Take
  <2>2. \A u \in Txs : txStatus'[u] = "invalid" => txStatus[u] = "invalid"
    BY <1>2, <1>j DEF DatabaseTypeOK
  <2>3. \A u \in Txs : IsValidRow(u)' => IsValidRow(u)
    BY <1>2, <1>j, <1>row DEF DatabaseTypeOK, JobInv
  <2>4. JobInv'
    BY <1>2, <1>j, <1>row, <2>1, <2>2 DEF JobInv
  <2>5. QED
    BY <2>1, <2>3, <2>4
\* setTransactionAsInvalid
<1>3. ASSUME NEW r \in todo, Take(r), SetTransactionAsInvalid(r.tx)
      PROVE  Goal
  <2>1. /\ UNCHANGED txSignSemaphore
        /\ jobPc = "run" /\ todo' = todo \ {r}
    BY <1>3 DEF Take
  <2>2. /\ \A u \in Txs \ {r.tx} : txStatus'[u] = txStatus[u]
        /\ txStatus'[r.tx] \in {"absent", "invalid"}
    BY <1>3, <1>j, <1>row DEF SetTransactionAsInvalid, setTxStatus, DatabaseTypeOK
  <2>3. \/ UNCHANGED <<jobPc, cur>>
        \/ jobPc' \in {"reset", "reset-unexpected"} /\ cur' = r.tx
    BY <1>3 DEF SetTransactionAsInvalid, GoTo
  <2>4. JobInv'
    BY ZenonT(40), <1>j, <1>row, <2>1, <2>2, <2>3 DEF JobInv
  <2>5. QED
    BY <2>1, <2>2, <2>4
<1>4. ASSUME NEW r \in todo, TakeAny(r)
      PROVE  Goal
  <2> USE DEF GoTo, tables, setTxStatus
  <2>1. CASE LeaveTx(r)
    BY <1>2, <2>1 DEF LeaveTx
  <2>2. CASE ProcessApprovedTx(r)
    BY <1>2, <2>2 DEF ProcessApprovedTx
  <2>3. CASE ProcessInSignTx(r)
    BY <1>2, <2>3, <1>j, <1>row DEF ProcessInSignTx, setTxAsSignFailed, DatabaseTypeOK
  <2>4. CASE ProcessSignFailedTx(r)
    <3>1. Take(r)
      BY <2>4 DEF ProcessSignFailedTx
    <3>2. CASE setTxStatus(r.tx, "sent") /\ UNCHANGED <<jobPc, cur>>
      BY <1>2, <1>j, <1>row, <3>1, <3>2 DEF DatabaseTypeOK
    <3>3. CASE GoTo("sign", r.tx) /\ UNCHANGED tables
      BY <1>2, <3>1, <3>3
    <3>4. CASE SetTransactionAsInvalid(r.tx)
      BY <1>3, <3>1, <3>4
    <3>5. QED
      BY <2>4, <3>2, <3>3, <3>4 DEF ProcessSignFailedTx
  <2>5. CASE ProcessSignedTx(r)
    BY <1>2, <2>5, <1>j, <1>row DEF ProcessSignedTx, DatabaseTypeOK
  <2>6. CASE ProcessSentTx(r)
    <3>1. Take(r)
      BY <2>6 DEF ProcessSentTx
    <3>2. CASE /\ setTxStatus(r.tx, "completed")
               /\ UNCHANGED <<jobPc, cur>> \/ GoTo("advance", r.tx)
      BY ZenonT(40), <1>2, <1>j, <1>row, <3>1, <3>2 DEF DatabaseTypeOK
    <3>3. CASE SetTransactionAsInvalid(r.tx)
      BY <1>3, <3>1, <3>3
    <3>4. QED
      BY <2>6, <3>2, <3>3 DEF ProcessSentTx
  <2>7. QED
    BY <1>4, <2>1, <2>2, <2>3, <2>4, <2>5, <2>6 DEF TakeAny
<1>5. CASE SendToSign
  <2>1. /\ cur \in Txs /\ txStatus[cur] # "invalid"
        /\ txStatus' = [txStatus EXCEPT ![cur] =
                          IF @ = "absent" THEN "absent" ELSE "in-sign"]
        /\ jobPc' = "run" /\ UNCHANGED <<todo, txSignSemaphore>>
    BY <1>5, <1>j DEF SendToSign, setTxStatus, JobInv, Continue, GoTo
  <2>2. \A u \in Txs : /\ txStatus'[u] = "invalid" => txStatus[u] = "invalid"
                       /\ IsValidRow(u)' => IsValidRow(u)
    BY <2>1, <1>j DEF DatabaseTypeOK
  <2>3. QED
    BY <2>1, <2>2, <1>j, <1>row DEF JobInv
<1>6. CASE AdvanceEvent \/ ResetEvent \/ NotifyFails
  <2>1. UNCHANGED <<txStatus, todo, txSignSemaphore>> /\ jobPc' = "run"
    BY <1>6 DEF AdvanceEvent, ResetEvent, NotifyFails, setEventStatus,
                setEventStatusToPending, tables, Continue, GoTo
  <2>2. QED
    BY <2>1, <1>j DEF JobInv
<1>7. ASSUME NEW t \in Txs, HandleSuccessfulSign(t)
      PROVE  Goal
  <2>1. /\ UNCHANGED <<txSignSemaphore, jobVars>>
        /\ txStatus' = [txStatus EXCEPT ![t] =
                          IF @ = "absent" THEN "absent" ELSE "signed"]
    BY <1>7 DEF HandleSuccessfulSign, Answered, updateWithSignedTx, setTxStatus
  <2>2. \A u \in Txs : txStatus'[u] = "invalid" => txStatus[u] = "invalid"
    BY <2>1, <1>j DEF DatabaseTypeOK
  <2>3. \A u \in Txs : IsValidRow(u)' => IsValidRow(u) \/ u \in resurrected'
    BY <1>0, <2>1, <1>j DEF DatabaseTypeOK
  <2>4. QED
    BY <2>1, <2>2, <2>3, <1>j, JobInvKept
<1>8. ASSUME NEW t \in Txs, HandleFailedSign(t) \/ ChainStep(t)
      PROVE  Goal
  <2>1. /\ UNCHANGED <<txSignSemaphore, jobVars>>
        /\ \/ UNCHANGED txStatus
           \/ txStatus' = [txStatus EXCEPT ![t] =
                             IF @ = "in-sign" THEN "sign-failed" ELSE @]
    BY <1>8 DEF HandleFailedSign, ChainStep, Answered, setTxAsSignFailed, tables
  <2>2. \A u \in Txs : /\ txStatus'[u] = "invalid" => txStatus[u] = "invalid"
                       /\ IsValidRow(u)' => IsValidRow(u)
    BY <2>1, <1>j DEF DatabaseTypeOK
  <2>3. JobInv'
    BY <2>1, <2>2, <1>j, JobInvKept
  <2>4. QED
    BY <2>1, <2>2, <2>3
<1>9. QED
  BY <1>s, <1>1, <1>4, <1>5, <1>6, <1>7, <1>8 DEF ProcessorNext, JobNext

\* A restart frees the semaphore and leaves no handler in a write.
LEMMA RestartKeepsSlot ==
  ASSUME TypeOK, SlotInv, Restart
  PROVE  SlotInv'
<1>1. \A h \in Handlers : handler'[h].pc = "idle"
  BY DEF Restart, IdleHandler
<1>2. LockInv' /\ InsertInv'
  BY <1>1, TxApprovalAssumption DEF Restart, LockInv, InsertInv
<1>3. JobInv'
  BY DEF Restart, JobInv, Continue, GoTo
<1>4. OneValidTx'
  BY DEF Restart, SlotInv, OneValidTx, IsValidRow, tables
<1>5. QED
  BY <1>2, <1>3, <1>4 DEF SlotInv

\* An empty table has at most one valid tx per slot.
LEMMA InitSlot == Init => SlotInv
BY TxApprovalAssumption
   DEF Init, DatabaseInit, TxApprovalInit, ProcessorInit, IdleHandler, SlotInv,
       LockInv, InsertInv, JobInv, OneValidTx, IsValidRow

\* SlotInv is inductive.
LEMMA NextKeepsSlot ==
  ASSUME TypeOK, SlotInv, [Next]_vars
  PROVE  SlotInv'
<1>1. CASE UNCHANGED vars
  BY <1>1, Untouched DEF vars, tables, approvalVars, processorVars, jobVars
<1>2. QED
  BY <1>1, ApprovalKeepsSlot, EventsKeepSlot, ProcessorKeepsSlot,
     RestartKeepsSlot DEF Next

\* The inductive invariant holds of every guard.
THEOREM SlotInvariant == Spec => []SlotInv
<1>1. Init => SlotInv
  BY InitSlot
<1>2. TypeOK /\ SlotInv /\ [Next]_vars => SlotInv'
  BY NextKeepsSlot
<1>3. QED
  BY <1>1, <1>2, TypeCorrect, PTL DEF Spec

\* README's single transaction for an event: a guard's table never holds two
\* valid txs of one event and type, unless a signature arrived after one of
\* them had been set as invalid.
THEOREM OneValidTxAlways == Spec => []OneValidTx
<1>1. SlotInv => OneValidTx
  BY DEF SlotInv
<1>2. QED
  BY <1>1, SlotInvariant, PTL

\* The signing rule of txSignSemaphore: no tx is handed to the signer while an
\* insertion is between its read and its write.
THEOREM NoSignDuringInsertAlways == Spec => NoSignDuringInsert
<1> DEFINE Signs == \E t \in Txs : signing'[t] > signing[t]
           Quiet == \A h \in Handlers : handler[h].pc # "write"
<1>1. ASSUME TypeOK, SlotInv, Next, Signs
      PROVE  Quiet
  <2>1. \A t \in Txs : signing[t] \in 0 .. MaxSign
    BY <1>1 DEF TypeOK, ProcessorTypeOK
  <2>2. CASE UNCHANGED signing \/ signing' = [t \in Txs |-> 0]
    BY <1>1, <2>1, <2>2, MaxSignAssumption
  <2>3. CASE SendToSign
    BY <1>1, <2>3, TxApprovalAssumption DEF SendToSign, SlotInv, LockInv
  <2>4. CASE \E t \in Txs : Answered(t)
    <3>1. PICK t \in Txs : signing' = [signing EXCEPT ![t] = @ - 1]
      BY <2>4 DEF Answered
    <3>2. \A u \in Txs : signing'[u] \in {signing[u], signing[u] - 1}
      BY <1>1, <3>1 DEF TypeOK, ProcessorTypeOK
    <3>3. QED
      BY <1>1, <2>1, <3>2, MaxSignAssumption
  <2>5. \/ UNCHANGED signing \/ signing' = [t \in Txs |-> 0]
        \/ SendToSign \/ \E t \in Txs : Answered(t)
    <3>1. CASE Approval(TxApprovalNext) \/ Jobs(EventProcessorNext) \/ Restart
      BY <3>1 DEF Approval, Jobs, Restart, processorVars
    <3>2. CASE Processor(ProcessorNext)
      BY <3>2 DEF Processor, ProcessorNext, JobNext, TakeAny, Take,
         ProcessTransactions, LeaveTx, ProcessApprovedTx, ProcessInSignTx,
         ProcessSignFailedTx, ProcessSignedTx, ProcessSentTx, AdvanceEvent,
         ResetEvent, NotifyFails, ChainStep, HandleSuccessfulSign,
         HandleFailedSign
    <3>3. QED
      BY <1>1, <3>1, <3>2 DEF Next
  <2>6. QED
    BY <2>2, <2>3, <2>4, <2>5
<1>2. TypeOK /\ SlotInv /\ [Next]_vars => [Signs => Quiet]_vars
  BY <1>1
<1>3. QED
  BY <1>2, TypeCorrect, SlotInvariant, PTL DEF Spec, NoSignDuringInsert

\* A tx that was given up comes back by its signature or not at all: neither
\* the approvals nor the stale rows of the transaction job make it valid.
THEOREM InvalidOnlyRevivedBySignatureAlways ==
  Spec => InvalidOnlyRevivedBySignature
<1> DEFINE Final == \A t \in Txs : txStatus[t] = "invalid" =>
                      \/ txStatus'[t] \in {"invalid", "absent"}
                      \/ txStatus'[t] = "signed" /\ signing[t] > 0
<1>1. ASSUME TypeOK, SlotInv, Next
      PROVE  Final
  <2>0. DatabaseTypeOK /\ JobInv /\ \A r \in todo : r.tx \in Txs
    BY <1>1 DEF TypeOK, SlotInv, ProcessorTypeOK, TxRow
  <2>u. ASSUME UNCHANGED txStatus
        PROVE  Final
    BY <2>u
  <2>1. CASE \E h \in Handlers : InsertTxWrite(h)
    <3>1. PICK h \in Handlers : InsertTxWrite(h)
      BY <2>1
    <3> DEFINE s == handler[h]
    <3>2. CASE CanInsert(s.tx) /\ insertNewTx(s.tx)
      BY <2>0, <3>2 DEF CanInsert, insertNewTx, DatabaseTypeOK
    <3>3. CASE CanInsert(s.tx) /\ replaceTx(s.old, s.tx)
      BY <2>0, <3>3 DEF CanInsert, replaceTx, DatabaseTypeOK
    <3>4. QED
      BY <2>u, <3>1, <3>2, <3>3 DEF InsertTxWrite, tables, resetFailedInSign
  \* a write of the job is to a row that is not invalid, or writes "invalid"
  <2>2. CASE JobNext
    <3>1. ASSUME NEW t \in Txs, NEW st, setTxStatus(t, st),
                 txStatus[t] # "invalid" \/ st = "invalid"
          PROVE  Final
      BY <2>0, <3>1 DEF setTxStatus, DatabaseTypeOK
    <3>2. ASSUME NEW t, setTxAsSignFailed(t)
          PROVE  Final
      BY <2>0, <3>2 DEF setTxAsSignFailed, DatabaseTypeOK
    <3>3. ASSUME NEW r \in todo, TakeAny(r)
          PROVE  Final
      <4>1. r.tx \in Txs /\ txStatus[r.tx] # "invalid"
        BY <2>0 DEF JobInv
      <4>2. \/ UNCHANGED txStatus
            \/ setTxAsSignFailed(r.tx)
            \/ \E st : setTxStatus(r.tx, st)
        BY <3>3 DEF TakeAny, LeaveTx, ProcessApprovedTx, ProcessInSignTx,
           ProcessSignFailedTx, ProcessSignedTx, ProcessSentTx,
           SetTransactionAsInvalid, tables
      <4>3. QED
        BY <2>u, <3>1, <3>2, <4>1, <4>2
    <3>4. CASE SendToSign
      BY <2>0, <3>1, <3>4 DEF SendToSign, JobInv
    <3>5. CASE ProcessTransactions \/ AdvanceEvent \/ ResetEvent \/ NotifyFails
      BY <2>u, <3>5 DEF ProcessTransactions, AdvanceEvent, ResetEvent,
         NotifyFails, setEventStatusToPending, setEventStatus, tables
    <3>6. QED
      BY <2>2, <3>3, <3>4, <3>5 DEF JobNext
  <2>3. CASE \E t \in Txs : HandleSuccessfulSign(t)
    <3>1. PICK t \in Txs : signing[t] > 0 /\ setTxStatus(t, "signed")
      BY <2>3 DEF HandleSuccessfulSign, Answered, updateWithSignedTx
    <3>2. QED
      BY <2>0, <3>1 DEF setTxStatus, DatabaseTypeOK
  <2>4. CASE \E t \in Txs : HandleFailedSign(t) \/ ChainStep(t)
    <3>1. PICK t \in Txs : UNCHANGED txStatus \/ setTxAsSignFailed(t)
      BY <2>4 DEF HandleFailedSign, ChainStep, tables
    <3>2. QED
      BY <2>0, <2>u, <3>1 DEF setTxAsSignFailed, DatabaseTypeOK
  <2>5. CASE Approval(TxApprovalNext) /\ ~\E h \in Handlers : InsertTxWrite(h)
    <3>1. UNCHANGED txStatus
      BY <2>5 DEF Approval, TxApprovalNext, HandlerNext, Agree, SkipInvalid,
         RejectRequest, EnqueueSignFailedTxs, ClearTransactions,
         SetTxAsApproved, ManualRequest, InsertTxRead,
         UpdateEventOfApprovedTx, setEventStatus, tables
    <3>2. QED
      BY <2>u, <3>1
  <2>6. CASE Jobs(EventProcessorNext)
    BY <2>u, <2>6, EventJobsWriteNoTx DEF Jobs
  <2>7. CASE Restart
    BY <2>u, <2>7 DEF Restart, tables
  <2>8. QED
    BY <1>1, <2>1, <2>2, <2>3, <2>4, <2>5, <2>6, <2>7
       DEF Next, Processor, ProcessorNext
<1>2. TypeOK /\ SlotInv /\ [Next]_vars => [Final]_vars
  BY <1>1
<1>3. QED
  BY <1>2, TypeCorrect, SlotInvariant, PTL DEF Spec,
     InvalidOnlyRevivedBySignature

-----------------------------------------------------------------------------
(* The order of payment and reward: PaymentInv is inductive *)

\* A confirmed tx stays confirmed, so what is paid stays paid.
LEMMA PaidStays ==
  ASSUME TypeOK, [Next]_vars
  PROVE  /\ \A t \in Txs : onchain[t] = "confirmed" => onchain'[t] = "confirmed"
         /\ \A e : RewardDue(e) => RewardDue(e)'
         /\ \A e : Paid(e) => Paid(e)'
         /\ \A e : Rewarded(e) => Rewarded(e)'
<1>1. \A t \in Txs : onchain[t] = "confirmed" => onchain'[t] = "confirmed"
  <2>1. CASE UNCHANGED onchain
    BY <2>1
  <2>2. ASSUME NEW t \in Txs, ChainStep(t)
        PROVE  \A u \in Txs : onchain[u] = "confirmed" => onchain'[u] = "confirmed"
    BY <2>2 DEF ChainStep, TypeOK, ProcessorTypeOK
  <2>3. UNCHANGED onchain \/ \E t \in Txs : ChainStep(t)
    <3>1. CASE \/ Approval(TxApprovalNext) \/ Jobs(EventProcessorNext)
               \/ Restart \/ UNCHANGED vars
      BY <3>1 DEF Approval, Jobs, Restart, processorVars, vars
    <3>2. CASE Processor(ProcessorNext)
      BY <3>2 DEF Processor, ProcessorNext, JobNext, TakeAny, Take,
         ProcessTransactions, LeaveTx, ProcessApprovedTx, ProcessInSignTx,
         ProcessSignFailedTx, ProcessSignedTx, ProcessSentTx, SendToSign,
         AdvanceEvent, ResetEvent, NotifyFails, HandleSuccessfulSign,
         HandleFailedSign, Answered
    <3>3. QED
      BY <3>1, <3>2 DEF Next
  <2>4. QED
    BY <2>1, <2>2, <2>3
<1>2. QED
  BY <1>1 DEF RewardDue, Paid, Rewarded

\* A step brings no event up for reward and completes none undeservedly.
EventsDeserve ==
  \A e \in Events :
    /\ evStatus'[e] \in RewardStatuses =>
         evStatus[e] \in RewardStatuses \/ RewardDue(e)
    /\ evStatus'[e] = "completed" =>
         \/ evStatus[e] = "completed"
         \/ Paid(e) /\ (e \notin ErgoEvents => Rewarded(e))

\* A step makes no reward tx a candidate or a row unless it is due.
TxsDeserve ==
  /\ \A t \in candidates' : t \in candidates \/ RewardTxDue(t)
  /\ \A t \in Txs : txStatus'[t] # "absent" =>
       txStatus[t] # "absent" \/ RewardTxDue(t)

\* A step whose writes are deserved keeps both payment properties.
LEMMA DeservedKept ==
  ASSUME TypeOK, [Next]_vars, PaymentInv, EventsDeserve, TxsDeserve
  PROVE  RewardAfterPayment' /\ CompletedEventWasPaid'
<1>1. RewardAfterPayment'
  BY PaidStays DEF PaymentInv, RewardAfterPayment, RewardTxDue, EventsDeserve,
                   TxsDeserve
<1>2. CompletedEventWasPaid'
  BY PaidStays DEF PaymentInv, CompletedEventWasPaid, EventsDeserve
<1>3. QED
  BY <1>1, <1>2

\* Writing one event: the others keep their status, and the txs theirs.
LEMMA EventWrite ==
  ASSUME TypeOK, NEW e, NEW st, NEW b, setEventStatus(e, st, b)
  PROVE  /\ UNCHANGED txStatus
         /\ \A x \in Events :
              evStatus'[x] = evStatus[x] \/ (x = e /\ evStatus'[x] = st)
BY DEF setEventStatus, TypeOK, DatabaseTypeOK

\* The updates of a tx row insert none and leave the events alone.
LEMMA TxWrite ==
  ASSUME TypeOK, NEW t,
         \/ \E st : setTxStatus(t, st)
         \/ setTxAsSignFailed(t)
         \/ resetFailedInSign(t)
  PROVE  /\ UNCHANGED evStatus
         /\ \A u \in Txs : txStatus'[u] # "absent" => txStatus[u] # "absent"
BY DEF setTxStatus, setTxAsSignFailed, resetFailedInSign, TypeOK, DatabaseTypeOK

\* A write of an event that deserves its status.
LEMMA DeservedWrite ==
  ASSUME TypeOK, NEW e, NEW st, NEW b, setEventStatus(e, st, b),
         candidates' \subseteq candidates,
         st \in RewardStatuses => RewardDue(e),
         st = "completed" => Paid(e) /\ (e \notin ErgoEvents => Rewarded(e))
  PROVE  EventsDeserve /\ TxsDeserve
<1>1. EventsDeserve
  BY EventWrite DEF EventsDeserve
<1>2. TxsDeserve
  BY EventWrite DEF TxsDeserve
<1>3. QED
  BY <1>1, <1>2

\* An event status that says nothing of the reward.
LEMMA PlainStatus ==
  ASSUME TypeOK, NEW e, NEW b, candidates' \subseteq candidates,
         NEW st \in EventStatus \ (RewardStatuses \cup {"completed"}),
         setEventStatus(e, st, b)
  PROVE  EventsDeserve /\ TxsDeserve
BY DeservedWrite

\* A step that writes no row only has to deserve its new candidates.
LEMMA NothingWritten ==
  ASSUME UNCHANGED tables,
         \A t \in candidates' : t \in candidates \/ RewardTxDue(t)
  PROVE  EventsDeserve /\ TxsDeserve
BY DEF EventsDeserve, TxsDeserve, tables

\* A candidate or a row of the table is due.
LEMMA KnownTxDue ==
  ASSUME PaymentInv, NEW t \in Txs, t \in candidates \/ txStatus[t] # "absent"
  PROVE  RewardTxDue(t)
BY DEF PaymentInv, RewardAfterPayment, RewardTxDue

-----------------------------------------------------------------------------
(* Approvals *)

\* A handler carries a candidate or a manual tx, and keeps it.
LEMMA HandlersDueKept ==
  ASSUME TypeOK, [Next]_vars, HandlersDue,
         \A h \in Handlers : handler'[h].pc # "idle" =>
           \/ handler[h].pc # "idle" /\ handler'[h].tx = handler[h].tx
           \/ handler'[h].tx \in Txs /\ RewardTxDue(handler'[h].tx)
  PROVE  HandlersDue'
<1>1. \A t \in Txs : RewardTxDue(t) => RewardTxDue(t)'
  BY PaidStays DEF RewardTxDue
<1>2. SUFFICES ASSUME NEW h \in Handlers, handler'[h].pc # "idle"
               PROVE  handler'[h].tx \in Txs /\ RewardTxDue(handler[h].tx)'
  BY DEF HandlersDue
<1>3. handler'[h].tx \in Txs /\ RewardTxDue(handler'[h].tx)
  BY <1>2 DEF HandlersDue
<1>4. QED
  BY <1>1, <1>3 DEF RewardTxDue

\* One step per action of TxApproval.
LEMMA ApprovalDeserved ==
  ASSUME TypeOK, PaymentInv, TxApprovalNext
  PROVE  EventsDeserve /\ TxsDeserve
<1> USE DEF approvalVars
<1>st. {"rejected", "in-payment", "in-reward"} \subseteq EventStatus
       /\ "in-reward" \in RewardStatuses
       /\ {"rejected", "in-payment"} \cap (RewardStatuses \cup {"completed"}) = {}
  BY DEF EventStatus, RewardStatuses
<1>1. ASSUME NEW t \in Txs, Agree(t)
      PROVE  EventsDeserve /\ TxsDeserve
  <2>1. RewardTxDue(t)
    <3>1. SUFFICES ASSUME TypeOf[t] = "reward"
                   PROVE  RewardDue(EventOf[t])
      BY DEF RewardTxDue
    <3>2. verifyEventTransactionRequest(t)
      BY <1>1, <3>1 DEF Agree, EventTypes
    <3>3. EventOf[t] \in Events
      BY <3>1, DatabaseAssumption DEF EventTypes
    <3>4. CASE t \in getEventValidTxsByType(EventOf[t], TypeOf[t])
      BY <3>1, <3>4, KnownTxDue
         DEF getEventValidTxsByType, IsValidRow, RewardTxDue
    <3>5. CASE isEventPendingToType(EventOf[t], TypeOf[t])
      BY <3>1, <3>3, <3>5
         DEF isEventPendingToType, RewardStatuses, PaymentInv, RewardAfterPayment
    <3>6. QED
      BY <3>2, <3>4, <3>5 DEF verifyEventTransactionRequest
  <2>2. QED
    BY <1>1, <2>1, NothingWritten DEF Agree
<1>2. ASSUME NEW t \in Txs, SkipInvalid(t)
      PROVE  EventsDeserve /\ TxsDeserve
  BY <1>2, NothingWritten DEF SkipInvalid
<1>3. ASSUME NEW e \in Events, RejectRequest(e)
      PROVE  EventsDeserve /\ TxsDeserve
  BY <1>3, <1>st, PlainStatus DEF RejectRequest
<1>4. CASE EnqueueSignFailedTxs
  <2>1. \A t \in candidates' : t \in candidates \/ RewardTxDue(t)
    BY <1>4, KnownTxDue DEF EnqueueSignFailedTxs, getUnsignedFailedSignTxs
  <2>2. QED
    BY <1>4, <2>1, NothingWritten DEF EnqueueSignFailedTxs
<1>5. CASE ClearTransactions
  BY <1>5, NothingWritten DEF ClearTransactions
<1>6. ASSUME NEW h \in Handlers, NEW t \in Txs,
             SetTxAsApproved(h, t) \/ ManualRequest(h, t)
      PROVE  EventsDeserve /\ TxsDeserve
  BY <1>6, NothingWritten DEF SetTxAsApproved, ManualRequest
<1>7. ASSUME NEW h \in Handlers, InsertTxRead(h)
      PROVE  EventsDeserve /\ TxsDeserve
  BY <1>7, NothingWritten DEF InsertTxRead
<1>8. ASSUME NEW h \in Handlers, InsertTxWrite(h)
      PROVE  EventsDeserve /\ TxsDeserve
  <2> DEFINE s == handler[h]
  <2>1. s.tx \in Txs /\ RewardTxDue(s.tx)
    BY <1>8 DEF InsertTxWrite, PaymentInv, HandlersDue
  <2>2. candidates' \subseteq candidates
    BY <1>8 DEF InsertTxWrite
  <2>3. CASE UNCHANGED tables
    BY <2>2, <2>3, NothingWritten
  <2>4. CASE resetFailedInSign(s.tx)
    BY <2>2, <2>4, TxWrite DEF EventsDeserve, TxsDeserve
  <2>5. CASE insertNewTx(s.tx)
    BY <2>1, <2>2, <2>5
       DEF insertNewTx, EventsDeserve, TxsDeserve, TypeOK, DatabaseTypeOK
  <2>6. CASE replaceTx(s.old, s.tx)
    BY <2>1, <2>2, <2>6
       DEF replaceTx, EventsDeserve, TxsDeserve, TypeOK, DatabaseTypeOK
  <2>7. QED
    BY <1>8, <2>3, <2>4, <2>5, <2>6 DEF InsertTxWrite
<1>9. ASSUME NEW h \in Handlers, UpdateEventOfApprovedTx(h)
      PROVE  EventsDeserve /\ TxsDeserve
  <2> DEFINE t == handler[h].tx
  <2>1. t \in Txs /\ RewardTxDue(t)
    BY <1>9 DEF UpdateEventOfApprovedTx, PaymentInv, HandlersDue
  <2>2. candidates' \subseteq candidates
    BY <1>9 DEF UpdateEventOfApprovedTx
  <2>3. CASE UNCHANGED tables
    BY <2>2, <2>3, NothingWritten
  <2>4. CASE setEventStatus(EventOf[t], "in-payment", FALSE)
    BY <1>st, <2>2, <2>4, PlainStatus
  <2>5. CASE TypeOf[t] = "reward" /\ setEventStatus(EventOf[t], "in-reward", FALSE)
    <3>1. RewardDue(EventOf[t])
      BY <2>1, <2>5 DEF RewardTxDue
    <3>2. "in-reward" # "completed"
      OBVIOUS
    <3>3. QED
      BY <2>2, <2>5, <3>1, <3>2, DeservedWrite
  <2>6. QED
    BY <1>9, <2>3, <2>4, <2>5 DEF UpdateEventOfApprovedTx
<1>10. QED
  BY <1>1, <1>2, <1>3, <1>4, <1>5, <1>6, <1>7, <1>8, <1>9
     DEF TxApprovalNext, HandlerNext

\* The tx of a handler was a candidate, or is a manual one.
LEMMA ApprovalKeepsHandlersDue ==
  ASSUME TypeOK, PaymentInv, TxApprovalNext, [Next]_vars
  PROVE  HandlersDue'
<1> DEFINE Carried ==
      \A h \in Handlers : handler'[h].pc # "idle" =>
        \/ handler[h].pc # "idle" /\ handler'[h].tx = handler[h].tx
        \/ handler'[h].tx \in Txs /\ RewardTxDue(handler'[h].tx)
<1>h. handler \in [Handlers -> HandlerState]
  BY DEF TypeOK, TxApprovalTypeOK
<1> USE DEF approvalVars
<1>1. ASSUME UNCHANGED handler
      PROVE  Carried
  BY <1>1
<1>2. ASSUME NEW h \in Handlers, NEW t \in Txs,
             SetTxAsApproved(h, t) \/ ManualRequest(h, t)
      PROVE  Carried
  <2>1. RewardTxDue(t)
    BY <1>2, KnownTxDue DEF SetTxAsApproved, ManualRequest, RewardTxDue
  <2>2. /\ handler'[h].tx = t
        /\ \A g \in Handlers \ {h} : handler'[g] = handler[g]
    BY ZenonT(40), <1>2, <1>h DEF SetTxAsApproved, ManualRequest, IdleHandler
  <2>3. QED
    BY <2>1, <2>2
<1>3. ASSUME NEW h \in Handlers, HandlerNext(h)
      PROVE  Carried
  <2>1. \A g \in Handlers \ {h} : handler'[g] = handler[g]
    BY <1>3, <1>h DEF HandlerNext, InsertTxRead, InsertTxWrite,
       UpdateEventOfApprovedTx, Finish
  <2>2. handler[h].pc # "idle"
    BY <1>3 DEF HandlerNext, InsertTxRead, InsertTxWrite, UpdateEventOfApprovedTx
  <2>3. handler'[h].pc = "idle" \/ handler'[h].tx = handler[h].tx
    <3>1. CASE InsertTxRead(h)
      BY <3>1, <1>h DEF InsertTxRead, HandlerState
    <3>2. CASE InsertTxWrite(h)
      BY <3>2, <1>h DEF InsertTxWrite, Finish, IdleHandler, HandlerState
    <3>3. CASE UpdateEventOfApprovedTx(h)
      BY <3>3, <1>h DEF UpdateEventOfApprovedTx, Finish, IdleHandler
    <3>4. QED
      BY <1>3, <3>1, <3>2, <3>3 DEF HandlerNext
  <2>4. QED
    BY <2>1, <2>2, <2>3
<1>4. Carried
  BY <1>1, <1>2, <1>3 DEF TxApprovalNext, Agree, SkipInvalid, RejectRequest,
     EnqueueSignFailedTxs, ClearTransactions
<1>5. QED
  BY <1>4, HandlersDueKept DEF PaymentInv

-----------------------------------------------------------------------------
(* Event jobs *)

\* The rows a job reads are due, and stay so while it works through them.
LEMMA EventRowsDueKept ==
  ASSUME TypeOK, [Next]_vars, PaymentInv,
         \A r \in confirmedTodo' \cup requeueTodo' :
           \/ r \in confirmedTodo \cup requeueTodo
           \/ r \in Rows(Events)
  PROVE  EventRowsDue'
<1>1. \A r \in Rows(Events) : r.status \in RewardStatuses => RewardDue(r.event)
  BY DEF Rows, PaymentInv, RewardAfterPayment
<1>2. SUFFICES ASSUME NEW r \in confirmedTodo' \cup requeueTodo',
                      r.status \in RewardStatuses
               PROVE  RewardDue(r.event)'
  BY DEF EventRowsDue
<1>3. RewardDue(r.event)
  BY <1>1, <1>2 DEF PaymentInv, EventRowsDue
<1>4. QED
  BY <1>3, PaidStays DEF RewardDue

\* The event jobs carry rows that were due when they were read.
LEMMA EventJobsKeepRows ==
  ASSUME TypeOK, PaymentInv, EventProcessorNext, [Next]_vars
  PROVE  EventRowsDue'
<1> DEFINE Known == \A r \in confirmedTodo' \cup requeueTodo' :
                      \/ r \in confirmedTodo \cup requeueTodo
                      \/ r \in Rows(Events)
<1>r. ASSUME NEW S
      PROVE  Rows(getEventsByStatuses(S)) \subseteq Rows(Events)
  BY DEF Rows, getEventsByStatuses
<1>1. ASSUME confirmedTodo' \subseteq confirmedTodo,
             requeueTodo' \subseteq requeueTodo
      PROVE  Known
  BY <1>1
<1>2. ASSUME StartConfirmedEvents \/ StartRequeue
      PROVE  Known
  BY <1>2, <1>r DEF StartConfirmedEvents, StartRequeue
<1>3. \/ StartConfirmedEvents \/ StartRequeue
      \/ confirmedTodo' \subseteq confirmedTodo /\ requeueTodo' \subseteq requeueTodo
  BY DEF EventProcessorNext, ProcessScannedEvents, TimeoutEvent,
     AbortConfirmedEvents, SpentEvent, ReachedLimitEvent, RejectEvent,
     NotEnoughAssets, LeaveEvent, CreateTx, StartTimeout, RequeueEvent,
     TakeConfirmed, eventJobVars
<1>4. Known
  BY <1>1, <1>2, <1>3
<1>5. QED
  BY <1>4, EventRowsDueKept

\* One step per action of EventProcessor.
LEMMA EventJobsDeserved ==
  ASSUME TypeOK, PaymentInv, EventProcessorNext
  PROVE  EventsDeserve /\ TxsDeserve
<1> USE DEF approvalVars, TakeConfirmed
<1> DEFINE Plain == EventStatus \ (RewardStatuses \cup {"completed"})
<1>st. {"spent", "reached-limit", "rejected", "timeout", "payment-waiting",
        "pending-payment"} \subseteq Plain
  BY DEF EventStatus, RewardStatuses
<1>row. \A r \in confirmedTodo \cup requeueTodo :
          r.status \in RewardStatuses => RewardDue(r.event)
  BY DEF PaymentInv, EventRowsDue
<1>w. ASSUME NEW r \in confirmedTodo \cup requeueTodo,
             r.status \in RewardStatuses, UNCHANGED candidates,
             NEW st \in RewardStatuses, setEventStatus(r.event, st, FALSE)
      PROVE  EventsDeserve /\ TxsDeserve
  <2>1. RewardDue(r.event) /\ st # "completed"
    BY <1>w, <1>row DEF RewardStatuses
  <2>2. QED
    BY <1>w, <2>1, DeservedWrite
<1>1. ASSUME NEW e \in Events, ProcessScannedEvents(e)
      PROVE  EventsDeserve /\ TxsDeserve
  BY <1>1 DEF ProcessScannedEvents, insertConfirmedEvent, EventsDeserve,
     TxsDeserve, RewardStatuses, TypeOK, DatabaseTypeOK
<1>2. ASSUME NEW e \in Events, TimeoutEvent(e)
      PROVE  EventsDeserve /\ TxsDeserve
  BY <1>2, <1>st, PlainStatus, NothingWritten DEF TimeoutEvent
<1>3. CASE \/ StartConfirmedEvents \/ AbortConfirmedEvents
           \/ StartTimeout \/ StartRequeue
  BY <1>3, NothingWritten
     DEF StartConfirmedEvents, AbortConfirmedEvents, StartTimeout, StartRequeue
<1>4. ASSUME NEW r \in confirmedTodo,
             SpentEvent(r) \/ ReachedLimitEvent(r) \/ RejectEvent(r)
      PROVE  EventsDeserve /\ TxsDeserve
  BY <1>4, <1>st, PlainStatus DEF SpentEvent, ReachedLimitEvent, RejectEvent
<1>5. ASSUME NEW r \in confirmedTodo, NotEnoughAssets(r)
      PROVE  EventsDeserve /\ TxsDeserve
  <2>1. CASE setEventStatus(r.event, "payment-waiting", FALSE)
    BY <1>5, <1>st, <2>1, PlainStatus DEF NotEnoughAssets
  <2>2. CASE /\ r.status = "pending-reward"
             /\ setEventStatus(r.event, "reward-waiting", FALSE)
    BY <1>5, <1>w, <2>2 DEF NotEnoughAssets, RewardStatuses
  <2>3. QED
    BY <1>5, <2>1, <2>2 DEF NotEnoughAssets
<1>6. ASSUME NEW r \in confirmedTodo, LeaveEvent(r)
      PROVE  EventsDeserve /\ TxsDeserve
  BY <1>6, NothingWritten DEF LeaveEvent
<1>7. ASSUME NEW r \in confirmedTodo, NEW t \in Txs, CreateTx(r, t)
      PROVE  EventsDeserve /\ TxsDeserve
  <2>1. RewardTxDue(t)
    BY <1>7, <1>row DEF CreateTx, RewardTxDue, RewardStatuses
  <2>2. QED
    BY <1>7, <2>1, NothingWritten DEF CreateTx
<1>8. ASSUME NEW r \in requeueTodo, RequeueEvent(r)
      PROVE  EventsDeserve /\ TxsDeserve
  <2>1. CASE setEventStatus(r.event, "pending-payment", FALSE)
    BY <1>8, <1>st, <2>1, PlainStatus DEF RequeueEvent
  <2>2. CASE /\ r.status = "reward-waiting"
             /\ setEventStatus(r.event, "pending-reward", FALSE)
    BY <1>8, <1>w, <2>2 DEF RequeueEvent, RewardStatuses
  <2>3. QED
    BY <1>8, <2>1, <2>2 DEF RequeueEvent, setEventStatusToPending
<1>9. QED
  BY <1>1, <1>2, <1>3, <1>4, <1>5, <1>6, <1>7, <1>8 DEF EventProcessorNext

-----------------------------------------------------------------------------
(* Transaction job *)

\* One step per action of TransactionProcessor.
LEMMA ProcessorDeserved ==
  ASSUME TypeOK, PaymentInv, ProcessorNext, UNCHANGED candidates
  PROVE  EventsDeserve /\ TxsDeserve
<1>st. {"pending-payment"} \subseteq
         EventStatus \ (RewardStatuses \cup {"completed"})
       /\ "pending-reward" \in RewardStatuses /\ "completed" \notin RewardStatuses
  BY DEF EventStatus, RewardStatuses
<1>n. UNCHANGED tables => EventsDeserve /\ TxsDeserve
  BY NothingWritten
<1>t. ASSUME NEW t, \/ \E st : setTxStatus(t, st)
                     \/ setTxAsSignFailed(t)
      PROVE  EventsDeserve /\ TxsDeserve
  BY <1>t, TxWrite DEF EventsDeserve, TxsDeserve
<1>1. CASE \/ ProcessTransactions \/ NotifyFails
           \/ \E t \in Txs : ChainStep(t)
  BY <1>1, <1>n DEF ProcessTransactions, NotifyFails, ChainStep
<1>2. ASSUME NEW r \in todo, TakeAny(r)
      PROVE  EventsDeserve /\ TxsDeserve
  BY <1>2, <1>n, <1>t DEF TakeAny, LeaveTx, ProcessApprovedTx, ProcessInSignTx,
     ProcessSignFailedTx, ProcessSignedTx, ProcessSentTx, SetTransactionAsInvalid
<1>3. CASE SendToSign
  BY <1>3, <1>t DEF SendToSign
<1>4. ASSUME NEW t \in Txs, HandleSuccessfulSign(t) \/ HandleFailedSign(t)
      PROVE  EventsDeserve /\ TxsDeserve
  BY <1>4, <1>t DEF HandleSuccessfulSign, HandleFailedSign, updateWithSignedTx
<1>5. CASE AdvanceEvent
  <2> DEFINE e == EventOf[cur]
  <2>1. /\ cur \in Txs /\ TypeOf[cur] \in EventTypes
        /\ onchain[cur] = "confirmed" /\ RewardTxDue(cur)
    BY <1>5 DEF AdvanceEvent, PaymentInv, TxJobDue
  <2>2. CASE TypeOf[cur] = "payment" /\ e \notin ErgoEvents
    <3>1. RewardDue(e)
      BY <2>1, <2>2 DEF RewardDue, Paid
    <3>2. setEventStatus(e, "pending-reward", FALSE)
      BY <1>5, <2>2 DEF AdvanceEvent, setEventStatusToPending
    <3>3. QED
      BY <1>st, <3>1, <3>2, DeservedWrite
  <2>3. CASE ~(TypeOf[cur] = "payment" /\ e \notin ErgoEvents)
    <3>1. Paid(e) /\ (e \notin ErgoEvents => Rewarded(e))
      BY <2>1, <2>3 DEF EventTypes, RewardTxDue, RewardDue, Paid, Rewarded
    <3>2. setEventStatus(e, "completed", FALSE)
      BY <1>5, <2>3 DEF AdvanceEvent
    <3>3. QED
      BY <1>st, <3>1, <3>2, DeservedWrite
  <2>4. QED
    BY <2>2, <2>3
<1>6. CASE ResetEvent
  <2> DEFINE e == EventOf[cur]
             b == (jobPc = "reset-unexpected")
  <2>1. TypeOf[cur] \in EventTypes /\ RewardTxDue(cur)
    BY <1>6 DEF ResetEvent, PaymentInv, TxJobDue
  <2>2. CASE setEventStatus(e, "pending-payment", b)
    BY <1>st, <2>2, PlainStatus
  <2>3. CASE TypeOf[cur] # "payment" /\ setEventStatus(e, "pending-reward", b)
    <3>0. "pending-reward" # "completed"
      OBVIOUS
    <3>1. RewardDue(e)
      BY <2>1, <2>3 DEF EventTypes, RewardTxDue
    <3>2. QED
      BY <1>st, <2>3, <3>1, <3>0, DeservedWrite
  <2>4. QED
    BY <1>6, <2>2, <2>3 DEF ResetEvent
<1>7. QED
  BY <1>1, <1>2, <1>3, <1>4, <1>5, <1>6 DEF ProcessorNext, JobNext

\* The transaction job carries txs that were due when they were read.
LEMMA ProcessorKeepsTxJobDue ==
  ASSUME TypeOK, PaymentInv, ProcessorNext, [Next]_vars
  PROVE  TxJobDue'
<1>d. /\ \A t \in Txs : RewardTxDue(t) => RewardTxDue(t)'
      /\ \A t \in Txs : onchain[t] = "confirmed" => onchain'[t] = "confirmed"
  BY PaidStays DEF RewardTxDue
<1>j. /\ \A r \in todo : r.tx \in Txs /\ RewardTxDue(r.tx)
      /\ TxJobDue /\ ProcessorTypeOK
  BY DEF PaymentInv, TxJobDue, TypeOK, ProcessorTypeOK, TxRow
<1>1. CASE ProcessTransactions
  <2>1. \A r \in todo' : r.tx \in Txs /\ RewardTxDue(r.tx)
    <3>1. ASSUME NEW t \in getActiveTransactions
          PROVE  t \in Txs /\ RewardTxDue(t)
      <4>1. t \in Txs /\ txStatus[t] # "absent"
        BY DEF getActiveTransactions, ActiveStatuses
      <4>2. QED
        BY <4>1, KnownTxDue
    <3>2. todo' = {[tx |-> t, status |-> txStatus[t]] : t \in getActiveTransactions}
      BY <1>1 DEF ProcessTransactions
    <3>3. QED
      BY <3>1, <3>2
  <2>2. jobPc' = "run"
    BY <1>1 DEF ProcessTransactions
  <2>3. QED
    BY <1>d, <2>1, <2>2 DEF TxJobDue
<1>2. ASSUME NEW r \in todo, TakeAny(r)
      PROVE  TxJobDue'
  <2>1. todo' = todo \ {r} /\ jobPc = "run"
    BY <1>2 DEF TakeAny, LeaveTx, ProcessApprovedTx, ProcessInSignTx,
       ProcessSignFailedTx, ProcessSignedTx, ProcessSentTx, Take
  <2>2. \/ UNCHANGED <<jobPc, cur>>
        \/ /\ cur' = r.tx
           /\ \/ jobPc' = "sign"
              \/ /\ jobPc' \in {"reset", "reset-unexpected"}
                 /\ TypeOf[r.tx] \in EventTypes
              \/ /\ jobPc' = "advance" /\ onchain[r.tx] = "confirmed"
                 /\ TypeOf[r.tx] \in EventTypes
    BY <1>2 DEF TakeAny, LeaveTx, ProcessApprovedTx, ProcessInSignTx,
       ProcessSignFailedTx, ProcessSignedTx, ProcessSentTx,
       SetTransactionAsInvalid, GoTo
  <2>3. QED
    BY <1>d, <1>j, <2>1, <2>2 DEF TxJobDue
<1>3. CASE SendToSign \/ AdvanceEvent \/ ResetEvent \/ NotifyFails
  <2>1. UNCHANGED todo /\ jobPc' = "run"
    BY <1>3 DEF SendToSign, AdvanceEvent, ResetEvent, NotifyFails, Continue, GoTo
  <2>2. QED
    BY <1>d, <1>j, <2>1 DEF TxJobDue
<1>4. ASSUME NEW t \in Txs,
             HandleSuccessfulSign(t) \/ HandleFailedSign(t) \/ ChainStep(t)
      PROVE  TxJobDue'
  <2>1. UNCHANGED jobVars
    BY <1>4 DEF HandleSuccessfulSign, HandleFailedSign, Answered, ChainStep
  <2>2. QED
    BY <1>d, <1>j, <2>1 DEF TxJobDue, jobVars
<1>5. QED
  BY <1>1, <1>2, <1>3, <1>4 DEF ProcessorNext, JobNext

-----------------------------------------------------------------------------
(* The theorems *)

\* What a step leaves alone stays due.
LEMMA CarriedStaysDue ==
  ASSUME TypeOK, [Next]_vars, PaymentInv
  PROVE  /\ UNCHANGED handler => HandlersDue'
         /\ UNCHANGED <<confirmedTodo, requeueTodo>> => EventRowsDue'
         /\ UNCHANGED jobVars => TxJobDue'
<1>1. \A t \in Txs : RewardTxDue(t) => RewardTxDue(t)'
  BY PaidStays DEF RewardTxDue
<1>2. \A r \in todo : r.tx \in Txs
  BY DEF TypeOK, ProcessorTypeOK, TxRow
<1>3. UNCHANGED handler => HandlersDue'
  BY HandlersDueKept DEF PaymentInv
<1>4. UNCHANGED <<confirmedTodo, requeueTodo>> => EventRowsDue'
  BY EventRowsDueKept
<1>5. UNCHANGED jobVars => TxJobDue'
  BY <1>1, <1>2, PaidStays DEF PaymentInv, TxJobDue, jobVars
<1>6. QED
  BY <1>3, <1>4, <1>5

\* Nothing is paid, rewarded or completed at the start.
LEMMA InitPayment == Init => PaymentInv
BY DEF Init, DatabaseInit, TxApprovalInit, EventProcessorInit, ProcessorInit,
       PaymentInv, RewardAfterPayment, CompletedEventWasPaid, HandlersDue,
       EventRowsDue, TxJobDue, IdleHandler, RewardStatuses

\* PaymentInv is inductive.
LEMMA NextKeepsPayment ==
  ASSUME TypeOK, PaymentInv, [Next]_vars
  PROVE  PaymentInv'
<1>1. CASE Approval(TxApprovalNext)
  <2>1. EventsDeserve /\ TxsDeserve
    BY <1>1, ApprovalDeserved DEF Approval
  <2>2. HandlersDue'
    BY <1>1, ApprovalKeepsHandlersDue DEF Approval
  <2>3. EventRowsDue' /\ TxJobDue'
    BY <1>1, CarriedStaysDue DEF Approval, eventJobVars, processorVars, jobVars
  <2>4. QED
    BY <2>1, <2>2, <2>3, DeservedKept DEF PaymentInv
<1>2. CASE Jobs(EventProcessorNext)
  <2>1. EventsDeserve /\ TxsDeserve
    BY <1>2, EventJobsDeserved DEF Jobs
  <2>2. EventRowsDue'
    BY <1>2, EventJobsKeepRows DEF Jobs
  <2>3. HandlersDue' /\ TxJobDue'
    BY <1>2, CarriedStaysDue, EventJobsWriteNoTx DEF Jobs, processorVars, jobVars
  <2>4. QED
    BY <2>1, <2>2, <2>3, DeservedKept DEF PaymentInv
<1>3. CASE Processor(ProcessorNext)
  <2>1. EventsDeserve /\ TxsDeserve
    BY <1>3, ProcessorDeserved DEF Processor, approvalVars
  <2>2. TxJobDue'
    BY <1>3, ProcessorKeepsTxJobDue DEF Processor
  <2>3. HandlersDue' /\ EventRowsDue'
    BY <1>3, CarriedStaysDue DEF Processor, approvalVars, eventJobVars
  <2>4. QED
    BY <2>1, <2>2, <2>3, DeservedKept DEF PaymentInv
<1>4. CASE Restart \/ UNCHANGED vars
  <2>1. UNCHANGED tables /\ candidates' \subseteq candidates
    BY <1>4 DEF Restart, vars, approvalVars
  <2>2. EventsDeserve /\ TxsDeserve
    BY <2>1, NothingWritten
  <2>3. CASE Restart
    <3>1. HandlersDue' /\ EventRowsDue' /\ TxJobDue'
      BY <2>3 DEF Restart, HandlersDue, EventRowsDue, TxJobDue, IdleHandler,
                  Continue, GoTo
    <3>2. QED
      BY <2>2, <3>1, DeservedKept DEF PaymentInv
  <2>4. CASE UNCHANGED vars
    BY <2>2, <2>4, CarriedStaysDue, DeservedKept
       DEF PaymentInv, vars, approvalVars, eventJobVars, processorVars, jobVars
  <2>5. QED
    BY <1>4, <2>3, <2>4
<1>5. QED
  BY <1>1, <1>2, <1>3, <1>4 DEF Next

\* The inductive invariant of the order of payment and reward.
THEOREM PaymentInvariant == Spec => []PaymentInv
<1>1. Init => PaymentInv
  BY InitPayment
<1>2. TypeOK /\ PaymentInv /\ [Next]_vars => PaymentInv'
  BY NextKeepsPayment
<1>3. QED
  BY <1>1, <1>2, TypeCorrect, PTL DEF Spec

\* No event is up for reward, and no reward tx is known to the guard, before
\* a payment tx of the event is confirmed on its chain.
THEOREM RewardAfterPaymentAlways == Spec => []RewardAfterPayment
<1>1. PaymentInv => RewardAfterPayment
  BY DEF PaymentInv
<1>2. QED
  BY <1>1, PaymentInvariant, PTL

\* A completed event was paid, and rewarded when the reward has its own tx.
THEOREM CompletedEventWasPaidAlways == Spec => []CompletedEventWasPaid
<1>1. PaymentInv => CompletedEventWasPaid
  BY DEF PaymentInv
<1>2. QED
  BY <1>1, PaymentInvariant, PTL

-----------------------------------------------------------------------------
(* The list of ongoing events: ListInv is inductive *)

\* A step of the API is no step of the guard.
LEMMA GuardOrNothing ==
  ASSUME [ListNext]_allVars
  PROVE  [Next]_vars
BY DEF ListNext, GuardStep, OngoingRequest, OngoingReply, SpendEvent, allVars

\* What holds of the guard alone holds of the guard behind its API.
LEMMA GuardInvariants == ListSpec => [](TypeOK /\ SlotInv)
<1>1. ListInit => TypeOK /\ SlotInv
  BY InitTypeOK, InitSlot DEF ListInit
<1>2. TypeOK /\ SlotInv /\ [ListNext]_allVars => (TypeOK /\ SlotInv)'
  BY GuardOrNothing, NextKeepsSlot, ApprovalTyped, EventsTyped,
     ProcessorTyped, RestartTyped, StutterTyped DEF Next
<1>3. QED
  BY <1>1, <1>2, PTL DEF ListSpec

\* Only an insertion overwrites a row.
LEMMA RowsKept ==
  ASSUME TypeOK, [Next]_vars, ~\E h \in Handlers : InsertTxWrite(h)
  PROVE  \A t \in Txs : txStatus[t] # "absent" => txStatus'[t] # "absent"
<1> DEFINE Kept == \A t \in Txs : txStatus[t] # "absent" => txStatus'[t] # "absent"
<1>0. txStatus \in [Txs -> TransactionStatus \cup {"absent"}]
  BY DEF TypeOK, DatabaseTypeOK
<1>u. ASSUME UNCHANGED txStatus
      PROVE  Kept
  BY <1>u
<1>w. ASSUME NEW t, \/ setTxAsSignFailed(t)
                    \/ \E st \in TransactionStatus : setTxStatus(t, st)
      PROVE  Kept
  BY <1>0, <1>w DEF setTxAsSignFailed, setTxStatus, TransactionStatus,
                    ActiveStatuses
<1>1. CASE Approval(TxApprovalNext)
  <2>1. UNCHANGED txStatus
    BY <1>1 DEF Approval, TxApprovalNext, HandlerNext, Agree, SkipInvalid,
       RejectRequest, EnqueueSignFailedTxs, ClearTransactions,
       SetTxAsApproved, ManualRequest, InsertTxRead,
       UpdateEventOfApprovedTx, setEventStatus, tables
  <2>2. QED
    BY <1>u, <2>1
<1>2. CASE Jobs(EventProcessorNext)
  BY <1>u, <1>2, EventJobsWriteNoTx DEF Jobs
<1>3. CASE Processor(ProcessorNext)
  <2>1. {"in-sign", "invalid", "sent", "completed", "signed"}
          \subseteq TransactionStatus
    BY DEF TransactionStatus, ActiveStatuses
  <2>2. CASE \E r \in todo : TakeAny(r)
    <3>1. PICK r \in todo : TakeAny(r)
      BY <2>2
    <3>2. \/ UNCHANGED txStatus
          \/ setTxAsSignFailed(r.tx)
          \/ \E st \in TransactionStatus : setTxStatus(r.tx, st)
      BY <2>1, <3>1 DEF TakeAny, LeaveTx, ProcessApprovedTx, ProcessInSignTx,
         ProcessSignFailedTx, ProcessSignedTx, ProcessSentTx,
         SetTransactionAsInvalid, tables
    <3>3. QED
      BY <1>u, <1>w, <3>2
  <2>3. CASE SendToSign
    BY <1>w, <2>1, <2>3 DEF SendToSign
  <2>4. CASE ProcessTransactions \/ AdvanceEvent \/ ResetEvent \/ NotifyFails
    BY <1>u, <2>4 DEF ProcessTransactions, AdvanceEvent, ResetEvent,
       NotifyFails, setEventStatusToPending, setEventStatus, tables
  <2>5. CASE \E t \in Txs : HandleSuccessfulSign(t) \/ HandleFailedSign(t)
    BY <1>w, <2>1, <2>5 DEF HandleSuccessfulSign, HandleFailedSign,
                            updateWithSignedTx
  <2>6. CASE \E t \in Txs : ChainStep(t)
    BY <1>u, <2>6 DEF ChainStep, tables
  <2>7. QED
    BY <1>3, <2>2, <2>3, <2>4, <2>5, <2>6 DEF Processor, ProcessorNext, JobNext
<1>4. CASE Restart \/ UNCHANGED vars
  BY <1>u, <1>4 DEF Restart, vars, tables
<1>5. QED
  BY <1>1, <1>2, <1>3, <1>4 DEF Next

\* A row that is overwritten becomes another of the same event and type, for
\* the insertion read the table when it already held the semaphore.
LEMMA HasRowStays ==
  ASSUME TypeOK, SlotInv, [Next]_vars
  PROVE  \A e : \A type \in TxTypes : HasRow(e, type) => HasRow(e, type)'
<1>1. \A t \in Txs : txStatus[t] # "absent" =>
        \E u \in Txs : SameSlot(t, u) /\ txStatus'[u] # "absent"
  <2>1. CASE ~\E h \in Handlers : InsertTxWrite(h)
    BY <2>1, RowsKept DEF SameSlot
  <2>2. CASE \E h \in Handlers : InsertTxWrite(h)
    <3>1. PICK h \in Handlers : InsertTxWrite(h)
      BY <2>2
    <3> DEFINE s == handler[h]
    <3>2. txStatus \in [Txs -> TransactionStatus \cup {"absent"}]
      BY DEF TypeOK, DatabaseTypeOK
    <3>3. s.tx \in Txs /\ ReadStillHolds(s)
      BY <3>1 DEF InsertTxWrite, SlotInv, InsertInv
    <3>4. CASE insertNewTx(s.tx)
      BY <3>2, <3>4 DEF insertNewTx, SameSlot
    <3>5. CASE s.op = "replace" /\ replaceTx(s.old, s.tx)
      <4>1. s.old \in Txs /\ SameSlot(s.tx, s.old)
        BY <3>3, <3>5 DEF ReadStillHolds
      <4>2. /\ txStatus'[s.tx] # "absent"
            /\ \A t \in Txs \ {s.old, s.tx} : txStatus'[t] = txStatus[t]
        BY <3>2, <3>3, <3>5 DEF replaceTx
      <4>3. QED
        BY <3>3, <4>1, <4>2 DEF SameSlot
    <3>6. CASE UNCHANGED txStatus
      BY <3>6 DEF SameSlot
    <3>7. QED
      BY <3>1, <3>4, <3>5, <3>6 DEF InsertTxWrite, resetFailedInSign, tables
  <2>3. QED
    BY <2>1, <2>2
<1>2. QED
  BY <1>1 DEF HasRow, SameSlot

\* A handler that goes on to update the event left a row of its tx behind.
LEMMA HandlersKeepRow ==
  ASSUME TypeOK, SlotInv, HandlersHaveRow, [Next]_vars
  PROVE  HandlersHaveRow'
<1> DEFINE RowOf(s) == TypeOf[s.tx] \in EventTypes =>
                         HasRow(EventOf[s.tx], TypeOf[s.tx])
<1>0. handler \in [Handlers -> HandlerState]
  BY DEF TypeOK, TxApprovalTypeOK
<1>s. SUFFICES ASSUME NEW h \in Handlers, HasTx(handler[h])'
               PROVE  RowOf(handler[h])'
  BY DEF HandlersHaveRow
<1>1. ASSUME handler'[h] = handler[h]
      PROVE  RowOf(handler[h])'
  <2>1. RowOf(handler[h])
    BY <1>s, <1>1 DEF HandlersHaveRow, HasTx
  <2>2. EventTypes \subseteq TxTypes
    BY DEF TxTypes
  <2>3. QED
    BY <1>1, <2>1, <2>2, HasRowStays
<1>2. ASSUME handler'[h].pc \in {"idle", "insert"}
      PROVE  FALSE
  BY <1>2, <1>s DEF HasTx
<1>3. CASE InsertTxRead(h)
  <2>1. PICK op \in InsertOps, old \in Txs \cup {NoTx} :
          /\ TypeOf[handler[h].tx] \in EventTypes =>
               insertEventTx(handler[h].tx, op, old)
          /\ handler' = [handler EXCEPT ![h].pc = "write",
                                        ![h].op = op, ![h].old = old]
    BY <1>3, DatabaseAssumption DEF InsertTxRead, EventTypes
  <2>2. /\ handler'[h].tx = handler[h].tx /\ handler'[h].op = op
        /\ handler'[h].pc = "write" /\ txStatus' = txStatus
    BY <1>0, <1>3, <2>1 DEF InsertTxRead, HandlerState, tables
  <2>3. op \in {"reinsert", "ignore"}
    BY <1>s, <2>2 DEF HasTx
  <2>4. RowOf(handler[h])
    BY <2>1, <2>3 DEF insertEventTx, getEventValidTxsByType, HasRow, IsValidRow
  <2>5. QED
    BY <2>2, <2>4 DEF HasRow
<1>4. CASE InsertTxWrite(h)
  <2> DEFINE s == handler[h]
  <2>1. s.pc = "write" /\ s.tx \in Txs /\ s.fresh /\ ~Throws(s)
        /\ handler'[h].tx = s.tx
    BY <1>0, <1>2, <1>4 DEF InsertTxWrite, Finish, IdleHandler, HandlerState,
                            SlotInv, InsertInv
  <2>2. CASE s.op \in {"reinsert", "ignore"}
    <3>1. RowOf(s)
      BY <2>1, <2>2 DEF HandlersHaveRow, HasTx
    <3>2. EventTypes \subseteq TxTypes
      BY DEF TxTypes
    <3>3. QED
      BY <2>1, <3>1, <3>2, HasRowStays
  <2>3. CASE \/ insertNewTx(s.tx)
             \/ s.op = "replace" /\ replaceTx(s.old, s.tx)
    <3>1. txStatus \in [Txs -> TransactionStatus \cup {"absent"}]
      BY DEF TypeOK, DatabaseTypeOK
    <3>2. txStatus'[s.tx] = "approved"
      BY <2>1, <2>3, <3>1 DEF insertNewTx, replaceTx
    <3>3. QED
      BY <2>1, <3>2 DEF HasRow
  <2>4. QED
    BY <1>4, <2>1, <2>2, <2>3 DEF InsertTxWrite
<1>5. CASE \/ UpdateEventOfApprovedTx(h)
           \/ \E t \in Txs : SetTxAsApproved(h, t) \/ ManualRequest(h, t)
  <2>1. CASE UpdateEventOfApprovedTx(h)
    BY <1>0, <1>2, <2>1 DEF UpdateEventOfApprovedTx, Finish, IdleHandler
  <2>2. ASSUME NEW t \in Txs, SetTxAsApproved(h, t) \/ ManualRequest(h, t)
        PROVE  FALSE
    <3>1. \/ handler' = [handler EXCEPT ![h] =
               [IdleHandler EXCEPT !.pc = "insert", !.tx = t,
                                   !.fresh = (txStatus[t] = "absent")]]
          \/ handler' = [handler EXCEPT ![h] =
               [IdleHandler EXCEPT !.pc = "insert", !.tx = t, !.fresh = FALSE]]
      BY <2>2 DEF SetTxAsApproved, ManualRequest
    <3>2. handler'[h].pc = "insert"
      BY ZenonT(40), <1>0, <3>1 DEF IdleHandler
    <3>3. QED
      BY <1>2, <3>2
  <2>3. QED
    BY <1>5, <2>1, <2>2
<1>6. CASE Approval(TxApprovalNext)
  <2>1. CASE \E k \in Handlers \ {h} :
               \/ HandlerNext(k)
               \/ \E t \in Txs : SetTxAsApproved(k, t) \/ ManualRequest(k, t)
    <3>1. PICK k \in Handlers \ {h} :
               \/ HandlerNext(k)
               \/ \E t \in Txs : SetTxAsApproved(k, t) \/ ManualRequest(k, t)
      BY <2>1
    <3>2. handler'[h] = handler[h]
      BY <1>0, <3>1 DEF HandlerNext, InsertTxRead, InsertTxWrite, Finish,
         UpdateEventOfApprovedTx, SetTxAsApproved, ManualRequest
    <3>3. QED
      BY <1>1, <3>2
  <2>2. CASE \/ \E t \in Txs : Agree(t) \/ SkipInvalid(t)
             \/ \E e \in Events : RejectRequest(e)
             \/ EnqueueSignFailedTxs \/ ClearTransactions
    <3>1. handler' = handler
      BY <2>2 DEF Agree, SkipInvalid, RejectRequest, EnqueueSignFailedTxs,
                  ClearTransactions, approvalVars
    <3>2. QED
      BY <1>1, <3>1
  <2>3. QED
    BY <1>3, <1>4, <1>5, <1>6, <2>1, <2>2 DEF Approval, TxApprovalNext, HandlerNext
<1>7. CASE Jobs(EventProcessorNext)
  BY <1>1, <1>7, EventJobsWriteNoTx DEF Jobs
<1>8. CASE Processor(ProcessorNext) \/ UNCHANGED vars
  BY <1>1, <1>8 DEF Processor, approvalVars, vars
<1>9. CASE Restart
  BY <1>2, <1>9 DEF Restart, IdleHandler
<1>10. QED
  BY <1>6, <1>7, <1>8, <1>9 DEF Next

\* Who moves an event to payment or reward.
Approved(e, status) ==
  \E h \in Handlers :
    /\ handler[h].pc = "event"
    /\ EventOf[handler[h].tx] = e
    /\ \/ TypeOf[handler[h].tx] = "payment" /\ status = "in-payment"
       \/ TypeOf[handler[h].tx] = "reward" /\ status = "in-reward"

LEMMA StatusOfApproved ==
  ASSUME TypeOK, [Next]_vars, NEW e \in Events
  PROVE  \/ evStatus'[e] \notin {"in-payment", "in-reward"}
         \/ evStatus'[e] = evStatus[e]
         \/ Approved(e, evStatus'[e])
<1> DEFINE Goal == \/ evStatus'[e] \notin {"in-payment", "in-reward"}
                   \/ evStatus'[e] = evStatus[e]
                   \/ Approved(e, evStatus'[e])
           Quiet == EventStatus \ {"in-payment", "in-reward"}
<1>0. {"rejected", "spent", "reached-limit", "timeout", "payment-waiting",
       "reward-waiting", "pending-payment", "pending-reward", "completed"}
        \subseteq Quiet
  BY DEF EventStatus, RewardStatuses
<1>u. ASSUME UNCHANGED evStatus
      PROVE  Goal
  BY <1>u
<1>w. ASSUME NEW x, NEW st \in Quiet, NEW b, setEventStatus(x, st, b)
      PROVE  Goal
  BY <1>w, EventWrite
<1>1. CASE Approval(TxApprovalNext)
  <2>1. CASE \E h \in Handlers : UpdateEventOfApprovedTx(h)
    <3>1. PICK h \in Handlers : UpdateEventOfApprovedTx(h)
      BY <2>1
    <3> DEFINE t == handler[h].tx
    <3>2. handler[h].pc = "event"
      BY <3>1 DEF UpdateEventOfApprovedTx
    <3>3. CASE TypeOf[t] = "payment" /\ setEventStatus(EventOf[t], "in-payment", FALSE)
      <4>1. evStatus'[e] = evStatus[e] \/ (e = EventOf[t] /\ evStatus'[e] = "in-payment")
        BY ZenonT(40), <3>3, EventWrite
      <4>2. QED
        BY <3>2, <3>3, <4>1 DEF Approved
    <3>4. CASE TypeOf[t] = "reward" /\ setEventStatus(EventOf[t], "in-reward", FALSE)
      <4>1. evStatus'[e] = evStatus[e] \/ (e = EventOf[t] /\ evStatus'[e] = "in-reward")
        BY ZenonT(40), <3>4, EventWrite
      <4>2. QED
        BY <3>2, <3>4, <4>1 DEF Approved
    <3>5. CASE UNCHANGED tables
      BY <1>u, <3>5 DEF tables
    <3>6. QED
      BY <3>1, <3>3, <3>4, <3>5 DEF UpdateEventOfApprovedTx
  <2>2. CASE \E x \in Events : RejectRequest(x)
    BY <1>0, <1>w, <2>2 DEF RejectRequest
  <2>3. CASE ~(\/ \E h \in Handlers : UpdateEventOfApprovedTx(h)
               \/ \E x \in Events : RejectRequest(x))
    <3>1. UNCHANGED evStatus
      BY <1>1, <2>3 DEF Approval, TxApprovalNext, HandlerNext, Agree,
         SkipInvalid, EnqueueSignFailedTxs, ClearTransactions,
         SetTxAsApproved, ManualRequest, InsertTxRead, InsertTxWrite,
         insertNewTx, replaceTx, resetFailedInSign, tables
    <3>2. QED
      BY <1>u, <3>1
  <2>4. QED
    BY <2>1, <2>2, <2>3
<1>2. CASE Jobs(EventProcessorNext)
  <2>1. CASE \E x \in Events : ProcessScannedEvents(x)
    BY <2>1 DEF ProcessScannedEvents, insertConfirmedEvent, TypeOK, DatabaseTypeOK
  <2>2. CASE \E x \in Events : TimeoutEvent(x)
    BY <1>0, <1>u, <1>w, <2>2 DEF TimeoutEvent, tables
  <2>3. CASE \E r \in confirmedTodo :
               SpentEvent(r) \/ ReachedLimitEvent(r) \/ RejectEvent(r)
    BY <1>0, <1>w, <2>3 DEF SpentEvent, ReachedLimitEvent, RejectEvent
  <2>4. CASE \E r \in confirmedTodo : NotEnoughAssets(r)
    BY <1>0, <1>w, <2>4 DEF NotEnoughAssets
  <2>5. CASE \E r \in requeueTodo : RequeueEvent(r)
    BY <1>0, <1>w, <2>5 DEF RequeueEvent, setEventStatusToPending
  <2>6. CASE \/ StartConfirmedEvents \/ AbortConfirmedEvents
             \/ StartTimeout \/ StartRequeue
             \/ \E r \in confirmedTodo :
                  LeaveEvent(r) \/ \E t \in Txs : CreateTx(r, t)
    BY <1>u, <2>6 DEF StartConfirmedEvents, AbortConfirmedEvents,
       StartTimeout, StartRequeue, LeaveEvent, CreateTx, tables
  <2>7. QED
    BY <1>2, <2>1, <2>2, <2>3, <2>4, <2>5, <2>6 DEF Jobs, EventProcessorNext
<1>3. CASE Processor(ProcessorNext)
  <2>1. ASSUME NEW t, \/ \E st : setTxStatus(t, st)
                      \/ setTxAsSignFailed(t)
        PROVE  Goal
    BY <1>u, <2>1 DEF setTxStatus, setTxAsSignFailed
  <2>2. CASE \E r \in todo : TakeAny(r)
    <3>1. PICK r \in todo : TakeAny(r)
      BY <2>2
    <3>2. UNCHANGED tables \/ setTxAsSignFailed(r.tx)
          \/ \E st : setTxStatus(r.tx, st)
      BY <3>1 DEF TakeAny, LeaveTx, ProcessApprovedTx, ProcessInSignTx,
         ProcessSignFailedTx, ProcessSignedTx, ProcessSentTx,
         SetTransactionAsInvalid
    <3>3. QED
      BY <1>u, <2>1, <3>2 DEF tables
  <2>3. CASE \/ SendToSign
             \/ \E t \in Txs : HandleSuccessfulSign(t) \/ HandleFailedSign(t)
    BY <2>1, <2>3 DEF SendToSign, HandleSuccessfulSign, HandleFailedSign,
                      updateWithSignedTx
  <2>4. CASE AdvanceEvent
    BY <1>0, <1>w, <2>4 DEF AdvanceEvent, setEventStatusToPending
  <2>5. CASE ResetEvent
    <3>1. \E st \in {"pending-payment", "pending-reward"} :
            setEventStatus(EventOf[cur], st, jobPc = "reset-unexpected")
      BY <2>5 DEF ResetEvent
    <3>2. QED
      BY <1>0, <1>w, <3>1
  <2>6. CASE ProcessTransactions \/ NotifyFails \/ \E t \in Txs : ChainStep(t)
    BY <1>u, <2>6 DEF ProcessTransactions, NotifyFails, ChainStep, tables
  <2>7. QED
    BY <1>3, <2>2, <2>3, <2>4, <2>5, <2>6 DEF Processor, ProcessorNext, JobNext
<1>4. CASE Restart \/ UNCHANGED vars
  BY <1>u, <1>4 DEF Restart, vars, tables
<1>5. QED
  BY <1>1, <1>2, <1>3, <1>4 DEF Next

\* An event in payment or in reward keeps a row, whoever puts it there.
LEMMA EventsKeepRow ==
  ASSUME TypeOK, SlotInv, EventsHaveRow, HandlersHaveRow, [Next]_vars
  PROVE  EventsHaveRow'
<1>1. "payment" \in TxTypes /\ "reward" \in TxTypes
  BY DEF TxTypes, EventTypes
<1>2. ASSUME NEW e \in Events
      PROVE  /\ evStatus'[e] = "in-payment" => HasRow(e, "payment")
             /\ evStatus'[e] = "in-reward" => HasRow(e, "reward")
  <2>1. CASE evStatus'[e] = evStatus[e]
    BY <2>1 DEF EventsHaveRow
  <2>2. CASE Approved(e, evStatus'[e])
    BY <2>2 DEF Approved, HandlersHaveRow, HasTx, EventTypes
  <2>3. QED
    BY <2>1, <2>2, StatusOfApproved
<1>3. QED
  BY <1>1, <1>2, HasRowStays DEF EventsHaveRow

\* The types the route looks for in the txs of a row.
LEMMA NeededTypes ==
  ASSUME NEW r
  PROVE  /\ NeededType(r) \subseteq TxTypes
         /\ r.status = "in-payment" => NeededType(r) = {"payment"}
         /\ r.status = "in-reward" => NeededType(r) = {"reward"}
         /\ r.status \notin {"in-payment", "in-reward"} => NeededType(r) = {}
BY DEF NeededType, TxTypes, EventTypes

\* What the list of the request needs stays in the table.
LEMMA ListedKeepRow ==
  ASSUME TypeOK, SlotInv, EventsHaveRow, ListedHaveRow, [ListNext]_allVars
  PROVE  ListedHaveRow'
<1>1. CASE listed' \subseteq listed
  BY <1>1, NeededTypes, GuardOrNothing, HasRowStays DEF ListedHaveRow
<1>2. CASE OngoingRequest
  <2>1. ASSUME NEW r \in listed', NEW type \in NeededType(r)
        PROVE  HasRow(r.event, type)
    <3>1. r.event \in Events /\ r.status = evStatus[r.event]
      BY <1>2 DEF OngoingRequest, OngoingEvents
    <3>2. QED
      BY <2>1, <3>1, NeededTypes DEF EventsHaveRow
  <2>2. UNCHANGED txStatus
    BY <1>2 DEF OngoingRequest, vars, tables
  <2>3. QED
    BY <2>1, <2>2 DEF ListedHaveRow, HasRow
<1>3. QED
  BY <1>1, <1>2 DEF ListNext, GuardStep, OngoingReply, SpendEvent, allVars, listVars

\* The inductive invariant of the list of ongoing events.
THEOREM ListInvariant == ListSpec => []ListInv
<1>1. ListInit => ListInv
  BY DEF ListInit, Init, DatabaseInit, TxApprovalInit, IdleHandler, ListInv,
         EventsHaveRow, ListedHaveRow, HandlersHaveRow, HasTx
<1>2. TypeOK /\ SlotInv /\ ListInv /\ [ListNext]_allVars => ListInv'
  BY GuardOrNothing, EventsKeepRow, ListedKeepRow, HandlersKeepRow DEF ListInv
<1>3. QED
  BY <1>1, <1>2, GuardInvariants, PTL DEF ListSpec

\* The route throws only when a tx it needs had been given up: the two
\* queries may see different moments, but what the first one calls in payment
\* or in reward has a row of that type from then on.
THEOREM FailsOnlyOverInvalidTxAlways == ListSpec => FailsOnlyOverInvalidTx
<1> DEFINE Fails == request = "waiting" /\ request' = "failed"
           GivenUp == \E r \in listed : \E t \in Txs :
                        /\ EventOf[t] = r.event /\ TypeOf[t] \in NeededType(r)
                        /\ txStatus[t] = "invalid"
<1>1. ASSUME ListInv, ListNext, Fails
      PROVE  GivenUp
  <2>1. OngoingReply
    BY <1>1 DEF ListNext, GuardStep, OngoingRequest, SpendEvent
  <2> DEFINE txs == getValidTxsForEvents({r.event : r \in listed})
  <2>a. PICK r \in listed : ~Shown(r, txs)
    BY <1>1, <2>1 DEF OngoingReply
  <2>2. PICK type \in NeededType(r) :
          ~\E t \in txs : EventOf[t] = r.event /\ TypeOf[t] = type
    BY <2>a DEF Shown
  <2>3. PICK t \in Txs : /\ EventOf[t] = r.event /\ TypeOf[t] = type
                         /\ txStatus[t] # "absent"
    BY <1>1, <2>2 DEF ListInv, ListedHaveRow, HasRow
  <2>4. t \notin txs
    BY <2>2, <2>3
  <2>5. txStatus[t] = "invalid"
    BY <2>3, <2>4 DEF getValidTxsForEvents, IsValidRow
  <2>6. QED
    BY <2>2, <2>3, <2>5
<1>2. ListInv /\ [ListNext]_allVars => [Fails => GivenUp]_allVars
  BY <1>1
<1>3. QED
  BY <1>2, ListInvariant, PTL DEF ListSpec, FailsOnlyOverInvalidTx

=============================================================================
