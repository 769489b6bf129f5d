----------------------------- MODULE TxApproval -----------------------------
(***************************************************************************)
(* What one guard does with the transactions of the agreement protocol:    *)
(* it agrees to candidates (RequestVerifier), and when a candidate is      *)
(* approved by enough guards it inserts it (TxAgreement.setTxAsApproved,   *)
(* DatabaseHandler.insertTx).  Approvals are handled concurrently, a       *)
(* message handler each; a step of a handler ends where the code awaits    *)
(* the database or the semaphore.  The messages themselves are abstracted  *)
(* here: any candidate may turn out to be approved.                        *)
(***************************************************************************)
EXTENDS Database

CONSTANTS
  Handlers,                 \* message handlers that can be running at once
  isManualTxRequestActive   \* the config of that name

NoTx == 0

ASSUME TxApprovalAssumption ==
  /\ Free \notin Handlers
  /\ isManualTxRequestActive \in BOOLEAN

VARIABLES
  candidates,  \* txs in TxAgreement.transactionQueue or .transactions
  handler      \* the state of each message handler

approvalVars == <<candidates, handler>>

\* what insertTx decides to do after reading the table
InsertOps == {"none", "new", "reinsert", "replace", "ignore", "throw"}

HandlerState ==
  [pc : {"idle", "insert", "write", "event"},
   tx : Txs \cup {NoTx},
   fresh : BOOLEAN,          \* getTxById found no row
   op : InsertOps,
   old : Txs \cup {NoTx}]    \* the row that replaceTx will overwrite

IdleHandler ==
  [pc |-> "idle", tx |-> NoTx, fresh |-> FALSE, op |-> "none", old |-> NoTx]

TxApprovalTypeOK ==
  /\ candidates \subseteq Txs
  /\ handler \in [Handlers -> HandlerState]
  /\ txSignSemaphore \in Handlers \cup {Free}

TxApprovalInit ==
  /\ candidates = {}
  /\ handler = [h \in Handlers |-> IdleHandler]

Finish(h) == handler' = [handler EXCEPT ![h] = IdleHandler]

-----------------------------------------------------------------------------
(* Agreeing *)

\* mutant: the status is not matched with the type
PendingToAnyType(e, type) ==
  evStatus[e] \in {"pending-payment", "pending-reward"} /\ type \in EventTypes

isEventPendingToType(e, type) ==
  \/ evStatus[e] = "pending-payment" /\ type = "payment"
  \/ evStatus[e] = "pending-reward" /\ type = "reward"

\* A reward order names the payment tx, which must be the only valid one.
verifyEventTransaction(t) ==
  TypeOf[t] = "reward" =>
    Cardinality(getEventValidTxsByType(EventOf[t], "payment")) = 1

verifyEventTransactionRequest(t) ==
  LET valid == getEventValidTxsByType(EventOf[t], TypeOf[t])
  IN  /\ evStatus[EventOf[t]] # "none"
      /\ valid # {} => t \in valid
      /\ valid = {} => isEventPendingToType(EventOf[t], TypeOf[t])
      /\ verifyEventTransaction(t)

\* A request or an approval for t arrives in its sender's turn and verifies.
Agree(t) ==
  /\ TypeOf[t] # "manual"
  /\ TypeOf[t] \in EventTypes => verifyEventTransactionRequest(t)
  /\ candidates' = candidates \cup {t}
  /\ UNCHANGED <<tables, txSignSemaphore, handler>>

\* A request for a tx of e arrives and EventVerifier does not verify e.
RejectRequest(e) ==
  /\ evStatus[e] # "none"
  /\ setEventStatus(e, "rejected", FALSE)
  /\ UNCHANGED <<txSignSemaphore, approvalVars>>

\* TxAgreement.enqueueSignFailedTxs
EnqueueSignFailedTxs ==
  /\ candidates' = candidates \cup
                     {t \in getUnsignedFailedSignTxs : TypeOf[t] # "manual"}
  /\ UNCHANGED <<tables, txSignSemaphore, handler>>

\* clearTransactions forgets all, clearAgreedTransactions what is not queued.
ClearTransactions ==
  /\ candidates # {}
  /\ \E queued \in SUBSET candidates : candidates' = queued
  /\ UNCHANGED <<tables, txSignSemaphore, handler>>

-----------------------------------------------------------------------------
(* setTxAsApproved: read the record, insert, update the event, forget *)

\* getTxById finds an invalid record: reinsertion is skipped.
SkipInvalid(t) ==
  /\ t \in candidates
  /\ txStatus[t] = "invalid"
  /\ candidates' = candidates \ {t}
  /\ UNCHANGED <<tables, txSignSemaphore, handler>>

SetTxAsApproved(h, t) ==
  /\ handler[h].pc = "idle"
  /\ t \in candidates
  /\ txStatus[t] # "invalid"
  /\ handler' = [handler EXCEPT ![h] =
                   [IdleHandler EXCEPT !.pc = "insert", !.tx = t,
                                       !.fresh = (txStatus[t] = "absent")]]
  /\ UNCHANGED <<tables, txSignSemaphore, candidates>>

\* The /sign route.  The refusal it sends when manual requests are disabled
\* does not return, so the request goes on to insertTx whatever the config.
ManualRequest(h, t) ==
  /\ handler[h].pc = "idle"
  /\ TypeOf[t] = "manual"
  /\ handler' = [handler EXCEPT ![h] =
                   [IdleHandler EXCEPT !.pc = "insert", !.tx = t,
                                       !.fresh = FALSE]]
  /\ UNCHANGED <<tables, txSignSemaphore, candidates>>

\* The decisions of insertEventTx, insertColdStorageTx and insertManualTx.
insertEventTx(t, op, old) ==
  LET valid == getEventValidTxsByType(EventOf[t], TypeOf[t])
  IN  \/ /\ evStatus[EventOf[t]] = "none" \/ Cardinality(valid) > 1
         /\ op = "throw" /\ old = NoTx
      \/ /\ evStatus[EventOf[t]] # "none"
         /\ valid = {}
         /\ op = "new" /\ old = NoTx
      \/ /\ evStatus[EventOf[t]] # "none"
         /\ valid = {t}
         /\ op = "reinsert" /\ old = NoTx
      \/ /\ evStatus[EventOf[t]] # "none"
         /\ \E u \in Txs \ {t} :
              /\ valid = {u}
              /\ IF txStatus[u] = "approved" /\ t < u
                 THEN op = "replace" /\ old = u
                 ELSE op = "ignore" /\ old = NoTx

insertColdStorageTx(t, op, old) ==
  /\ op = IF txStatus[t] \in ActiveStatuses THEN "reinsert" ELSE "new"
  /\ old = NoTx

\* overwrite only changes requiredSign, a duplicate changes nothing
insertManualTx(t, op, old) ==
  /\ op = IF txStatus[t] = "absent" THEN "new" ELSE "ignore"
  /\ old = NoTx

\* insertTx acquires txSignSemaphore and reads.
InsertTxRead(h) ==
  LET t == handler[h].tx
  IN  /\ handler[h].pc = "insert"
      /\ SemaphoreIsFree
      /\ txSignSemaphore' = h
      /\ \E op \in InsertOps, old \in Txs \cup {NoTx} :
           /\ \/ TypeOf[t] \in EventTypes /\ insertEventTx(t, op, old)
              \/ TypeOf[t] = "coldStorage" /\ insertColdStorageTx(t, op, old)
              \/ TypeOf[t] = "manual" /\ insertManualTx(t, op, old)
           /\ handler' = [handler EXCEPT ![h].pc = "write",
                                         ![h].op = op, ![h].old = old]
      /\ UNCHANGED <<tables, candidates>>

\* mutant: an insertion that fails is never settled
ThrowsUnsettled(s) == s.op = "throw"

\* what insertTx ends in when its write cannot be done
Throws(s) ==
  \/ s.op = "throw"
  \/ s.op \in {"new", "replace"} /\ ~CanInsert(s.tx)

\* insertTx writes what it decided and releases the semaphore.
InsertTxWrite(h) ==
  LET s == handler[h]
  IN  /\ s.pc = "write"
      /\ txSignSemaphore' = Free
      /\ \/ Throws(s) /\ UNCHANGED tables
         \/ s.op = "new" /\ CanInsert(s.tx) /\ insertNewTx(s.tx)
         \/ s.op = "replace" /\ CanInsert(s.tx) /\ replaceTx(s.old, s.tx)
         \/ s.op = "reinsert" /\ resetFailedInSign(s.tx)
         \/ s.op = "ignore" /\ UNCHANGED tables
      /\ IF s.fresh /\ ~Throws(s)
         THEN /\ handler' = [handler EXCEPT ![h].pc = "event"]
              /\ UNCHANGED candidates
         ELSE /\ Finish(h)
              /\ candidates' = IF Throws(s) THEN candidates
                                            ELSE candidates \ {s.tx}

\* updateEventOfApprovedTx, whatever insertTx did with the tx
UpdateEventOfApprovedTx(h) ==
  LET t == handler[h].tx
  IN  /\ handler[h].pc = "event"
      /\ \/ /\ TypeOf[t] = "payment"
            /\ setEventStatus(EventOf[t], "in-payment", FALSE)
         \/ /\ TypeOf[t] = "reward"
            /\ setEventStatus(EventOf[t], "in-reward", FALSE)
         \/ /\ TypeOf[t] \notin EventTypes
            /\ UNCHANGED tables
      /\ Finish(h)
      /\ candidates' = candidates \ {t}
      /\ UNCHANGED txSignSemaphore

HandlerNext(h) ==
  \/ InsertTxRead(h)
  \/ InsertTxWrite(h)
  \/ UpdateEventOfApprovedTx(h)

TxApprovalNext ==
  \/ \E t \in Txs : Agree(t) \/ SkipInvalid(t)
  \/ \E e \in Events : RejectRequest(e)
  \/ EnqueueSignFailedTxs
  \/ ClearTransactions
  \/ \E h \in Handlers, t \in Txs : SetTxAsApproved(h, t) \/ ManualRequest(h, t)
  \/ \E h \in Handlers : HandlerNext(h)

=============================================================================
