------------------------ MODULE TransactionProcessor ------------------------
(***************************************************************************)
(* transaction/TransactionProcessor.ts: the transaction job reads the      *)
(* active transactions in one query and processes them one after the       *)
(* other, each from the row as it was read, while the answers of the       *)
(* signer arrive in callbacks.  The blockchain is external: it is modelled *)
(* by where each tx is found when the code asks.                           *)
(***************************************************************************)
EXTENDS Database

CONSTANT MaxSign  \* bound: pending sign requests of one tx

ASSUME MaxSignAssumption == MaxSign \in Nat \ {0}

VARIABLES
  todo,     \* the rows of the job's query not processed yet
  jobPc,    \* where the job is with the tx cur
  cur,
  signing,  \* sign requests of each tx the signer has not answered
  onchain   \* where each tx is: nowhere, in mempool or mined, confirmed

jobVars == <<todo, jobPc, cur>>
processorVars == <<todo, jobPc, cur, signing, onchain>>

TxRow == [tx : Txs, status : ActiveStatuses]

\* "sign": processApprovedTx waits for txSignSemaphore; "reset" and
\* "reset-unexpected": the tx is set as invalid and its event is next;
\* "advance": the tx is set as completed and its event is next
JobPc == {"run", "sign", "reset", "reset-unexpected", "advance"}

ProcessorTypeOK ==
  /\ todo \subseteq TxRow
  /\ jobPc \in JobPc
  /\ cur \in Txs \cup {0}
  /\ signing \in [Txs -> 0 .. MaxSign]
  /\ onchain \in [Txs -> {"none", "seen", "confirmed"}]

ProcessorInit ==
  /\ todo = {}
  /\ jobPc = "run"
  /\ cur = 0
  /\ signing = [t \in Txs |-> 0]
  /\ onchain = [t \in Txs |-> "none"]

GoTo(pc, t) == jobPc' = pc /\ cur' = t
Continue == GoTo("run", 0)

-----------------------------------------------------------------------------
(* processTransactions *)

ProcessTransactions ==
  /\ jobPc = "run" /\ todo = {}
  /\ getActiveTransactions # {}
  /\ todo' = {[tx |-> t, status |-> txStatus[t]] : t \in getActiveTransactions}
  /\ UNCHANGED <<tables, txSignSemaphore, jobPc, cur, signing, onchain>>

Take(r) ==
  /\ jobPc = "run"
  /\ r \in todo
  /\ todo' = todo \ {r}
  /\ UNCHANGED <<txSignSemaphore, signing, onchain>>

\* Nothing to write for this row: not timed out, in confirmation, resent,
\* not enough blocks to give it up, or an exception that is logged.
LeaveTx(r) ==
  /\ Take(r)
  /\ r.status # "approved"
  /\ UNCHANGED <<tables, jobPc, cur>>

ProcessApprovedTx(r) ==
  /\ Take(r)
  /\ r.status = "approved"
  /\ GoTo("sign", r.tx)
  /\ UNCHANGED tables

\* processApprovedTx in the semaphore; the row is not read again
SendToSign ==
  /\ jobPc = "sign"
  /\ SemaphoreIsFree
  /\ signing[cur] < MaxSign
  /\ setTxStatus(cur, "in-sign")
  /\ signing' = [signing EXCEPT ![cur] = @ + 1]
  /\ Continue
  /\ UNCHANGED <<txSignSemaphore, todo, onchain>>

\* txSignTimeout is over
ProcessInSignTx(r) ==
  /\ Take(r)
  /\ r.status = "in-sign"
  /\ setTxAsSignFailed(r.tx)
  /\ UNCHANGED <<jobPc, cur>>

\* setTransactionAsInvalid, up to the write of the tx: enough blocks past
SetTransactionAsInvalid(t) ==
  /\ setTxStatus(t, "invalid")
  /\ IF TypeOf[t] \in EventTypes
     THEN \E pc \in {"reset", "reset-unexpected"} : GoTo(pc, t)
     ELSE UNCHANGED <<jobPc, cur>>

ProcessSignFailedTx(r) ==
  /\ Take(r)
  /\ r.status = "sign-failed"
  /\ \/ /\ onchain[r.tx] # "none"
        /\ setTxStatus(r.tx, "sent")
        /\ UNCHANGED <<jobPc, cur>>
     \/ /\ onchain[r.tx] = "none"          \* and the tx is valid
        /\ GoTo("sign", r.tx)
        /\ UNCHANGED tables
     \/ /\ onchain[r.tx] = "none"          \* and the tx is not valid
        /\ SetTransactionAsInvalid(r.tx)

ProcessSignedTx(r) ==
  /\ Take(r)
  /\ r.status = "signed"
  /\ setTxStatus(r.tx, "sent")
  /\ UNCHANGED <<jobPc, cur>>

\* mutant: one confirmation is enough
ConfirmedOnce(t) == onchain[t] # "none"

\* getTxConfirmationStatus
Confirmed(t) == onchain[t] = "confirmed"

ProcessSentTx(r) ==
  /\ Take(r)
  /\ r.status = "sent"
  /\ \/ /\ Confirmed(r.tx)
        /\ setTxStatus(r.tx, "completed")
        /\ IF TypeOf[r.tx] \in EventTypes
           THEN GoTo("advance", r.tx)
           ELSE UNCHANGED <<jobPc, cur>>
     \/ /\ onchain[r.tx] = "none"
        /\ SetTransactionAsInvalid(r.tx)

\* the second write of processSentTx
AdvanceEvent ==
  LET e == EventOf[cur]
  IN  /\ jobPc = "advance"
      /\ IF TypeOf[cur] = "payment" /\ e \notin ErgoEvents
         THEN setEventStatusToPending(e, "pending-reward")
         ELSE setEventStatus(e, "completed", FALSE)
      /\ Continue
      /\ UNCHANGED <<txSignSemaphore, todo, signing, onchain>>

\* the second write of setTransactionAsInvalid
ResetEvent ==
  /\ jobPc \in {"reset", "reset-unexpected"}
  /\ setEventStatus(EventOf[cur],
                    IF TypeOf[cur] = "payment" THEN "pending-payment"
                                               ELSE "pending-reward",
                    jobPc = "reset-unexpected")
  /\ Continue
  /\ UNCHANGED <<txSignSemaphore, todo, signing, onchain>>

\* notify() throws: the rest of setTransactionAsInvalid is not executed
NotifyFails ==
  /\ jobPc = "reset-unexpected"
  /\ Continue
  /\ UNCHANGED <<tables, txSignSemaphore, todo, signing, onchain>>

TakeAny(r) ==
  \/ LeaveTx(r) \/ ProcessApprovedTx(r) \/ ProcessInSignTx(r)
  \/ ProcessSignFailedTx(r) \/ ProcessSignedTx(r) \/ ProcessSentTx(r)

JobNext ==
  \/ ProcessTransactions
  \/ \E r \in todo : TakeAny(r)
  \/ SendToSign \/ AdvanceEvent \/ ResetEvent \/ NotifyFails

-----------------------------------------------------------------------------
(* Callbacks of chain.signTransaction, and the external blockchain *)

\* mutant: both callbacks may handle one answer
AnsweredTwice(t) ==
  /\ signing' = [signing EXCEPT ![t] = @ - 1]
  /\ UNCHANGED <<txSignSemaphore, jobVars, onchain>>

Answered(t) ==
  /\ signing[t] > 0
  /\ signing' = [signing EXCEPT ![t] = @ - 1]
  /\ UNCHANGED <<txSignSemaphore, jobVars, onchain>>

HandleSuccessfulSign(t) == Answered(t) /\ updateWithSignedTx(t)

HandleFailedSign(t) == Answered(t) /\ setTxAsSignFailed(t)

\* A tx that enough guards signed enters the mempool, may leave it or its
\* block may be reverted, and stays once it has enough confirmations.
ChainStep(t) ==
  /\ \/ onchain[t] = "none" /\ onchain' = [onchain EXCEPT ![t] = "seen"]
     \/ /\ onchain[t] = "seen"
        /\ \E p \in {"none", "confirmed"} :
             onchain' = [onchain EXCEPT ![t] = p]
  /\ UNCHANGED <<tables, txSignSemaphore, jobVars, signing>>

ProcessorNext ==
  \/ JobNext
  \/ \E t \in Txs :
       HandleSuccessfulSign(t) \/ HandleFailedSign(t) \/ ChainStep(t)

=============================================================================
