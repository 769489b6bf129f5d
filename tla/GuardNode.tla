------------------------------ MODULE GuardNode ------------------------------
(***************************************************************************)
(* One guard: its tables, the message handlers that approve transactions,  *)
(* the event jobs, the transaction job with its sign callbacks, and        *)
(* restarts of the process, which keep the tables and lose the rest.       *)
(***************************************************************************)
EXTENDS EventProcessor, TransactionProcessor

VARIABLE resurrected  \* history: txs that a signature made valid again
                      \* after they were set as invalid

vars == <<tables, txSignSemaphore, approvalVars, eventJobVars, processorVars,
          resurrected>>

Init ==
  /\ DatabaseInit
  /\ TxApprovalInit
  /\ EventProcessorInit
  /\ ProcessorInit
  /\ resurrected = {}

Restart ==
  /\ txSignSemaphore' = Free
  /\ candidates' = {}
  /\ handler' = [h \in Handlers |-> IdleHandler]
  /\ confirmedTodo' = {} /\ timeoutTodo' = {} /\ requeueTodo' = {}
  /\ todo' = {} /\ Continue
  /\ signing' = [t \in Txs |-> 0]
  /\ UNCHANGED <<tables, onchain, resurrected>>

Processor(A) ==
  /\ A
  /\ resurrected' = resurrected \cup
       {t \in Txs : txStatus[t] = "invalid" /\ txStatus'[t] = "signed"}
  /\ UNCHANGED <<approvalVars, eventJobVars>>

Approval(A) == A /\ UNCHANGED <<eventJobVars, processorVars, resurrected>>

Jobs(A) == A /\ UNCHANGED <<processorVars, resurrected>>

Next ==
  \/ Approval(TxApprovalNext)
  \/ Jobs(EventProcessorNext)
  \/ Processor(ProcessorNext)
  \/ Restart

Spec == Init /\ [][Next]_vars

(***************************************************************************)
(* Fairness.  Jobs and handlers are promise chains that the runtime always *)
(* continues; the semaphore is a FIFO queue, so whoever waits gets it; the *)
(* signer settles every promise (it has a timeout of its own); txs that    *)
(* stay in sign are found over txSignTimeout in some pass of the job; and  *)
(* the process is restarted finitely often.                                *)
(***************************************************************************)
HandlerFairness(h) ==
  /\ SF_vars(Approval(InsertTxRead(h)))
  /\ WF_vars(Approval(InsertTxWrite(h)))
  /\ WF_vars(Approval(UpdateEventOfApprovedTx(h)))

JobFairness ==
  /\ WF_vars(Processor(ProcessTransactions))
  /\ WF_vars(Processor(\E r \in todo : TakeAny(r)))
  /\ SF_vars(Processor(SendToSign))
  /\ WF_vars(Processor(AdvanceEvent))
  /\ WF_vars(Processor(ResetEvent \/ NotifyFails))

SignFairness(t) ==
  /\ WF_vars(Processor(HandleSuccessfulSign(t) \/ HandleFailedSign(t)))
  /\ SF_vars(Processor(\E r \in todo : r.tx = t /\ ProcessInSignTx(r)))

FairSpec ==
  /\ Spec
  /\ \A h \in Handlers : HandlerFairness(h)
  /\ JobFairness
  /\ \A t \in Txs : SignFairness(t)
  /\ <>[][~Restart]_vars

\* The columns hold the values of the entities, the jobs and handlers the rows
\* they read, and no more answers of the signer are due than were asked for.
TypeOK ==
  /\ DatabaseTypeOK
  /\ TxApprovalTypeOK
  /\ EventProcessorTypeOK
  /\ ProcessorTypeOK
  /\ resurrected \subseteq Txs

-----------------------------------------------------------------------------
(* Safety *)

SameSlot(t, u) == EventOf[t] = EventOf[u] /\ TypeOf[t] = TypeOf[u]

\* README: the guards agree on a single transaction for an event.  Two valid
\* rows of one event and type exist only if one of them had been given up
\* and a late signature brought it back: neither the concurrent approvals,
\* nor replacement by the lower txId, nor the stale rows of the transaction
\* job can make a second one.
OneValidTx ==
  \A t, u \in Txs :
    /\ t # u /\ TypeOf[t] \in EventTypes /\ SameSlot(t, u)
    /\ IsValidRow(t) /\ IsValidRow(u)
    => t \in resurrected \/ u \in resurrected

Paid(e) == \E t \in Txs : /\ EventOf[t] = e /\ TypeOf[t] = "payment"
                          /\ onchain[t] = "confirmed"
Rewarded(e) == \E t \in Txs : /\ EventOf[t] = e /\ TypeOf[t] = "reward"
                              /\ onchain[t] = "confirmed"

RewardDue(e) == Paid(e) /\ e \notin ErgoEvents

\* No event is up for reward distribution, and no reward tx of it is in the
\* table or is a candidate, unless a payment tx of it is confirmed on its
\* chain; events paid on Ergo never are.
RewardAfterPayment ==
  /\ \A e \in Events : evStatus[e] \in RewardStatuses => RewardDue(e)
  /\ \A t \in Txs :
       TypeOf[t] = "reward" /\ (t \in candidates \/ txStatus[t] # "absent")
       => RewardDue(EventOf[t])

\* An event is completed only if the bridge user's payment is confirmed and,
\* when the reward has a tx of its own, that tx is confirmed too.
CompletedEventWasPaid ==
  \A e \in Events :
    evStatus[e] = "completed" =>
      Paid(e) /\ (e \notin ErgoEvents => Rewarded(e))

\* What txSignSemaphore is for: no tx is handed to the signer while an
\* insertion is between its read of the table and its write, or it could
\* replace a tx that is being signed.
NoSignDuringInsert ==
  [][(\E t \in Txs : signing'[t] > signing[t])
       => \A h \in Handlers : handler[h].pc # "write"]_vars

\* A tx that was given up is never inserted again nor moved on by the
\* transaction job, although approvals decide from an older read of its
\* record and the job from an older snapshot: only its signature, arriving
\* late, can make the row valid again.  (An insertTx that read the row while
\* it was approved may still overwrite it with a lower txId: "absent".)
InvalidOnlyRevivedBySignature ==
  [][\A t \in Txs : txStatus[t] = "invalid" =>
       \/ txStatus'[t] \in {"invalid", "absent"}
       \/ txStatus'[t] = "signed" /\ signing[t] > 0]_vars

-----------------------------------------------------------------------------
(* What the repository says and the code does not keep *)

\* DatabaseHandler.insertEventTx calls it impossible that an event has more
\* than one active tx of a type.
SingleValidTx ==
  \A t, u \in Txs :
    TypeOf[t] \in EventTypes /\ SameSlot(t, u) /\ IsValidRow(t) /\ IsValidRow(u)
    => t = u

\* The test of insertEventTx: no tx is inserted when there is already an
\* advanced tx for the event, so an advanced tx is not replaced.
AdvancedTxNotReplaced ==
  [][\A t \in Txs :
       (txStatus[t] \in (ActiveStatuses \ {"approved"}) \cup {"completed"})
       => txStatus'[t] # "absent"]_vars

\* setTransactionAsInvalid resets the status of the event of the tx: when it
\* returns, the event is pending again.
InvalidTxResetsEvent ==
  [][(jobPc \in {"reset", "reset-unexpected"} /\ jobPc' = "run" /\ ~Restart)
       => evStatus'[EventOf[cur]] \in {"pending-payment", "pending-reward"}]_vars

\* No manual tx is accepted while the config disables manual requests.
ManualOnlyIfEnabled ==
  ~isManualTxRequestActive =>
    \A t \in Txs : TypeOf[t] = "manual" => txStatus[t] = "absent"

-----------------------------------------------------------------------------
(* The inductive invariant behind OneValidTx and the two action properties *)

\* the semaphore is held exactly by the handler between read and write
LockInv ==
  \A h \in Handlers : handler[h].pc = "write" <=> txSignSemaphore = h

\* what a handler read still holds when it writes, late signatures apart
ReadStillHolds(s) ==
  /\ s.op = "new" /\ TypeOf[s.tx] \in EventTypes =>
       \A u \in Txs : SameSlot(s.tx, u) /\ IsValidRow(u) => u \in resurrected
  /\ s.op = "replace" =>
       /\ s.old \in Txs \ {s.tx}
       /\ SameSlot(s.tx, s.old)
       /\ TypeOf[s.tx] \in EventTypes
       /\ \A u \in Txs : SameSlot(s.tx, u) /\ IsValidRow(u) =>
            u = s.old \/ u \in resurrected

InsertInv ==
  \A h \in Handlers :
    /\ handler[h].pc # "idle" => handler[h].tx \in Txs
    /\ handler[h].pc = "write" => ReadStillHolds(handler[h])

\* The job has each tx once, and no tx it has yet to process is invalid.
JobInv ==
  /\ \A r \in todo : txStatus[r.tx] # "invalid"
  /\ \A r, s \in todo : r.tx = s.tx => r = s
  /\ jobPc # "run" => cur \in Txs /\ \A r \in todo : r.tx # cur
  /\ jobPc = "sign" => txStatus[cur] # "invalid"

SlotInv == LockInv /\ InsertInv /\ JobInv /\ OneValidTx

-----------------------------------------------------------------------------
(* The inductive invariant behind RewardAfterPayment and                   *)
(* CompletedEventWasPaid: whatever a handler or a job still carries of an  *)
(* older read keeps the fact that the event was paid.                      *)

RewardTxDue(t) == TypeOf[t] = "reward" => RewardDue(EventOf[t])

HandlersDue ==
  \A h \in Handlers :
    handler[h].pc # "idle" => handler[h].tx \in Txs /\ RewardTxDue(handler[h].tx)

EventRowsDue ==
  \A r \in confirmedTodo \cup requeueTodo :
    r.status \in RewardStatuses => RewardDue(r.event)

TxJobDue ==
  /\ \A r \in todo : RewardTxDue(r.tx)
  /\ jobPc # "run" => cur \in Txs /\ RewardTxDue(cur)
  /\ jobPc \notin {"run", "sign"} => TypeOf[cur] \in EventTypes
  /\ jobPc = "advance" => onchain[cur] = "confirmed"

PaymentInv ==
  /\ RewardAfterPayment
  /\ CompletedEventWasPaid
  /\ HandlersDue
  /\ EventRowsDue
  /\ TxJobDue

-----------------------------------------------------------------------------
(* Liveness, under FairSpec *)

\* No approval waits forever for the semaphore, whatever the transaction job
\* and the other handlers do with it.
ApprovalsFinish ==
  \A h \in Handlers : handler[h].pc # "idle" ~> handler[h].pc = "idle"

\* A tx handed to the signer does not stay in sign forever, even when the
\* answer is lost in a restart: the transaction job times it out.
SigningEnds == \A t \in Txs : txStatus[t] = "in-sign" ~> txStatus[t] # "in-sign"

\* An approved tx does not stay approved forever: it is signed or replaced.
ApprovedTxMovesOn ==
  \A t \in Txs : txStatus[t] = "approved" ~> txStatus[t] # "approved"

=============================================================================
