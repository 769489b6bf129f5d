--------------------------- MODULE EventProcessor ---------------------------
(***************************************************************************)
(* The jobs of event/EventProcessor.ts.  Each one reads a list of events   *)
(* in one query and then works through it, awaiting between the events, so *)
(* what it writes is decided from a row that may have changed meanwhile.   *)
(* A job starts again only when it has finished, and the order of its list *)
(* is that of the query, which is arbitrary.                               *)
(***************************************************************************)
EXTENDS TxApproval

VARIABLES
  confirmedTodo,  \* processConfirmedEvents: rows not processed yet
  timeoutTodo,    \* TimeoutLeftoverEvents: events not checked yet
  requeueTodo     \* RequeueWaitingEvents: rows not requeued yet

eventJobVars == <<confirmedTodo, timeoutTodo, requeueTodo>>

EventRow == [event : Events, status : EventStatus,
             fails : 0 .. EventUnexpectedFailsLimit]

EventProcessorTypeOK ==
  /\ confirmedTodo \subseteq EventRow
  /\ timeoutTodo \subseteq Events
  /\ requeueTodo \subseteq EventRow

EventProcessorInit ==
  /\ confirmedTodo = {}
  /\ timeoutTodo = {}
  /\ requeueTodo = {}

Rows(es) ==
  {[event |-> e, status |-> evStatus[e], fails |-> evFails[e]] : e \in es}

-----------------------------------------------------------------------------
(* processScannedEvents *)

ProcessScannedEvents(e) ==
  /\ insertConfirmedEvent(e)
  /\ UNCHANGED <<txSignSemaphore, approvalVars, eventJobVars>>

-----------------------------------------------------------------------------
(* processConfirmedEvents, which runs in the guard's own turn *)

StartConfirmedEvents ==
  LET pending == getEventsByStatuses({"pending-payment", "pending-reward"})
  IN  /\ confirmedTodo = {}
      /\ pending # {}
      /\ confirmedTodo' = Rows(pending)
      /\ UNCHANGED <<tables, txSignSemaphore, approvalVars,
                     timeoutTodo, requeueTodo>>

\* the turn is over
AbortConfirmedEvents ==
  /\ confirmedTodo # {}
  /\ confirmedTodo' = {}
  /\ UNCHANGED <<tables, txSignSemaphore, approvalVars,
                 timeoutTodo, requeueTodo>>

TakeConfirmed(r) ==
  /\ r \in confirmedTodo
  /\ confirmedTodo' = confirmedTodo \ {r}
  /\ UNCHANGED <<txSignSemaphore, timeoutTodo, requeueTodo>>

\* eventData.spendHeight is set: another guard's reward tx spent the event box
SpentEvent(r) ==
  /\ TakeConfirmed(r)
  /\ setEventStatus(r.event, "spent", FALSE)
  /\ UNCHANGED approvalVars

ReachedLimitEvent(r) ==
  /\ TakeConfirmed(r)
  /\ r.fails >= EventUnexpectedFailsLimit
  /\ setEventStatus(r.event, "reached-limit", FALSE)
  /\ UNCHANGED approvalVars

\* verifyEvent is only called for payment
RejectEvent(r) ==
  /\ TakeConfirmed(r)
  /\ r.fails < EventUnexpectedFailsLimit
  /\ r.status = "pending-payment"
  /\ setEventStatus(r.event, "rejected", FALSE)
  /\ UNCHANGED approvalVars

\* processPaymentEvent or processRewardEvent creates t and queues it
CreateTx(r, t) ==
  /\ TakeConfirmed(r)
  /\ r.fails < EventUnexpectedFailsLimit
  /\ EventOf[t] = r.event
  /\ \/ r.status = "pending-payment" /\ TypeOf[t] = "payment"
     \/ /\ r.status = "pending-reward" /\ TypeOf[t] = "reward"
        /\ r.event \notin ErgoEvents
        /\ Cardinality(getEventValidTxsByType(r.event, "payment")) = 1
  /\ candidates' = candidates \cup {t}
  /\ UNCHANGED <<tables, handler>>

\* NotEnoughAssetsError, and the notification was sent
NotEnoughAssets(r) ==
  /\ TakeConfirmed(r)
  /\ r.fails < EventUnexpectedFailsLimit
  /\ \/ /\ r.status = "pending-payment"
        /\ setEventStatus(r.event, "payment-waiting", FALSE)
     \/ /\ r.status = "pending-reward"
        /\ r.event \notin ErgoEvents
        /\ Cardinality(getEventValidTxsByType(r.event, "payment")) = 1
        /\ setEventStatus(r.event, "reward-waiting", FALSE)
  /\ UNCHANGED approvalVars

\* an exception is logged, or the turn is over when t is ready
LeaveEvent(r) ==
  /\ TakeConfirmed(r)
  /\ UNCHANGED <<tables, approvalVars>>

-----------------------------------------------------------------------------
(* TimeoutLeftoverEvents *)

StartTimeout ==
  /\ timeoutTodo = {}
  /\ timeoutTodo' = getEventsByStatuses({"pending-payment"})
  /\ timeoutTodo' # {}
  /\ UNCHANGED <<tables, txSignSemaphore, approvalVars,
                 confirmedTodo, requeueTodo>>

TimeoutEvent(e) ==
  /\ e \in timeoutTodo
  /\ timeoutTodo' = timeoutTodo \ {e}
  /\ \/ setEventStatus(e, "timeout", FALSE)
     \/ UNCHANGED tables                      \* firstTry is recent
  /\ UNCHANGED <<txSignSemaphore, approvalVars, confirmedTodo, requeueTodo>>

-----------------------------------------------------------------------------
(* RequeueWaitingEvents *)

StartRequeue ==
  /\ requeueTodo = {}
  /\ requeueTodo' = Rows(getEventsByStatuses({"payment-waiting",
                                              "reward-waiting"}))
  /\ requeueTodo' # {}
  /\ UNCHANGED <<tables, txSignSemaphore, approvalVars,
                 confirmedTodo, timeoutTodo>>

RequeueEvent(r) ==
  /\ r \in requeueTodo
  /\ requeueTodo' = requeueTodo \ {r}
  /\ \/ /\ r.status = "payment-waiting"
        /\ setEventStatusToPending(r.event, "pending-payment")
     \/ /\ r.status = "reward-waiting"
        /\ setEventStatusToPending(r.event, "pending-reward")
  /\ UNCHANGED <<txSignSemaphore, approvalVars, confirmedTodo, timeoutTodo>>

EventProcessorNext ==
  \/ \E e \in Events : ProcessScannedEvents(e) \/ TimeoutEvent(e)
  \/ StartConfirmedEvents \/ AbortConfirmedEvents
  \/ \E r \in confirmedTodo :
       \/ SpentEvent(r) \/ ReachedLimitEvent(r) \/ RejectEvent(r)
       \/ NotEnoughAssets(r) \/ LeaveEvent(r)
       \/ \E t \in Txs : CreateTx(r, t)
  \/ StartTimeout
  \/ StartRequeue
  \/ \E r \in requeueTodo : RequeueEvent(r)

=============================================================================
