------------------------------ MODULE EventList ------------------------------
(***************************************************************************)
(* The lists of events of the HTTP API (api/events.ts) beside the running  *)
(* guard.  /event/ongoing is two queries with an await between them, the   *)
(* events and then their txs, and the tables move on in between.  A page   *)
(* holds every event, and the columns are the status and spendTxId.        *)
(***************************************************************************)
EXTENDS GuardNode

VARIABLES
  spent,   \* events whose spendTxId is set: a reward tx spent their box
  listed,  \* rows of the first query of the request in progress
  request  \* "none", "waiting" between its queries, "failed" when it threw

listVars == <<spent, listed, request>>
allVars == <<vars, listVars>>

ListInit == Init /\ spent = {} /\ listed = {} /\ request = "none"

-----------------------------------------------------------------------------
(* DatabaseAction.getEvents *)

FinalStatuses == {"rejected", "timeout", "reached-limit"}

HistoryEvents ==
  {e \in Events : e \in spent \/ evStatus[e] \in FinalStatuses}

\* An event without a row of its own has the status NULL, for which NOT IN
\* does not hold: it is in the list by the clause that asks for NULL.
OngoingEvents ==
  {e \in Events :
     \/ /\ e \notin spent
        /\ evStatus[e] # "none" /\ evStatus[e] \notin FinalStatuses
     \/ e \notin spent /\ evStatus[e] = "none"}

\* mutant: only the txs that the transaction job works on
ActiveTxsForEvents(es) ==
  {t \in Txs : EventOf[t] \in es /\ txStatus[t] \in ActiveStatuses}

getValidTxsForEvents(es) == {t \in Txs : EventOf[t] \in es /\ IsValidRow(t)}

-----------------------------------------------------------------------------
(* The ongoing route *)

OngoingRequest ==
  /\ request # "waiting"
  /\ listed' = {[event |-> e, status |-> evStatus[e]] : e \in OngoingEvents}
  /\ request' = "waiting"
  /\ UNCHANGED <<vars, spent>>

\* the status of a row in payment or in reward is shown with that of its tx
NeededType(r) == CASE r.status = "in-payment" -> {"payment"}
                   [] r.status = "in-reward" -> {"reward"}
                   [] OTHER -> {}

Shown(r, txs) ==
  \A type \in NeededType(r) :
    \E t \in txs : EventOf[t] = r.event /\ TypeOf[t] = type

\* txs.find(...)!.status throws when there is no tx
OngoingReply ==
  LET txs == getValidTxsForEvents({r.event : r \in listed})
  IN  /\ request = "waiting"
      /\ request' = IF \A r \in listed : Shown(r, txs)
                   THEN "none" ELSE "failed"
      /\ listed' = {}
      /\ UNCHANGED <<vars, spent>>

\* The extractor finds the tx that spends the box of an event.
SpendEvent(e) ==
  /\ spent' = spent \cup {e}
  /\ UNCHANGED <<vars, listed, request>>

GuardStep ==
  /\ Next
  /\ IF Restart THEN listed' = {} /\ request' = "none"
                ELSE UNCHANGED <<listed, request>>
  /\ UNCHANGED spent

ListNext ==
  \/ GuardStep
  \/ OngoingRequest \/ OngoingReply
  \/ \E e \in Events : SpendEvent(e)

ListSpec == ListInit /\ [][ListNext]_allVars

-----------------------------------------------------------------------------
(* Properties *)

\* Although the two queries of the route see different moments, and txs
\* are replaced, completed and given up between them, a request only fails
\* over an event that has a tx that was given up.
FailsOnlyOverInvalidTx ==
  [][request = "waiting" /\ request' = "failed" =>
       \E r \in listed : \E t \in Txs :
         /\ EventOf[t] = r.event /\ TypeOf[t] \in NeededType(r)
         /\ txStatus[t] = "invalid"]_allVars

\* The assertion of the route, "!" after its find: an event in payment or in
\* reward has a valid tx.  The list is never refused.
OngoingIsAnswered == request # "failed"
-----------------------------------------------------------------------------
(* The inductive invariant behind FailsOnlyOverInvalidTx: a tx of the event *)
(* is in the table from before its status says so, and a row that is       *)
(* overwritten becomes another row of the same event and type.             *)

HasRow(e, type) ==
  \E t \in Txs : EventOf[t] = e /\ TypeOf[t] = type /\ txStatus[t] # "absent"

EventsHaveRow ==
  \A e \in Events : /\ evStatus[e] = "in-payment" => HasRow(e, "payment")
                    /\ evStatus[e] = "in-reward" => HasRow(e, "reward")

ListedHaveRow ==
  \A r \in listed : \A type \in NeededType(r) : HasRow(r.event, type)

\* what a handler has to update the event of, or found to be there already
HasTx(s) == \/ s.pc = "event"
            \/ s.pc = "write" /\ s.op \in {"reinsert", "ignore"}

HandlersHaveRow ==
  \A h \in Handlers :
    HasTx(handler[h]) /\ TypeOf[handler[h].tx] \in EventTypes
    => HasRow(EventOf[handler[h].tx], TypeOf[handler[h].tx])

ListInv == EventsHaveRow /\ ListedHaveRow /\ HandlersHaveRow
=============================================================================
