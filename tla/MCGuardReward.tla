--------------------------- MODULE MCGuardReward ---------------------------
(* One event, its payment tx 1 and its reward tx 2, listed by a client. *)
EXTENDS EventList, TLC

CONSTANT e1

MCTypeOf == 1 :> "payment" @@ 2 :> "reward"
MCEventOf == 1 :> e1 @@ 2 :> e1
MCErgoEvents == {}

NoneIsSigned == signing[1] = 0 /\ signing[2] = 0
OnlyTxJob ==
  /\ candidates = {} /\ confirmedTodo = {} /\ requeueTodo = {}
  /\ request # "waiting" /\ NoneIsSigned

\* Bounds: one event job at a time and no leftover timeout, one candidate, no
\* unexpected failure, one tx with the signer; an event that ended otherwise
\* and a request that failed are not followed further, and no request is made
\* while events are requeued, rows are with the event job or a tx is signed; a
\* tx is a candidate while none is signed, and the transaction job has both txs
\* in its list while nothing else is under way.
OnePath ==
  /\ timeoutTodo = {}
  /\ confirmedTodo = {} \/ requeueTodo = {}
  /\ Cardinality(candidates) <= 1
  /\ evFails[e1] = 0
  /\ evStatus[e1] \notin FinalStatuses \cup {"spent"} /\ spent = {}
  /\ signing[1] = 0 \/ signing[2] = 0
  /\ resurrected = {}
  /\ request # "failed"
  /\ request = "waiting" =>
       confirmedTodo = {} /\ requeueTodo = {} /\ NoneIsSigned
  /\ candidates = {} \/ NoneIsSigned
  /\ Cardinality(todo) <= 1 \/ OnlyTxJob
=============================================================================
