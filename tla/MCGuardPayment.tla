--------------------------- MODULE MCGuardPayment ---------------------------
(* Two rival payment txs of one event, or a manual or cold storage tx. *)
EXTENDS GuardNode, TLC

CONSTANT e1

MCTypeOf ==
  1 :> "payment" @@ 2 :> "payment" @@ 3 :> "manual" @@ 4 :> "coldStorage"
MCEventOf == 1 :> e1 @@ 2 :> e1 @@ 3 :> NoEvent @@ 4 :> NoEvent
MCErgoEvents == {}

Untouched(t) ==
  /\ txStatus[t] = "absent" /\ onchain[t] = "none"
  /\ t \notin candidates /\ \A h \in Handlers : handler[h].tx # t

\* Bounds: the event jobs and the blockchain stand still, so that the
\* approvals, the transaction job and the sign callbacks race.
OnlyRivals ==
  /\ evFails[e1] = 0
  /\ evStatus[e1] \in {"none", "pending-payment", "in-payment"}
  /\ \A t \in Txs : onchain[t] = "none"
  /\ resurrected = {}
  /\ Untouched(3) /\ Untouched(4)

\* Bounds: one of the txs without an event at a time.
OnlyOtherTx ==
  /\ evStatus[e1] = "none"
  /\ Untouched(1) /\ Untouched(2) /\ (Untouched(3) \/ Untouched(4))

NoEventJobs == confirmedTodo = {} /\ timeoutTodo = {} /\ requeueTodo = {}
RivalsOrOther == NoEventJobs /\ (OnlyRivals \/ OnlyOtherTx)

\* Bounds: the same for rivals of which one was signed too late.
LateRivals ==
  /\ NoEventJobs
  /\ evFails[e1] = 0
  /\ \A t \in Txs : onchain[t] = "none"
  /\ Untouched(3) /\ Untouched(4)

AnyHandler == Permutations(Handlers)
=============================================================================
