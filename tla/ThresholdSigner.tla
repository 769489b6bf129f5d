--------------------------- MODULE ThresholdSigner ---------------------------
(***************************************************************************)
(* What the guards may expect of a threshold signer: every request to sign *)
(* a tx is answered at most once, and answered with a signed tx only when  *)
(* requiredSign guards have asked for that tx, that is, have agreed to it. *)
(***************************************************************************)
EXTENDS Integers, FiniteSets

CONSTANTS Guards, requiredSign, MaxRequests

VARIABLES
  asked,    \* guards that ever asked for the tx to be signed
  promise   \* the state of the requests of each guard

Answer == {"resolved", "rejected"}

SignerInit ==
  /\ asked = {}
  /\ promise = [g \in Guards |-> [r \in 1 .. MaxRequests |-> "unasked"]]

Ask(g, r) ==
  /\ promise[g][r] = "unasked"
  /\ promise' = [promise EXCEPT ![g][r] = "pending"]
  /\ asked' = asked \cup {g}

AnswerRequest(g, r, a) ==
  /\ promise[g][r] = "pending"
  /\ a = "resolved" => Cardinality(asked) >= requiredSign
  /\ promise' = [promise EXCEPT ![g][r] = a]
  /\ UNCHANGED asked

\* A guard that stops forgets its requests
Forget(g) ==
  /\ promise' = [promise EXCEPT ![g] = [r \in 1 .. MaxRequests |->
                   IF @[r] = "pending" THEN "lost" ELSE @[r]]]
  /\ UNCHANGED asked

SignerNext ==
  \E g \in Guards :
    \/ \E r \in 1 .. MaxRequests :
         Ask(g, r) \/ \E a \in Answer : AnswerRequest(g, r, a)
    \/ Forget(g)

SignerSpec == SignerInit /\ [][SignerNext]_<<asked, promise>>
=============================================================================
