------------------------------ MODULE MultiSig ------------------------------
(***************************************************************************)
(* guard/multisig: the guards put together a threshold signature of one    *)
(* Ergo tx.  A guard asked to sign publishes a commitment; one that holds  *)
(* enough commitments starts a proof after a delay and sends it round; the *)
(* guards it did not simulate add their signature; whoever holds           *)
(* requiredSign of them answers its request.  A job drops what takes too   *)
(* long.                                                                   *)
(*                                                                         *)
(* Every handler works on its entry of the queue under one semaphore, so   *)
(* that it is one action.  Commitments are numbered in the order a guard   *)
(* draws their secrets.  Of the prover it is kept what it needs to answer  *)
(* (CanProve) and when the proof it extends still verifies (valid).        *)
(***************************************************************************)
EXTENDS Integers, FiniteSets

CONSTANTS
  Guards,
  requiredSign,
  txSignTimeout,  \* in ticks
  Introduced,     \* whether the guards know each other's peer ids
  MaxRequests,    \* bound: requests to sign at one guard
  MaxDelayed      \* bound: timers of delayedGenerateSign at one guard

ASSUME MultiSigAssumption ==
  /\ IsFiniteSet(Guards)
  /\ requiredSign \in Nat \ {0}
  /\ txSignTimeout \in Nat
  /\ Introduced \in BOOLEAN
  /\ MaxRequests \in Nat
  /\ MaxDelayed \in Nat

VARIABLES
  entry,     \* transactions of each guard: its TxQueued for the tx
  drawn,     \* number of secrets each guard has drawn
  delayed,   \* pending timers of delayedGenerateSign
  msgs,      \* messages that can be received, any number of times
  promise,   \* state of the requests to sign
  waited,    \* ticks since each request
  asked      \* history: guards that asked for the tx

vars == <<entry, drawn, delayed, msgs, promise, waited, asked>>

Requests == 1 .. MaxRequests
None == 0
Secret == 0 .. MaxRequests
Age == 0 .. txSignTimeout + 1
Commitments == [Guards -> Secret]

\* signed and simulated as in the payload; used: the commitment of each signer
\* that the proof rests on; valid: all signers computed the same challenge
Proof == [signed : SUBSET Guards, simulated : SUBSET Guards,
          used : Commitments, valid : BOOLEAN]
NoProof == [signed |-> {}, simulated |-> {},
            used |-> [p \in Guards |-> None], valid |-> FALSE]

TxQueued ==
  [tx : BOOLEAN, secret : Secret, commitments : Commitments, sign : Proof,
   request : Secret, createTime : Age]   \* createTime: the age of the entry
NewEntry ==
  [tx |-> FALSE, secret |-> None, commitments |-> [p \in Guards |-> None],
   sign |-> NoProof, request |-> None, createTime |-> 0]
NoEntry == [NewEntry EXCEPT !.createTime = -1]

CommitmentMessage ==
  [type : {"commitment"}, from : Guards, to : {Guards}, commitment : Secret]
SignMessage ==
  [type : {"sign"}, from : Guards, to : SUBSET Guards, proof : Proof,
   commitments : Commitments]

TypeOK ==
  /\ entry \in [Guards -> TxQueued \cup {NoEntry}]
  /\ drawn \in [Guards -> Secret]
  /\ delayed \in [Guards -> 0 .. MaxDelayed]
  /\ msgs \subseteq CommitmentMessage \cup SignMessage
  /\ promise \in [Guards -> [Requests ->
                    {"unasked", "pending", "resolved", "rejected", "lost"}]]
  /\ waited \in [Guards -> [Requests -> Age]]
  /\ asked \subseteq Guards

MultiSigInit ==
  /\ entry = [g \in Guards |-> NoEntry]
  /\ drawn = [g \in Guards |-> 0]
  /\ delayed = [g \in Guards |-> 0]
  /\ msgs = {}
  /\ promise = [g \in Guards |-> [r \in Requests |-> "unasked"]]
  /\ waited = [g \in Guards |-> [r \in Requests |-> 0]]
  /\ asked = {}

-----------------------------------------------------------------------------
(* The queue *)

getQueuedTransaction(g) == IF entry[g] = NoEntry THEN NewEntry ELSE entry[g]

Store(g, e) == entry' = [entry EXCEPT ![g] = e]

Known(e) == {p \in Guards : e.commitments[p] # None}

FullySigned(proof) == Cardinality(proof.signed) >= requiredSign

VerifiedAnswer(e) == IF e.sign.valid THEN "resolved" ELSE "rejected"

\* mutant: the entry stays in the queue when its request is answered
ResolveAndKeep(g, e) ==
  \/ /\ e.tx /\ FullySigned(e.sign)
     /\ promise' = [promise EXCEPT ![g][e.request] = VerifiedAnswer(e)]
     /\ Store(g, e)
  \/ Store(g, e) /\ UNCHANGED promise

\* Answers the request and takes the entry off the queue when the proof is
\* complete; the state of the chain it is verified against may be unavailable
processResolve(g, e) ==
  \/ /\ e.tx /\ FullySigned(e.sign)
     /\ promise' = [promise EXCEPT ![g][e.request] = VerifiedAnswer(e)]
     /\ Store(g, NoEntry)
  \/ Store(g, e) /\ UNCHANGED promise

-----------------------------------------------------------------------------
(* Signing *)

\* External: the prover needs a commitment of every signer that is neither
\* simulated nor has signed
CanProve(g, e, proof) ==
  Cardinality(proof.signed \cup (Known(e) \ proof.simulated)) >= requiredSign

\* The proofs a guard may start: commitments beyond the required number are
\* shuffled and the surplus simulated
FirstProofs(g, e) ==
  LET committed == Known(e) \ {g}
      real(cs) == {g} \cup cs
  IN  {[signed |-> {g},
        simulated |-> Guards \ real(cs),
        used |-> [p \in Guards |->
                    IF p = g THEN e.secret
                    ELSE IF p \in cs THEN e.commitments[p] ELSE None],
        valid |-> TRUE] :
       cs \in {c \in SUBSET committed :
                 \/ Cardinality(c) = requiredSign - 1
                 \/ c = committed /\ Cardinality(c) < requiredSign}}

\* The proofs that extend the one at hand.  The challenge is the same as that
\* of the signers before when all the commitments agree; what the prover
\* makes of a signer that was simulated is not fixed
ContinuedProofs(g, e) ==
  LET agrees ==
        /\ e.sign.used[g] = e.secret
        /\ \A p \in Guards \ (e.sign.signed \cup e.sign.simulated \cup {g}) :
             e.commitments[p] = e.sign.used[p]
  IN  {[e.sign EXCEPT !.signed = @ \cup {g}, !.used[g] = e.secret,
                      !.valid = @ /\ v] :
       v \in IF g \in e.sign.simulated THEN BOOLEAN ELSE {agrees}}

\* A message for nobody in particular is broadcast
Receivers(proof) ==
  IF FullySigned(proof) \/ ~Introduced
  THEN Guards ELSE Guards \ proof.simulated

SignPayload(g, e, proof) ==
  [type |-> "sign", from |-> g, to |-> Receivers(proof), proof |-> proof,
   commitments |-> IF FullySigned(proof)
                   THEN [p \in Guards |-> None] ELSE e.commitments]

\* The entries a guard may be left with and what it sends; a failure of the
\* prover is only logged
generateSign(g, e) ==
  IF ~e.tx \/ g \in e.sign.signed THEN {<<e, {}>>}
  ELSE {IF CanProve(g, e, proof)
        THEN <<[e EXCEPT !.sign = proof], {SignPayload(g, e, proof)}>>
        ELSE <<e, {}>> :
        proof \in IF e.sign = NoProof
                  THEN FirstProofs(g, e) ELSE ContinuedProofs(g, e)}

DrawsSecret(e) == e.secret = None

-----------------------------------------------------------------------------
(* The handlers *)

\* sign(): called by the processor of txs, again only when the former request
\* has been answered or has taken too long
sign(g, r) ==
  /\ promise[g][r] = "unasked"
  /\ \A q \in 1 .. r - 1 :
       \/ promise[g][q] \in {"rejected", "lost"}
       \/ promise[g][q] = "pending" /\ waited[g][q] > txSignTimeout
  /\ LET e == getQueuedTransaction(g)
         s == IF DrawsSecret(e) THEN drawn[g] + 1 ELSE e.secret
     IN  /\ Store(g, [e EXCEPT !.tx = TRUE, !.request = r, !.secret = s])
         /\ drawn' = [drawn EXCEPT ![g] = IF DrawsSecret(e) THEN s ELSE @]
         /\ msgs' = msgs \cup
              IF DrawsSecret(e)
              THEN {[type |-> "commitment", from |-> g, to |-> Guards,
                     commitment |-> s]}
              ELSE {}
  /\ promise' = [promise EXCEPT ![g][r] = "pending"]
  /\ asked' = asked \cup {g}
  /\ UNCHANGED <<delayed, waited>>

TakesCommitment(e) == e.sign = NoProof

handleCommitment(g, m) ==
  /\ m.type = "commitment" /\ g # m.from
  /\ LET e == getQueuedTransaction(g)
         f == IF TakesCommitment(e)
              THEN [e EXCEPT !.commitments[m.from] = m.commitment] ELSE e
         enough == /\ TakesCommitment(e) /\ e.tx
                   /\ Cardinality(Known(f)) >= requiredSign - 1
     IN  /\ Store(g, f)
         /\ enough => delayed[g] < MaxDelayed
         /\ delayed' = [delayed EXCEPT ![g] = IF enough THEN @ + 1 ELSE @]
  /\ UNCHANGED <<drawn, msgs, promise, waited, asked>>

delayedGenerateSign(g) ==
  /\ delayed[g] > 0
  /\ delayed' = [delayed EXCEPT ![g] = @ - 1]
  /\ \E result \in generateSign(g, getQueuedTransaction(g)) :
       /\ msgs' = msgs \cup result[2]
       /\ processResolve(g, result[1])
  /\ UNCHANGED <<drawn, waited, asked>>

Differ(a, b) == a # None /\ b # None /\ a # b

\* mutant: commitments are compared with the saved ones only
verifySavedOnly(g, e, m) ==
  /\ e.tx
  /\ \A p \in Guards : ~Differ(m.commitments[p], e.commitments[p])

\* Without the boxes of the tx no hints can be extracted (external)
verifySignedPayload(g, e, m) ==
  /\ e.tx
  /\ ~Differ(m.commitments[g], e.secret)
  /\ \A p \in Guards :
       /\ ~Differ(m.commitments[p], e.commitments[p])
       /\ p \in m.proof.signed => ~Differ(m.commitments[p], m.proof.used[p])

\* What a commitment message is signed over, and what the signature relayed
\* with a proof is checked against
CommitmentPayload(p, c) == [txId |-> "tx", commitment |-> c, index |-> p, id |-> p]
payloadToSign(c) == [txId |-> "tx", commitment |-> c]

verifySign(signedData, data) ==
  DOMAIN signedData = DOMAIN data /\ signedData = data

MergeCommitments(e, m) ==
  [e EXCEPT !.commitments = [p \in Guards |->
     IF /\ e.commitments[p] = None /\ m.commitments[p] # None
        /\ verifySign(CommitmentPayload(p, m.commitments[p]),
                      payloadToSign(m.commitments[p]))
     THEN m.commitments[p] ELSE e.commitments[p]]]

Better(g, proof, old) ==
  \/ old = NoProof
  \/ Cardinality(proof.signed \ {g}) > Cardinality(old.signed \ {g})

StoreProof(g, e, m) ==
  LET f == MergeCommitments(e, m)
  IN  IF Better(g, m.proof, f.sign) THEN [f EXCEPT !.sign = m.proof] ELSE f

handleSign(g, m) ==
  /\ m.type = "sign" /\ g \in m.to \ {m.from}
  /\ LET e == getQueuedTransaction(g)
         f == StoreProof(g, e, m)
         goesOn == g \notin f.sign.simulated /\ ~FullySigned(f.sign)
     IN  IF ~verifySignedPayload(g, e, m)
         THEN Store(g, e) /\ UNCHANGED <<msgs, promise>>
         ELSE \E result \in IF goesOn THEN generateSign(g, f) ELSE {<<f, {}>>} :
                /\ msgs' = msgs \cup result[2]
                /\ processResolve(g, result[1])
  /\ UNCHANGED <<drawn, delayed, waited, asked>>

\* mutant: the entry goes, and nobody is told
CleanSilently(g) == promise

RejectRequest(g) ==
  IF entry[g].request = None THEN promise
  ELSE [promise EXCEPT ![g][entry[g].request] = "rejected"]

Expired(g) == entry[g] # NoEntry /\ entry[g].createTime > txSignTimeout

cleanup(g) ==
  /\ Expired(g)
  /\ promise' = RejectRequest(g)
  /\ Store(g, NoEntry)
  /\ UNCHANGED <<drawn, delayed, msgs, waited, asked>>

Older(age) == IF age > txSignTimeout THEN age ELSE age + 1

\* Time passes at one guard
Tick(g) ==
  /\ entry' = [entry EXCEPT ![g].createTime =
                 IF entry[g] = NoEntry THEN @ ELSE Older(@)]
  /\ waited' = [waited EXCEPT ![g] = [r \in Requests |->
                  IF promise[g][r] = "pending" THEN Older(@[r]) ELSE @[r]]]
  /\ UNCHANGED <<drawn, delayed, msgs, promise, asked>>

\* The queue is in memory; the processor will ask again
Restart(g) ==
  /\ \E r \in Requests : promise[g][r] = "pending"
  /\ promise' = [promise EXCEPT ![g] = [r \in Requests |->
                   IF @[r] = "pending" THEN "lost" ELSE @[r]]]
  /\ Store(g, NoEntry)
  /\ delayed' = [delayed EXCEPT ![g] = 0]
  /\ UNCHANGED <<drawn, msgs, waited, asked>>

MultiSigStep(g) ==
  \/ \E r \in Requests : sign(g, r)
  \/ \E m \in msgs : handleCommitment(g, m) \/ handleSign(g, m)
  \/ delayedGenerateSign(g)
  \/ cleanup(g)
  \/ Tick(g)
  \/ Restart(g)

MultiSigNext == \E g \in Guards : MultiSigStep(g)

\* multiSigCleanupJob runs for ever, and so does the clock
MultiSigSpec ==
  /\ MultiSigInit /\ [][MultiSigNext]_vars
  /\ \A g \in Guards : WF_vars(cleanup(g)) /\ WF_vars(Tick(g))

-----------------------------------------------------------------------------
(* Properties *)

Signer == INSTANCE ThresholdSigner

\* The handlers, timers and clean-ups of all the guards together are a
\* threshold signer: a request is answered at most once, and with a signed tx
\* only when requiredSign guards were asked to sign that tx.
IsThresholdSigner == Signer!SignerSpec

\* Guards that lose their queue and draw new secrets while others hold their
\* former commitments never put together a full signature that does not
\* verify: "got invalid sign" does not happen, unless a guard signs that the
\* proof simulates.
FullProofsVerify ==
  \A m \in msgs :
    /\ m.type = "sign" /\ FullySigned(m.proof)
    /\ m.proof.signed \cap m.proof.simulated = {}
    => m.proof.valid

\* The latest request at a guard is answered, by a signed tx or by the clean-up,
\* however many messages are lost.
RequestIsAnswered ==
  \A g \in Guards, r \in Requests :
    promise[g][r] = "pending" ~>
      \/ promise[g][r] # "pending"
      \/ \E q \in Requests : q > r /\ promise[g][q] # "unasked"

\* A request that the clean-up rejects has waited for txSignTimeout.
CleanedAfterTimeout ==
  [][\A g \in Guards, r \in Requests :
       /\ cleanup(g) /\ entry[g].request = r
       => waited[g][r] > txSignTimeout]_vars

\* "if transaction signing started we do not need to process new commitments":
\* a guard that is to go on with a proof lacks no commitment for it.
NoCommitmentNeeded ==
  \A g \in Guards :
    /\ entry[g].sign # NoProof
    /\ g \notin entry[g].sign.signed \cup entry[g].sign.simulated
    => CanProve(g, entry[g], [entry[g].sign EXCEPT !.signed = @ \cup {g}])

\* A published commitment that comes with a proof is saved by a guard that did
\* not have it.
RelayedCommitmentSaved ==
  [][\A g, p \in Guards : \A m \in msgs :
       /\ handleSign(g, m) /\ entry'[g] # NoEntry
       /\ verifySignedPayload(g, getQueuedTransaction(g), m)
       /\ m.commitments[p] # None
       => entry'[g].commitments[p] # None]_vars
=============================================================================
