--------------------------- MODULE MultiSigProofs ---------------------------
(***************************************************************************)
(* Theorems about MultiSig, for any guards, any quorum, any time-out and   *)
(* any bounds.  A guard only ever signs for a tx it was asked for, and the *)
(* proofs it is sent carry only such signatures; its entry of the queue    *)
(* names a request that is not answered yet.  So the guards together are a *)
(* threshold signer.                                                       *)
(***************************************************************************)
EXTENDS MultiSig, FiniteSetTheorems, TLAPS

-----------------------------------------------------------------------------
(* The invariant *)

\* An entry that guard g may hold: its proof is signed by guards that were
\* asked only, and the request it names waits for the answer.
Sound(g, e) ==
  /\ e \in TxQueued
  /\ e.sign.signed \subseteq asked
  /\ e.tx => g \in asked /\ e.request # None
  /\ e.request # None => promise[g][e.request] = "pending"

EntriesSound == \A g \in Guards : entry[g] = NoEntry \/ Sound(g, entry[g])

SoundMessage(m) == m.type = "sign" => m.proof.signed \subseteq asked

\* A guard draws one secret at most for each request.
DrawnForRequests ==
  \A g \in Guards : \A r \in Requests : promise[g][r] = "unasked" => drawn[g] < r

SigInv ==
  /\ TypeOK
  /\ EntriesSound
  /\ \A m \in msgs : SoundMessage(m)
  /\ DrawnForRequests

-----------------------------------------------------------------------------
(* Entries and proofs *)

LEMMA Constants ==
  /\ IsFiniteSet(Guards) /\ requiredSign \in Nat \ {0} /\ txSignTimeout \in Nat
  /\ MaxRequests \in Nat /\ MaxDelayed \in Nat
BY MultiSigAssumption

LEMMA NewEntrySound == ASSUME NEW g \in Guards PROVE Sound(g, NewEntry)
<1>1. NoProof \in Proof
  BY Constants DEF NoProof, Proof, Commitments, Secret, None
<1>2. NewEntry \in TxQueued
  BY <1>1, Constants DEF NewEntry, TxQueued, Commitments, Secret, None, Age
<1>3. NewEntry.sign.signed = {} /\ ~NewEntry.tx /\ NewEntry.request = None
  BY DEF NewEntry, NoProof
<1>4. QED
  BY <1>2, <1>3 DEF Sound

LEMMA QueuedSound ==
  ASSUME SigInv, NEW g \in Guards PROVE Sound(g, getQueuedTransaction(g))
BY NewEntrySound DEF SigInv, EntriesSound, getQueuedTransaction

\* A proof that a guard starts or goes on with is a proof, with its signature
\* beside those of the proof it extends.
LEMMA OwnProof ==
  ASSUME NEW g \in Guards, NEW e \in TxQueued,
         NEW proof \in IF e.sign = NoProof
                       THEN FirstProofs(g, e) ELSE ContinuedProofs(g, e)
  PROVE  proof \in Proof /\ proof.signed \subseteq e.sign.signed \cup {g}
<1>1. /\ e.sign \in Proof /\ e.secret \in Secret /\ e.commitments \in Commitments
  BY DEF TxQueued
<1>2. CASE e.sign = NoProof
  <2>1. PICK cs \in SUBSET Guards :
          proof = [signed |-> {g},
                   simulated |-> Guards \ ({g} \cup cs),
                   used |-> [p \in Guards |->
                               IF p = g THEN e.secret
                               ELSE IF p \in cs THEN e.commitments[p] ELSE None],
                   valid |-> TRUE]
    BY <1>2 DEF FirstProofs, Known
  <2>2. proof.used \in Commitments
    BY <1>1, <2>1, Constants DEF Commitments, Secret, None
  <2>3. QED
    BY <2>1, <2>2 DEF Proof
<1>3. CASE e.sign # NoProof
  <2>1. PICK v \in BOOLEAN :
          proof = [e.sign EXCEPT !.signed = @ \cup {g}, !.used[g] = e.secret,
                                 !.valid = @ /\ v]
    BY <1>3 DEF ContinuedProofs
  <2>2. QED
    BY <1>1, <2>1 DEF Proof, Commitments
<1>4. QED
  BY <1>2, <1>3

LEMMA PayloadSound ==
  ASSUME NEW g \in Guards, NEW e \in TxQueued, NEW proof \in Proof,
         proof.signed \subseteq asked
  PROVE  /\ SignPayload(g, e, proof) \in SignMessage
         /\ SoundMessage(SignPayload(g, e, proof))
<1>1. Receivers(proof) \subseteq Guards
  BY DEF Receivers
<1>2. /\ e.commitments \in Commitments
      /\ [p \in Guards |-> None] \in Commitments
  BY Constants DEF TxQueued, Commitments, Secret, None
<1>3. QED
  BY <1>1, <1>2 DEF SignPayload, SignMessage, SoundMessage

\* What generateSign leaves in the queue, and sends, is sound.
LEMMA GeneratedSound ==
  ASSUME NEW g \in Guards, NEW e, Sound(g, e), NEW result \in generateSign(g, e)
  PROVE  /\ Sound(g, result[1])
         /\ result[2] \subseteq SignMessage
         /\ \A m \in result[2] : SoundMessage(m)
<1>1. CASE ~e.tx \/ g \in e.sign.signed
  BY <1>1 DEF generateSign
<1>2. CASE ~(~e.tx \/ g \in e.sign.signed)
  <2>1. PICK proof \in IF e.sign = NoProof
                       THEN FirstProofs(g, e) ELSE ContinuedProofs(g, e) :
          result = IF CanProve(g, e, proof)
                   THEN <<[e EXCEPT !.sign = proof], {SignPayload(g, e, proof)}>>
                   ELSE <<e, {}>>
    BY <1>2 DEF generateSign
  <2>2. proof \in Proof /\ proof.signed \subseteq asked
    BY <1>2, <2>1, OwnProof DEF Sound
  <2>3. /\ SignPayload(g, e, proof) \in SignMessage
        /\ SoundMessage(SignPayload(g, e, proof))
    BY <2>2, PayloadSound DEF Sound
  <2>4. Sound(g, [e EXCEPT !.sign = proof])
    BY <2>2 DEF Sound, TxQueued
  <2>5. QED
    BY <2>1, <2>3, <2>4
<1>3. QED
  BY <1>1, <1>2

\* So is what a guard makes of a proof it receives.
LEMMA ReceivedSound ==
  ASSUME NEW g \in Guards, NEW e, Sound(g, e),
         NEW m \in SignMessage, SoundMessage(m)
  PROVE  Sound(g, StoreProof(g, e, m))
<1> DEFINE f == MergeCommitments(e, m)
<1>1. f.commitments \in Commitments /\ f = [e EXCEPT !.commitments = f.commitments]
  BY DEF MergeCommitments, Sound, TxQueued, SignMessage, Commitments
<1>2. Sound(g, f)
  BY <1>1 DEF Sound, TxQueued
<1> HIDE DEF f
<1>3. m.proof \in Proof /\ m.proof.signed \subseteq asked
  BY DEF SignMessage, SoundMessage
<1>4. Sound(g, [f EXCEPT !.sign = m.proof])
  BY <1>2, <1>3 DEF Sound, TxQueued
<1>5. QED
  BY <1>2, <1>4 DEF StoreProof, f
-----------------------------------------------------------------------------
(* The steps *)

PromiseStates == {"unasked", "pending", "resolved", "rejected", "lost"}

LEMMA SignInit == MultiSigInit => SigInv
<1> SUFFICES ASSUME MultiSigInit PROVE SigInv
  OBVIOUS
<1>1. TypeOK
  BY Constants DEF MultiSigInit, TypeOK, Secret, Age
<1>2. DrawnForRequests
  BY Constants DEF MultiSigInit, DrawnForRequests, Requests
<1>3. QED
  BY <1>1, <1>2 DEF MultiSigInit, SigInv, EntriesSound

\* A guard stores a sound entry, and sends sound messages.
LEMMA Stored ==
  ASSUME SigInv, NEW g \in Guards, NEW f, Sound(g, f), Store(g, f),
         msgs' \subseteq CommitmentMessage \cup SignMessage,
         \A m \in msgs' : SoundMessage(m),
         delayed' \in [Guards -> 0 .. MaxDelayed],
         UNCHANGED <<drawn, promise, waited, asked>>
  PROVE  SigInv'
<1> USE DEF SigInv
<1>1. entry' = [entry EXCEPT ![g] = f]
  BY DEF Store
<1>2. TypeOK'
  BY <1>1 DEF TypeOK, Sound
<1>3. EntriesSound'
  BY <1>1 DEF EntriesSound, Sound, TypeOK
<1>4. (\A m \in msgs : SoundMessage(m))'
  BY DEF SoundMessage
<1>5. DrawnForRequests'
  BY DEF DrawnForRequests
<1>6. QED
  BY <1>2, <1>3, <1>4, <1>5

\* The answer of a request takes the entry off the queue.
LEMMA Answered ==
  ASSUME SigInv, NEW g \in Guards, NEW r \in Requests, promise[g][r] = "pending",
         NEW a \in {"resolved", "rejected"},
         promise' = [promise EXCEPT ![g][r] = a], Store(g, NoEntry),
         msgs' \subseteq CommitmentMessage \cup SignMessage,
         \A m \in msgs' : SoundMessage(m),
         delayed' \in [Guards -> 0 .. MaxDelayed],
         UNCHANGED <<drawn, waited, asked>>
  PROVE  SigInv'
<1> USE DEF SigInv
<1>1. entry' = [entry EXCEPT ![g] = NoEntry]
  BY DEF Store
<1>2. promise' \in [Guards -> [Requests -> PromiseStates]]
  BY DEF TypeOK, PromiseStates
<1>3. TypeOK'
  BY <1>1, <1>2 DEF TypeOK, PromiseStates
<1>4. \A h \in Guards \ {g} : entry'[h] = entry[h] /\ promise'[h] = promise[h]
  BY <1>1 DEF TypeOK
<1>5. EntriesSound'
  BY <1>1, <1>4 DEF EntriesSound, Sound, TypeOK
<1>6. (\A m \in msgs : SoundMessage(m))'
  BY DEF SoundMessage
<1>7. DrawnForRequests'
  BY <1>4 DEF DrawnForRequests, TypeOK
<1>8. QED
  BY <1>3, <1>5, <1>6, <1>7

LEMMA SameCardinality ==
  ASSUME NEW S PROVE Signer!Cardinality(S) = Cardinality(S)
BY DEF Signer!Cardinality, Cardinality

\* What the signer of the abstract specification does in such a step: nothing,
\* or an answer to a request, by a signed tx only when requiredSign guards
\* asked for it.
SignerStep == [Signer!SignerNext]_<<asked, promise>>

LEMMA Resolved ==
  ASSUME SigInv, NEW g \in Guards, NEW f, Sound(g, f), processResolve(g, f),
         NEW out, msgs' = msgs \cup out, out \subseteq CommitmentMessage \cup SignMessage,
         \A m \in out : SoundMessage(m),
         delayed' \in [Guards -> 0 .. MaxDelayed],
         UNCHANGED <<drawn, waited, asked>>
  PROVE  SigInv' /\ SignerStep
<1>0. /\ msgs' \subseteq CommitmentMessage \cup SignMessage
      /\ \A m \in msgs' : SoundMessage(m)
  BY DEF SigInv, TypeOK
<1>1. CASE Store(g, f) /\ UNCHANGED promise
  BY <1>0, <1>1, Stored DEF SignerStep
<1>2. CASE /\ f.tx /\ FullySigned(f.sign)
           /\ promise' = [promise EXCEPT ![g][f.request] = VerifiedAnswer(f)]
           /\ Store(g, NoEntry)
  <2>1. /\ f.request \in Requests /\ promise[g][f.request] = "pending"
        /\ VerifiedAnswer(f) \in {"resolved", "rejected"}
    BY <1>2, Constants DEF Sound, TxQueued, VerifiedAnswer, Secret, Requests, None
  <2>2. SigInv'
    BY <1>0, <1>2, <2>1, Answered
  <2>3. Cardinality(asked) >= requiredSign
    <3>1. asked \subseteq Guards /\ IsFiniteSet(asked)
      BY Constants, FS_Subset DEF SigInv, TypeOK
    <3>2. f.sign.signed \subseteq asked
      BY DEF Sound
    <3>3. IsFiniteSet(f.sign.signed) /\ Cardinality(f.sign.signed) <= Cardinality(asked)
      BY <3>1, <3>2, FS_Subset
    <3>4. Cardinality(f.sign.signed) \in Nat /\ Cardinality(asked) \in Nat
      BY <3>1, <3>3, FS_CardinalityType
    <3>5. QED
      BY <1>2, <3>3, <3>4, Constants DEF FullySigned
  <2>4. Signer!AnswerRequest(g, f.request, VerifiedAnswer(f))
    BY <1>2, <2>1, <2>3, SameCardinality DEF Signer!AnswerRequest
  <2>5. Signer!SignerNext
    BY <2>1, <2>4 DEF Signer!SignerNext, Signer!Answer, Requests
  <2>6. QED
    BY <2>2, <2>5 DEF SignerStep
<1>3. QED
  BY <1>1, <1>2 DEF processResolve
LEMMA SignStep ==
  ASSUME SigInv, NEW g \in Guards, NEW r \in Requests, sign(g, r)
  PROVE  SigInv' /\ SignerStep
<1> DEFINE e == getQueuedTransaction(g)
           s == IF DrawsSecret(e) THEN drawn[g] + 1 ELSE e.secret
           f == [e EXCEPT !.tx = TRUE, !.request = r, !.secret = s]
<1>1. /\ promise[g][r] = "unasked"
      /\ \A q \in 1 .. r - 1 : promise[g][q] # "unasked"
      /\ entry' = [entry EXCEPT ![g] = f]
      /\ drawn' = [drawn EXCEPT ![g] = IF DrawsSecret(e) THEN s ELSE @]
      /\ promise' = [promise EXCEPT ![g][r] = "pending"]
      /\ asked' = asked \cup {g}
      /\ UNCHANGED <<delayed, waited>>
  BY DEF sign, Store
<1>2. msgs' = msgs \cup
        IF DrawsSecret(e)
        THEN {[type |-> "commitment", from |-> g, to |-> Guards, commitment |-> s]}
        ELSE {}
  BY DEF sign
<1>3. Sound(g, e)
  BY QueuedSound
<1> HIDE DEF e
<1>4. r \in Secret /\ r # None /\ drawn[g] \in Nat /\ drawn[g] < r /\ r <= MaxRequests
  BY <1>1, Constants DEF Requests, Secret, None, SigInv, DrawnForRequests, TypeOK
<1>5. s \in Secret
  BY <1>3, <1>4, Constants DEF Sound, TxQueued, Secret
<1> HIDE DEF s
<1>6. /\ f \in TxQueued /\ f.sign = e.sign /\ f.request = r
  BY <1>3, <1>4, <1>5 DEF Sound, TxQueued
<1> HIDE DEF f
<1>a. PICK new : new = f
  OBVIOUS
<1>7. promise' \in [Guards -> [Requests -> PromiseStates]]
  BY <1>1 DEF SigInv, TypeOK, PromiseStates
<1>8. TypeOK'
  <2>1. msgs' \subseteq CommitmentMessage \cup SignMessage
    BY <1>2, <1>5 DEF CommitmentMessage, SigInv, TypeOK
  <2>2. drawn' \in [Guards -> Secret]
    BY <1>1, <1>5 DEF SigInv, TypeOK
  <2>3. QED
    BY <1>1, <1>6, <1>7, <2>1, <2>2 DEF SigInv, TypeOK, PromiseStates
<1>9. EntriesSound'
  <2>1. Sound(g, new)'
    <3>1. promise'[g][r] = "pending"
      BY <1>1 DEF SigInv, TypeOK
    <3>2. new \in TxQueued /\ new.sign.signed \subseteq asked' /\ g \in asked'
      BY <1>1, <1>3, <1>6, <1>a DEF Sound
    <3>3. new.request = r /\ r # None
      BY <1>4, <1>6, <1>a
    <3>4. QED
      BY <3>1, <3>2, <3>3 DEF Sound
  <2>2. ASSUME NEW h \in Guards \ {g} PROVE (entry[h] = NoEntry \/ Sound(h, entry[h]))'
    BY <1>1 DEF Sound, SigInv, EntriesSound, TypeOK
  <2>3. entry'[g] = new
    BY <1>1, <1>a DEF SigInv, TypeOK
  <2>4. QED
    BY <2>1, <2>2, <2>3 DEF EntriesSound
<1>10. (\A m \in msgs : SoundMessage(m))'
  BY <1>1, <1>2 DEF SoundMessage, SigInv
<1>11. DrawnForRequests'
  <2>1. drawn'[g] \in Nat /\ drawn'[g] <= r
    <3>1. drawn'[g] = IF DrawsSecret(e) THEN s ELSE drawn[g]
      BY <1>1 DEF SigInv, TypeOK
    <3>2. DrawsSecret(e) => s = drawn[g] + 1
      BY DEF s
    <3>3. QED
      BY <1>4, <3>1, <3>2 DEF Requests
  <2>2. ASSUME NEW q \in Requests, promise'[g][q] = "unasked" PROVE r < q
    <3>1. promise'[g] = [promise[g] EXCEPT ![r] = "pending"]
      BY <1>1 DEF SigInv, TypeOK
    <3>2. q # r /\ promise[g][q] = "unasked"
      BY <2>2, <3>1 DEF SigInv, TypeOK
    <3>3. q \notin 1 .. r - 1
      BY <1>1, <3>2
    <3>4. QED
      BY <3>2, <3>3, Constants DEF Requests
  <2>3. ASSUME NEW q \in Requests, promise'[g][q] = "unasked"
        PROVE  drawn'[g] < q
    BY <1>4, <2>1, <2>2, <2>3, Constants DEF Requests
  <2>4. QED
    BY <1>1, <2>3 DEF DrawnForRequests, SigInv, TypeOK
<1>12. SignerStep
  <2>1. Signer!Ask(g, r)
    BY <1>1 DEF Signer!Ask
  <2>2. QED
    BY <2>1 DEF SignerStep, Signer!SignerNext, Requests
<1>13. QED
  BY <1>8, <1>9, <1>10, <1>11, <1>12 DEF SigInv

LEMMA CommitmentStep ==
  ASSUME SigInv, NEW g \in Guards, NEW m \in msgs, handleCommitment(g, m)
  PROVE  SigInv' /\ SignerStep
<1> DEFINE e == getQueuedTransaction(g)
           f == IF TakesCommitment(e)
                THEN [e EXCEPT !.commitments[m.from] = m.commitment] ELSE e
<1>1. /\ m.type = "commitment"
      /\ Store(g, f)
      /\ UNCHANGED <<drawn, msgs, promise, waited, asked>>
      /\ \E enough \in BOOLEAN :
           /\ enough => delayed[g] < MaxDelayed
           /\ delayed' = [delayed EXCEPT ![g] = IF enough THEN @ + 1 ELSE @]
  BY DEF handleCommitment
<1>2. Sound(g, e)
  BY QueuedSound
<1>3. m \in CommitmentMessage
  BY <1>1 DEF SigInv, TypeOK, SignMessage
<1> HIDE DEF e
<1>4. Sound(g, f)
  BY <1>2, <1>3 DEF Sound, TxQueued, CommitmentMessage, Commitments
<1> HIDE DEF f
<1>5. delayed' \in [Guards -> 0 .. MaxDelayed]
  BY <1>1, Constants DEF SigInv, TypeOK
<1>6. SigInv'
  <2>1. /\ msgs' \subseteq CommitmentMessage \cup SignMessage
        /\ \A n \in msgs' : SoundMessage(n)
    BY <1>1 DEF SigInv, TypeOK
  <2>2. PICK new : new = f
    OBVIOUS
  <2>3. Sound(g, new) /\ Store(g, new)
    BY <1>1, <1>4, <2>2
  <2>4. QED
    BY <1>1, <1>5, <2>1, <2>3, Stored
<1>7. QED
  BY <1>1, <1>6 DEF SignerStep

LEMMA TimerStep ==
  ASSUME SigInv, NEW g \in Guards, delayedGenerateSign(g)
  PROVE  SigInv' /\ SignerStep
<1>1. PICK result \in generateSign(g, getQueuedTransaction(g)) :
        msgs' = msgs \cup result[2] /\ processResolve(g, result[1])
  BY DEF delayedGenerateSign
<1>2. /\ Sound(g, result[1])
      /\ result[2] \subseteq SignMessage
      /\ \A m \in result[2] : SoundMessage(m)
  BY QueuedSound, GeneratedSound
<1>3. /\ delayed' \in [Guards -> 0 .. MaxDelayed]
      /\ UNCHANGED <<drawn, waited, asked>>
  BY Constants DEF delayedGenerateSign, SigInv, TypeOK
<1>4. QED
  BY <1>1, <1>2, <1>3, Resolved

LEMMA ProofStep ==
  ASSUME SigInv, NEW g \in Guards, NEW m \in msgs, handleSign(g, m)
  PROVE  SigInv' /\ SignerStep
<1> DEFINE e == getQueuedTransaction(g)
           f == StoreProof(g, e, m)
           goesOn == g \notin f.sign.simulated /\ ~FullySigned(f.sign)
<1>1. m \in SignMessage /\ SoundMessage(m)
  BY DEF handleSign, SigInv, TypeOK, CommitmentMessage
<1>2. Sound(g, e) /\ Sound(g, f)
  BY <1>1, QueuedSound, ReceivedSound
<1>3. /\ delayed' \in [Guards -> 0 .. MaxDelayed]
      /\ UNCHANGED <<drawn, waited, asked>>
  BY DEF handleSign, SigInv, TypeOK
<1>4. CASE Store(g, e) /\ UNCHANGED <<msgs, promise>>
  <2>1. /\ msgs' \subseteq CommitmentMessage \cup SignMessage
        /\ \A n \in msgs' : SoundMessage(n)
    BY <1>4 DEF SigInv, TypeOK
  <2> HIDE DEF e
  <2>2. PICK old : old = e
    OBVIOUS
  <2>3. Sound(g, old) /\ Store(g, old)
    BY <1>2, <1>4, <2>2
  <2>4. SigInv'
    BY <1>3, <1>4, <2>1, <2>3, Stored
  <2>5. QED
    BY <1>3, <1>4, <2>4 DEF SignerStep
<1>5. ASSUME NEW result \in IF goesOn THEN generateSign(g, f) ELSE {<<f, {}>>},
             msgs' = msgs \cup result[2], processResolve(g, result[1])
      PROVE  SigInv' /\ SignerStep
  <2> HIDE DEF f
  <2>1. /\ Sound(g, result[1])
        /\ result[2] \subseteq SignMessage
        /\ \A n \in result[2] : SoundMessage(n)
    <3>1. CASE goesOn
      BY <1>2, <3>1, GeneratedSound
    <3>2. CASE ~goesOn
      BY <1>2, <3>2
    <3>3. QED
      BY <3>1, <3>2
  <2>2. QED
    BY <1>3, <1>5, <2>1, Resolved
<1>6. QED
  BY <1>4, <1>5 DEF handleSign
LEMMA CleanupStep ==
  ASSUME SigInv, NEW g \in Guards, cleanup(g)
  PROVE  SigInv' /\ SignerStep
<1>1. /\ entry[g] # NoEntry /\ Sound(g, entry[g])
      /\ Store(g, NoEntry) /\ promise' = RejectRequest(g)
      /\ UNCHANGED <<drawn, delayed, msgs, waited, asked>>
  BY DEF cleanup, Expired, SigInv, EntriesSound
<1>2. CASE entry[g].request = None
  <2>1. UNCHANGED promise
    BY <1>1, <1>2 DEF RejectRequest
  <2>2. entry' = [entry EXCEPT ![g] = NoEntry]
    BY <1>1 DEF Store
  <2>3. TypeOK'
    BY <1>1, <2>1, <2>2 DEF SigInv, TypeOK
  <2>4. EntriesSound'
    BY <1>1, <2>1, <2>2 DEF EntriesSound, Sound, SigInv, TypeOK
  <2>5. DrawnForRequests' /\ (\A m \in msgs : SoundMessage(m))'
    BY <1>1, <2>1 DEF DrawnForRequests, SoundMessage, SigInv
  <2>6. QED
    BY <1>1, <2>1, <2>3, <2>4, <2>5 DEF SigInv, SignerStep
<1>3. CASE entry[g].request # None
  <2>1. PICK r : r = entry[g].request
    OBVIOUS
  <2>2. /\ r \in Requests /\ promise[g][r] = "pending"
        /\ promise' = [promise EXCEPT ![g][r] = "rejected"]
    BY <1>1, <1>3, <2>1, Constants
       DEF Sound, TxQueued, Secret, Requests, None, RejectRequest
  <2>3. SigInv'
    <3>1. /\ msgs' \subseteq CommitmentMessage \cup SignMessage
          /\ \A m \in msgs' : SoundMessage(m)
          /\ delayed' \in [Guards -> 0 .. MaxDelayed]
      BY <1>1 DEF SigInv, TypeOK
    <3>2. QED
      BY <1>1, <2>2, <3>1, Answered
  <2>4. Signer!AnswerRequest(g, r, "rejected")
    BY <1>1, <2>2 DEF Signer!AnswerRequest
  <2>5. QED
    BY <2>2, <2>3, <2>4 DEF SignerStep, Signer!SignerNext, Signer!Answer, Requests
<1>4. QED
  BY <1>2, <1>3

LEMMA TickStep ==
  ASSUME SigInv, NEW g \in Guards, Tick(g)
  PROVE  SigInv' /\ SignerStep
<1>1. /\ \E age : entry' = [entry EXCEPT ![g].createTime = age]
                  /\ age = IF entry[g] = NoEntry THEN entry[g].createTime
                          ELSE Older(entry[g].createTime)
      /\ UNCHANGED <<drawn, delayed, msgs, promise, asked>>
  BY DEF Tick, SigInv, TypeOK, TxQueued, NoEntry, NewEntry
<1>2. \A age \in Age : Older(age) \in Age
  BY Constants DEF Age, Older
<1>3. waited' \in [Guards -> [Requests -> Age]]
  BY <1>2 DEF Tick, SigInv, TypeOK
<1>4. CASE entry[g] = NoEntry
  <2>1. entry' = entry
    <3>1. PICK age : /\ entry' = [entry EXCEPT ![g].createTime = age]
                     /\ age = NoEntry.createTime
      BY <1>1, <1>4
    <3>2. [NoEntry EXCEPT !.createTime = age] = NoEntry
      BY <3>1 DEF NoEntry, NewEntry
    <3>3. entry' = [entry EXCEPT ![g] = NoEntry]
      BY <1>4, <3>1, <3>2 DEF SigInv, TypeOK
    <3>4. QED
      BY <1>4, <3>3 DEF SigInv, TypeOK
  <2>2. QED
    BY <1>1, <1>3, <2>1
       DEF SigInv, TypeOK, EntriesSound, Sound, SoundMessage, DrawnForRequests,
           SignerStep
<1>5. CASE entry[g] # NoEntry
  <2>1. Sound(g, entry[g]) /\ entry[g] \in TxQueued
    BY <1>5 DEF SigInv, EntriesSound, Sound
  <2>2. PICK age \in Age : entry' = [entry EXCEPT ![g].createTime = age]
    BY <1>1, <1>2, <1>5, <2>1 DEF TxQueued
  <2>3. PICK e : e = [entry[g] EXCEPT !.createTime = age]
    OBVIOUS
  <2>4. /\ e \in TxQueued /\ e.sign = entry[g].sign /\ e.tx = entry[g].tx
        /\ e.request = entry[g].request
    BY <2>1, <2>3 DEF TxQueued
  <2>5. entry' = [entry EXCEPT ![g] = e]
    BY <2>2, <2>3 DEF SigInv, TypeOK
  <2>6. TypeOK'
    BY <1>1, <1>3, <2>4, <2>5 DEF SigInv, TypeOK
  <2>7. Sound(g, e)'
    BY <1>1, <2>1, <2>4 DEF Sound
  <2>8. EntriesSound'
    BY <1>1, <2>5, <2>7 DEF EntriesSound, Sound, SigInv, TypeOK
  <2>9. QED
    BY <1>1, <2>6, <2>8 DEF SigInv, SoundMessage, DrawnForRequests, SignerStep
<1>6. QED
  BY <1>4, <1>5

LEMMA RestartStep ==
  ASSUME SigInv, NEW g \in Guards, Restart(g)
  PROVE  SigInv' /\ SignerStep
<1>1. /\ promise' = [promise EXCEPT ![g] = [r \in Requests |->
                        IF @[r] = "pending" THEN "lost" ELSE @[r]]]
      /\ entry' = [entry EXCEPT ![g] = NoEntry]
      /\ delayed' = [delayed EXCEPT ![g] = 0]
      /\ UNCHANGED <<drawn, msgs, waited, asked>>
  BY DEF Restart, Store
<1>2. promise' \in [Guards -> [Requests -> PromiseStates]]
  BY <1>1 DEF SigInv, TypeOK, PromiseStates
<1>3. TypeOK'
  BY <1>1, <1>2, Constants DEF SigInv, TypeOK, PromiseStates
<1>4. \A h \in Guards \ {g} : entry'[h] = entry[h] /\ promise'[h] = promise[h]
  BY <1>1 DEF SigInv, TypeOK
<1>5. EntriesSound'
  BY <1>1, <1>4 DEF SigInv, EntriesSound, Sound, TypeOK
<1>6. (\A m \in msgs : SoundMessage(m))'
  BY <1>1 DEF SigInv, SoundMessage
<1>7. DrawnForRequests'
  BY <1>1, <1>4 DEF SigInv, DrawnForRequests, TypeOK
<1>8. SignerStep
  <2>1. Signer!Forget(g)
    BY <1>1 DEF Signer!Forget, Requests
  <2>2. QED
    BY <2>1 DEF SignerStep, Signer!SignerNext
<1>9. QED
  BY <1>3, <1>5, <1>6, <1>7, <1>8 DEF SigInv

LEMMA AnyStep == SigInv /\ [MultiSigNext]_vars => SigInv' /\ SignerStep
<1> SUFFICES ASSUME SigInv, [MultiSigNext]_vars PROVE SigInv' /\ SignerStep
  OBVIOUS
<1>1. CASE MultiSigNext
  <2>1. PICK g \in Guards : MultiSigStep(g)
    BY <1>1 DEF MultiSigNext
  <2>2. QED
    BY <2>1, SignStep, CommitmentStep, TimerStep, ProofStep, CleanupStep,
       TickStep, RestartStep DEF MultiSigStep
<1>2. CASE UNCHANGED vars
  BY <1>2 DEF vars, SigInv, TypeOK, EntriesSound, Sound, SoundMessage,
              DrawnForRequests, SignerStep
<1>3. QED
  BY <1>1, <1>2

-----------------------------------------------------------------------------
(* Why a full proof verifies.  A proof that no simulated guard signed is the *)
(* work of exactly requiredSign guards, each under the commitment the proof  *)
(* started with: those who have not signed find theirs in the proof, and the *)
(* commitments of the others beside it.                                      *)

Clean(proof) == proof.signed \cap proof.simulated = {}

\* The guards whose signature the proof is made of or waits for.
Real(proof) == Guards \ proof.simulated

SoundProof(proof) ==
  /\ proof.signed # {}
  /\ Clean(proof) => proof.valid /\ Cardinality(Real(proof)) = requiredSign

Carries(m) ==
  m.type = "sign" =>
    /\ SoundProof(m.proof)
    /\ Clean(m.proof) /\ ~FullySigned(m.proof) =>
         \A p \in Real(m.proof) \ m.proof.signed :
           m.commitments[p] # None /\ m.commitments[p] = m.proof.used[p]

\* The secret and the commitments of a guard that may go on with a proof are
\* those the proof rests on.
Agrees(g, e) ==
  Clean(e.sign) /\ g \notin e.sign.signed =>
    /\ g \in Real(e.sign) => e.sign.used[g] = e.secret
    /\ \A p \in Real(e.sign) \ (e.sign.signed \cup {g}) :
         e.commitments[p] # None => e.commitments[p] = e.sign.used[p]

Fit(g, e) ==
  /\ e.commitments[g] = None
  /\ e.tx => e.secret # None
  /\ e.sign # NoProof => e.tx /\ SoundProof(e.sign) /\ Agrees(g, e)

ProofInv ==
  /\ \A g \in Guards : entry[g] = NoEntry \/ Fit(g, entry[g])
  /\ \A m \in msgs : Carries(m)

LEMMA NewEntryFits ==
  ASSUME NEW g \in Guards PROVE Fit(g, NewEntry)
BY DEF Fit, NewEntry

LEMMA QueuedFits ==
  ASSUME ProofInv, NEW g \in Guards PROVE Fit(g, getQueuedTransaction(g))
BY NewEntryFits DEF ProofInv, getQueuedTransaction

\* Once requiredSign guards have signed a proof that no simulated guard signed,
\* nobody else is left to sign it.
LEMMA FullIsReal ==
  ASSUME NEW proof \in Proof, SoundProof(proof), Clean(proof), FullySigned(proof)
  PROVE  proof.signed = Real(proof)
<1>1. /\ Real(proof) \subseteq Guards /\ proof.signed \subseteq Real(proof)
  BY DEF Real, Clean, Proof
<1>2. IsFiniteSet(Real(proof))
  BY <1>1, Constants, FS_Subset
<1>3. Cardinality(proof.signed) = Cardinality(Real(proof))
  <2>1. Cardinality(proof.signed) <= Cardinality(Real(proof))
    BY <1>1, <1>2, FS_Subset
  <2>2. IsFiniteSet(proof.signed) /\ Cardinality(proof.signed) \in Nat
    BY <1>1, <1>2, FS_Subset, FS_CardinalityType
  <2>3. QED
    BY <2>1, <2>2, Constants DEF SoundProof, FullySigned
<1>4. QED
  BY <1>1, <1>2, <1>3, FS_Subset

\* A proof a guard starts is by requiredSign guards, when the prover has their
\* commitments, and rests on those.
LEMMA FirstProofFits ==
  ASSUME NEW g \in Guards, NEW e \in TxQueued, Fit(g, e), e.tx,
         NEW proof \in FirstProofs(g, e), CanProve(g, e, proof)
  PROVE  /\ SoundProof(proof) /\ g \in proof.signed
         /\ \A p \in Real(proof) \ proof.signed :
              e.commitments[p] # None /\ e.commitments[p] = proof.used[p]
<1> DEFINE committed == Known(e) \ {g}
<1>1. PICK cs \in SUBSET committed :
        /\ \/ Cardinality(cs) = requiredSign - 1
           \/ Cardinality(cs) < requiredSign
        /\ proof = [signed |-> {g},
                    simulated |-> Guards \ ({g} \cup cs),
                    used |-> [p \in Guards |->
                                IF p = g THEN e.secret
                                ELSE IF p \in cs THEN e.commitments[p] ELSE None],
                    valid |-> TRUE]
  BY DEF FirstProofs
<1>2. cs \subseteq Guards /\ g \notin cs /\ \A p \in cs : e.commitments[p] # None
  BY DEF Known
<1>3. /\ IsFiniteSet(cs) /\ Cardinality(cs) \in Nat
      /\ Cardinality(cs \cup {g}) = Cardinality(cs) + 1
  BY <1>2, Constants, FS_Subset, FS_CardinalityType, FS_AddElement
<1>4. Real(proof) = cs \cup {g} /\ proof.signed = {g} /\ proof.valid
  BY <1>1, <1>2 DEF Real
<1>5. proof.signed \cup (Known(e) \ proof.simulated) \subseteq cs \cup {g}
  BY <1>1 DEF Known
<1>6. Cardinality(cs \cup {g}) >= requiredSign
  <2>1. PICK S : S = proof.signed \cup (Known(e) \ proof.simulated)
    OBVIOUS
  <2>2. Cardinality(S) >= requiredSign
    BY <2>1 DEF CanProve
  <2>3. IsFiniteSet(cs \cup {g})
    BY <1>3, FS_AddElement
  <2>4. IsFiniteSet(S) /\ Cardinality(S) <= Cardinality(cs \cup {g})
    BY <1>5, <2>1, <2>3, FS_Subset
  <2>5. Cardinality(S) \in Nat /\ Cardinality(cs \cup {g}) \in Nat
    BY <2>3, <2>4, FS_CardinalityType
  <2>6. QED
    BY <2>2, <2>4, <2>5, Constants
<1>7. Cardinality(Real(proof)) = requiredSign
  <2>1. Cardinality(cs) < requiredSign
    BY <1>1, <1>3, Constants
  <2>2. QED
    BY <1>3, <1>4, <1>6, <2>1, Constants
<1>8. \A p \in Real(proof) \ proof.signed :
        e.commitments[p] # None /\ e.commitments[p] = proof.used[p]
  BY <1>1, <1>2, <1>4
<1>9. QED
  BY <1>4, <1>7, <1>8 DEF SoundProof

\* A guard that goes on with a proof it is not simulated in finds that all the
\* commitments agree.
LEMMA ContinuedProofFits ==
  ASSUME NEW g \in Guards, NEW e \in TxQueued, Fit(g, e), e.tx,
         e.sign # NoProof, g \notin e.sign.signed,
         NEW proof \in ContinuedProofs(g, e), CanProve(g, e, proof)
  PROVE  /\ SoundProof(proof) /\ g \in proof.signed
         /\ Clean(proof) => \A p \in Real(proof) \ proof.signed :
              e.commitments[p] # None /\ e.commitments[p] = proof.used[p]
<1>1. /\ e.sign \in Proof /\ SoundProof(e.sign) /\ Agrees(g, e)
      /\ e.commitments[g] = None
  BY DEF Fit, TxQueued
<1>2. /\ proof.signed = e.sign.signed \cup {g}
      /\ proof.simulated = e.sign.simulated
      /\ \A p \in Guards \ {g} : proof.used[p] = e.sign.used[p]
  <2>1. PICK v \in BOOLEAN :
          proof = [e.sign EXCEPT !.signed = @ \cup {g}, !.used[g] = e.secret,
                                 !.valid = @ /\ v]
    BY DEF ContinuedProofs
  <2>2. QED
    BY <1>1, <2>1 DEF Proof, Commitments
<1>3. ASSUME Clean(proof)
      PROVE  /\ proof.valid /\ Cardinality(Real(proof)) = requiredSign
             /\ \A p \in Real(proof) \ proof.signed :
                  e.commitments[p] # None /\ e.commitments[p] = proof.used[p]
  <2>1. Clean(e.sign) /\ g \in Real(e.sign) /\ g \notin e.sign.simulated
    BY <1>2, <1>3 DEF Clean, Real
  <2>2. e.sign.valid /\ Cardinality(Real(e.sign)) = requiredSign
    BY <1>1, <2>1 DEF SoundProof
  <2>3. Real(proof) = Real(e.sign)
    BY <1>2 DEF Real
  <2>4. proof.signed \cup (Known(e) \ proof.simulated) = Real(proof)
    <3>1. PICK S : S = proof.signed \cup (Known(e) \ proof.simulated)
      OBVIOUS
    <3>2. S \subseteq Real(proof) /\ Real(proof) \subseteq Guards
      BY <1>1, <1>2, <1>3, <3>1 DEF Real, Clean, Known, Proof
    <3>3. IsFiniteSet(Real(proof)) /\ IsFiniteSet(S)
      BY <3>2, Constants, FS_Subset
    <3>4. /\ Cardinality(S) \in Nat /\ Cardinality(Real(proof)) \in Nat
          /\ Cardinality(S) <= Cardinality(Real(proof))
      BY <3>2, <3>3, FS_Subset, FS_CardinalityType
    <3>5. Cardinality(S) = Cardinality(Real(proof))
      BY <2>2, <2>3, <3>1, <3>4, Constants DEF CanProve
    <3>6. QED
      BY <3>1, <3>2, <3>3, <3>5, FS_Subset
  <2>5. \A p \in Real(proof) \ proof.signed :
          e.commitments[p] # None /\ e.commitments[p] = e.sign.used[p]
    <3>1. \A p \in Real(proof) \ proof.signed : e.commitments[p] # None
      BY <2>4 DEF Known
    <3>2. QED
      BY <1>1, <1>2, <2>1, <2>3, <3>1 DEF Agrees
  <2>6. /\ e.sign.used[g] = e.secret
        /\ \A p \in Guards \ (e.sign.signed \cup e.sign.simulated \cup {g}) :
             e.commitments[p] = e.sign.used[p]
    BY <1>1, <1>2, <2>1, <2>3, <2>5 DEF Agrees, Real
  <2>7. proof.valid
    BY <1>1, <2>1, <2>2, <2>6 DEF ContinuedProofs, Proof
  <2>8. QED
    BY <1>2, <2>2, <2>3, <2>5, <2>7 DEF Real
<1>4. QED
  BY <1>2, <1>3 DEF SoundProof

\* What generateSign leaves in the queue fits, and what it sends carries the
\* commitments that the next guards need.
LEMMA GeneratedFits ==
  ASSUME NEW g \in Guards, NEW e \in TxQueued, Fit(g, e),
         NEW result \in generateSign(g, e)
  PROVE  Fit(g, result[1]) /\ \A m \in result[2] : Carries(m)
<1>1. CASE ~e.tx \/ g \in e.sign.signed
  BY <1>1 DEF generateSign
<1>2. CASE ~(~e.tx \/ g \in e.sign.signed)
  <2>1. PICK proof \in IF e.sign = NoProof
                       THEN FirstProofs(g, e) ELSE ContinuedProofs(g, e) :
          result = IF CanProve(g, e, proof)
                   THEN <<[e EXCEPT !.sign = proof], {SignPayload(g, e, proof)}>>
                   ELSE <<e, {}>>
    BY <1>2 DEF generateSign
  <2>2. CASE ~CanProve(g, e, proof)
    BY <2>1, <2>2
  <2>3. CASE CanProve(g, e, proof)
    <3>1. /\ SoundProof(proof) /\ g \in proof.signed
          /\ Clean(proof) => \A p \in Real(proof) \ proof.signed :
               e.commitments[p] # None /\ e.commitments[p] = proof.used[p]
      BY <1>2, <2>1, <2>3, FirstProofFits, ContinuedProofFits
    <3>2. Fit(g, [e EXCEPT !.sign = proof])
      BY <1>2, <3>1 DEF Fit, Agrees, TxQueued
    <3>3. Carries(SignPayload(g, e, proof))
      BY <3>1 DEF Carries, SignPayload
    <3>4. QED
      BY <2>1, <2>3, <3>2, <3>3
  <2>4. QED
    BY <2>2, <2>3
<1>3. QED
  BY <1>1, <1>2

\* The signature relayed with a proof is checked over another payload than the
\* one that was signed, so no commitment is taken from a proof.
LEMMA NothingMerged ==
  ASSUME NEW e \in TxQueued, NEW m PROVE MergeCommitments(e, m) = e
<1>1. \A p, c : ~verifySign(CommitmentPayload(p, c), payloadToSign(c))
  <2>1. TAKE p, c
  <2>2. /\ "index" \in DOMAIN CommitmentPayload(p, c)
        /\ "index" \notin DOMAIN payloadToSign(c)
    BY DEF CommitmentPayload, payloadToSign
  <2>3. QED
    BY <2>2 DEF verifySign
<1>2. MergeCommitments(e, m)
        = [e EXCEPT !.commitments = [p \in Guards |-> e.commitments[p]]]
  BY <1>1 DEF MergeCommitments
<1>3. [p \in Guards |-> e.commitments[p]] = e.commitments
  BY DEF TxQueued, Commitments
<1>4. QED
  BY <1>2, <1>3 DEF TxQueued

\* A proof that passes verifySignedPayload agrees with the entry.
LEMMA ReceivedFits ==
  ASSUME NEW g \in Guards, NEW e \in TxQueued, Fit(g, e),
         NEW m \in SignMessage, Carries(m), verifySignedPayload(g, e, m)
  PROVE  Fit(g, StoreProof(g, e, m))
<1>1. StoreProof(g, e, m) =
        IF Better(g, m.proof, e.sign) THEN [e EXCEPT !.sign = m.proof] ELSE e
  BY NothingMerged DEF StoreProof
<1> DEFINE f == [e EXCEPT !.sign = m.proof]
<1>2. /\ f.sign = m.proof /\ f.tx = e.tx /\ f.secret = e.secret
      /\ f.commitments = e.commitments
  BY DEF TxQueued
<1>3. e.tx /\ e.secret # None /\ SoundProof(m.proof) /\ m.proof \in Proof
  BY DEF Carries, verifySignedPayload, Fit, SignMessage
<1>4. ASSUME Clean(m.proof), g \notin m.proof.signed
      PROVE  /\ g \in Real(m.proof) => m.proof.used[g] = e.secret
             /\ \A p \in Real(m.proof) \ (m.proof.signed \cup {g}) :
                  e.commitments[p] # None => e.commitments[p] = m.proof.used[p]
  <2>1. CASE FullySigned(m.proof)
    <3>1. m.proof.signed = Real(m.proof)
      BY <1>3, <1>4, <2>1, FullIsReal
    <3>2. QED
      BY <1>4, <3>1
  <2>2. CASE ~FullySigned(m.proof)
    <3>1. \A p \in Real(m.proof) \ m.proof.signed :
            m.commitments[p] # None /\ m.commitments[p] = m.proof.used[p]
      BY <1>4, <2>2 DEF Carries, SignMessage
    <3>2. /\ ~Differ(m.commitments[g], e.secret)
          /\ \A p \in Guards : ~Differ(m.commitments[p], e.commitments[p])
      BY DEF verifySignedPayload
    <3>3. QED
      BY <1>3, <1>4, <3>1, <3>2 DEF Differ, Real
  <2>3. QED
    BY <2>1, <2>2
<1>5. Fit(g, f)
  BY <1>2, <1>3, <1>4 DEF Fit, Agrees
<1>6. QED
  BY <1>1, <1>5

LEMMA ProofInit == MultiSigInit => ProofInv
BY DEF MultiSigInit, ProofInv

\* A guard stores an entry that fits, or none, and sends messages that carry
\* what they should.
LEMMA StoredFits ==
  ASSUME SigInv, ProofInv, NEW g \in Guards, NEW f, f = NoEntry \/ Fit(g, f),
         entry' = [entry EXCEPT ![g] = f],
         \A m \in msgs' \ msgs : Carries(m)
  PROVE  ProofInv'
<1>1. \A m \in msgs' : Carries(m)
  BY DEF ProofInv
<1>2. (\A m \in msgs : Carries(m))'
  BY <1>1
<1>3. ASSUME NEW h \in Guards PROVE entry'[h] = NoEntry \/ Fit(h, entry'[h])
  BY DEF ProofInv, SigInv, TypeOK
<1>4. \A h \in Guards : (entry[h] = NoEntry \/ Fit(h, entry[h]))'
  BY <1>3
<1>5. QED
  BY <1>2, <1>4 DEF ProofInv

LEMMA ResolvedFits ==
  ASSUME SigInv, ProofInv, NEW g \in Guards, NEW f, Fit(g, f),
         processResolve(g, f),
         NEW out, msgs' = msgs \cup out, \A m \in out : Carries(m)
  PROVE  ProofInv'
<1>1. \A m \in msgs' \ msgs : Carries(m)
  OBVIOUS
<1>2. CASE entry' = [entry EXCEPT ![g] = f]
  BY <1>1, <1>2, StoredFits
<1>3. CASE entry' = [entry EXCEPT ![g] = NoEntry]
  BY <1>1, <1>3, StoredFits
<1>4. QED
  BY <1>2, <1>3 DEF processResolve, Store

LEMMA ProofInvStep ==
  ASSUME SigInv, ProofInv, NEW g \in Guards, MultiSigStep(g)
  PROVE  ProofInv'
<1> DEFINE e == getQueuedTransaction(g)
<1>1. e \in TxQueued /\ Fit(g, e)
  BY QueuedSound, QueuedFits DEF Sound
<1>2. ASSUME NEW r \in Requests, sign(g, r) PROVE ProofInv'
  <2> DEFINE s == IF DrawsSecret(e) THEN drawn[g] + 1 ELSE e.secret
             f == [e EXCEPT !.tx = TRUE, !.request = r, !.secret = s]
  <2>1. entry' = [entry EXCEPT ![g] = f]
    BY <1>2 DEF sign, Store
  <2>2. \A m \in msgs' \ msgs : Carries(m)
    BY <1>2 DEF sign, Carries
  <2> HIDE DEF e
  <2>3. s # None
    BY DEF DrawsSecret, SigInv, TypeOK, Secret, None
  <2>4. DrawsSecret(e) => e.sign = NoProof
    BY <1>1 DEF Fit, DrawsSecret
  <2>5. ~DrawsSecret(e) => s = e.secret
    OBVIOUS
  <2> HIDE DEF s
  <2>6. Fit(g, f)
    BY <1>1, <2>3, <2>4, <2>5 DEF Fit, Agrees, TxQueued
  <2> HIDE DEF f
  <2>7. QED
    BY <2>1, <2>2, <2>6, StoredFits
<1>3. ASSUME NEW m \in msgs, handleCommitment(g, m) PROVE ProofInv'
  <2> DEFINE f == IF TakesCommitment(e)
                  THEN [e EXCEPT !.commitments[m.from] = m.commitment] ELSE e
  <2>1. /\ entry' = [entry EXCEPT ![g] = f] /\ msgs' = msgs
        /\ m.from # g
    BY <1>3 DEF handleCommitment, Store
  <2> HIDE DEF e
  <2>2. Fit(g, f)
    BY <1>1, <2>1 DEF Fit, Agrees, TakesCommitment, TxQueued, Commitments
  <2> HIDE DEF f
  <2>3. QED
    BY <2>1, <2>2, StoredFits
<1>4. ASSUME NEW m \in msgs, handleSign(g, m) PROVE ProofInv'
  <2> DEFINE f == StoreProof(g, e, m)
             goesOn == g \notin f.sign.simulated /\ ~FullySigned(f.sign)
  <2>1. m \in SignMessage /\ SoundMessage(m) /\ Carries(m)
    BY <1>4 DEF handleSign, SigInv, TypeOK, CommitmentMessage, ProofInv
  <2>2. CASE ~verifySignedPayload(g, e, m)
    <3>1. entry' = [entry EXCEPT ![g] = e] /\ msgs' = msgs
      BY <1>4, <2>2 DEF handleSign, Store
    <3> HIDE DEF e
    <3>2. QED
      BY <1>1, <3>1, StoredFits
  <2>3. CASE verifySignedPayload(g, e, m)
    <3>1. PICK result \in IF goesOn THEN generateSign(g, f) ELSE {<<f, {}>>} :
            msgs' = msgs \cup result[2] /\ processResolve(g, result[1])
      BY <1>4, <2>3 DEF handleSign
    <3>2. Fit(g, f) /\ f \in TxQueued
      BY <1>1, <2>1, <2>3, ReceivedFits, ReceivedSound, QueuedSound DEF Sound
    <3> HIDE DEF f
    <3>3. Fit(g, result[1]) /\ \A n \in result[2] : Carries(n)
      <4>1. CASE goesOn
        BY <3>1, <3>2, <4>1, GeneratedFits
      <4>2. CASE ~goesOn
        BY <3>1, <3>2, <4>2
      <4>3. QED
        BY <4>1, <4>2
    <3>4. QED
      BY <3>1, <3>3, ResolvedFits
  <2>4. QED
    BY <2>2, <2>3
<1>5. ASSUME delayedGenerateSign(g) PROVE ProofInv'
  <2>1. PICK result \in generateSign(g, e) :
          msgs' = msgs \cup result[2] /\ processResolve(g, result[1])
    BY <1>5 DEF delayedGenerateSign
  <2>2. Fit(g, result[1]) /\ \A m \in result[2] : Carries(m)
    BY <1>1, GeneratedFits
  <2>3. QED
    BY <2>1, <2>2, ResolvedFits
<1>6. ASSUME cleanup(g) \/ Restart(g) PROVE ProofInv'
  <2>1. entry' = [entry EXCEPT ![g] = NoEntry] /\ msgs' = msgs
    BY <1>6 DEF cleanup, Restart, Store
  <2>2. QED
    BY <2>1, StoredFits
<1>7. ASSUME Tick(g) PROVE ProofInv'
  <2>1. PICK f : f = entry'[g]
    OBVIOUS
  <2>2. /\ entry' = [entry EXCEPT ![g] = f] /\ msgs' = msgs
        /\ entry[g] = NoEntry => f = NoEntry
        /\ \E age : f = [entry[g] EXCEPT !.createTime = age]
    BY <1>7, <2>1 DEF Tick, SigInv, TypeOK, NoEntry, NewEntry
  <2>3. f = NoEntry \/ Fit(g, f)
    <3>1. CASE entry[g] = NoEntry
      BY <2>2, <3>1
    <3>2. CASE entry[g] # NoEntry
      <4>1. entry[g] \in TxQueued /\ Fit(g, entry[g])
        BY <3>2 DEF SigInv, TypeOK, ProofInv
      <4>2. /\ f.sign = entry[g].sign /\ f.tx = entry[g].tx
            /\ f.secret = entry[g].secret /\ f.commitments = entry[g].commitments
        BY <2>2, <4>1 DEF TxQueued
      <4>3. QED
        BY <4>1, <4>2 DEF Fit, Agrees
    <3>3. QED
      BY <3>1, <3>2
  <2>4. QED
    BY <2>2, <2>3, StoredFits
<1>8. QED
  BY <1>2, <1>3, <1>4, <1>5, <1>6, <1>7 DEF MultiSigStep

LEMMA ProofStutter ==
  ASSUME ProofInv, UNCHANGED vars PROVE ProofInv'
<1>1. entry' = entry /\ msgs' = msgs
  BY DEF vars
<1>2. QED
  BY <1>1 DEF ProofInv

-----------------------------------------------------------------------------
(* The theorems *)

\* The entries, the messages and the promises keep their types, and what is
\* signed was asked for, for any guards and any number of requests.
THEOREM SignInvariant == MultiSigSpec => []SigInv
<1>1. SigInv /\ [MultiSigNext]_vars => SigInv'
  BY AnyStep
<1>2. QED
  BY <1>1, SignInit, PTL DEF MultiSigSpec

\* The queues, the timers and the clean-ups of all the guards together are a
\* threshold signer, whatever messages are lost, repeated or late and whichever
\* guards restart.
THEOREM ImplementsThresholdSigner == MultiSigSpec => IsThresholdSigner
<1>1. MultiSigInit => Signer!SignerInit
  BY DEF MultiSigInit, Signer!SignerInit, Requests
<1>2. SigInv /\ [MultiSigNext]_vars => [Signer!SignerNext]_<<asked, promise>>
  BY AnyStep DEF SignerStep
<1>3. QED
  BY <1>1, <1>2, SignInvariant, PTL
     DEF MultiSigSpec, IsThresholdSigner, Signer!SignerSpec

\* Whichever guards lose their queue and draw new secrets, however late or
\* often the proofs and commitments arrive, and whatever surplus is simulated: a
\* full proof that no simulated guard signed verifies.
THEOREM FullProofsAreValid == MultiSigSpec => []FullProofsVerify
<1>1. SigInv /\ ProofInv /\ [MultiSigNext]_vars => ProofInv'
  BY ProofInvStep, ProofStutter DEF MultiSigNext
<1>2. ProofInv => FullProofsVerify
  BY DEF ProofInv, Carries, SoundProof, Clean, FullProofsVerify
<1>3. QED
  BY <1>1, <1>2, ProofInit, SignInvariant, PTL DEF MultiSigSpec
=============================================================================
