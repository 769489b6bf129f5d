----------------------------- MODULE EventOrder -----------------------------
(***************************************************************************)
(* event/EventOrder.ts and event/EventBoxes.ts: who is paid what for an    *)
(* event.  The watchers that reported it before it was triggered share     *)
(* part of the fees, those whose commitments were merged into the event    *)
(* and those that came too late for that; the guards get the rest.  The    *)
(* guard of the turn computes the order from its own table of commitments, *)
(* and so does every guard that verifies the tx.                           *)
(*                                                                         *)
(* A commitment is created, merged or redeemed in a block of the chain;    *)
(* the table of a guard is what it has scanned of it.                      *)
(***************************************************************************)
EXTENDS Integers, Sequences, FiniteSets, Functions

CONSTANTS
  Guards, Watchers,
  RwtCounts,      \* RWTs a watcher may lock in a commitment
  Events,         \* the events a run may be about
  feeConfig,      \* ChainMinimumFee of the event
  watchersSharePercent, watchersEmissionSharePercent,
  minimumErg, additionalErgOnPayment, chainMinTransfer,
  MaxCommitments, \* bound: commitments created
  MaxHeight       \* bound: blocks of the chain

Tokens == {"erg", "rsn", "tok", "rwt", "native"}

ASSUME EventOrderAssumption ==
  /\ RwtCounts \subseteq Nat
  /\ \A e \in Events :
       /\ e.amount \in Nat /\ e.bridgeFee \in Nat /\ e.networkFee \in Nat
       /\ e.toErgo \in BOOLEAN
       /\ {e.tokenOnErgo, e.targetToken, e.nativeToken} \subseteq Tokens \ {"rwt"}
  /\ feeConfig.bridgeFee \in Nat /\ feeConfig.networkFee \in Nat
  /\ feeConfig.feeRatio \in Nat /\ feeConfig.feeRatioDivisor \in Nat \ {0}
  /\ feeConfig.rsnRatio \in Nat /\ feeConfig.rsnRatioDivisor \in Nat \ {0}
  /\ watchersSharePercent \in Nat /\ watchersEmissionSharePercent \in 0 .. 100
  /\ minimumErg \in Nat /\ additionalErgOnPayment \in Nat
  /\ chainMinTransfer \in Nat
  /\ MaxCommitments \in Nat /\ MaxHeight \in Nat \ {0}

VARIABLES
  event,     \* the event, with the box it was triggered with
  chain,     \* the commitments, in the order they were created in
  height,    \* the block the chain is at
  scanned,   \* the last block each guard has scanned
  tx         \* the tx each guard has created

vars == <<event, chain, height, scanned, tx>>

Never == MaxHeight + 1
NotTriggered == Never

Assets == [Tokens -> Int]
NoTx == [built |-> FALSE]

EventOrderInit ==
  /\ event \in {[height |-> NotTriggered, rwt |-> 0, value |-> 0,
                 data |-> e] : e \in Events}
  /\ chain = <<>>
  /\ height = 1
  /\ scanned = [g \in Guards |-> 0]
  /\ tx = [g \in Guards |-> NoTx]

-----------------------------------------------------------------------------
(* The chain, external *)

\* The value of the box differs from one commitment to the next
CreateCommitment(w, n) ==
  /\ Len(chain) < MaxCommitments
  /\ chain' = Append(chain,
       [WID |-> w, rwtCount |-> n, boxValue |-> 10 + Len(chain),
        height |-> height, spendBlock |-> Never, merged |-> FALSE])
  /\ UNCHANGED <<event, height, scanned, tx>>

\* The rows of a table, in its order
InOrder(I) ==
  CHOOSE s \in Bijection(1 .. Cardinality(I), I) :
    \A i, j \in 1 .. Cardinality(I) : i < j => s[i] < s[j]

Sum(s) ==
  LET sum[n \in 0 .. Len(s)] == IF n = 0 THEN 0 ELSE sum[n - 1] + s[n]
  IN  sum[Len(s)]

\* What commitments hold of RWTs or of ERGs
SumOf(I, field) ==
  Sum([k \in 1 .. Cardinality(I) |-> chain[InOrder(I)[k]][field]])

\* The event box gets what the commitments hold that are merged into it
TriggerEvent(I) ==
  LET wids == {chain[i].WID : i \in I} IN
  /\ event.height = NotTriggered
  /\ I # {}
  /\ \A i \in I : chain[i].spendBlock = Never
  /\ Cardinality(wids) = Cardinality(I)
  /\ \A i, j \in I : chain[i].rwtCount = chain[j].rwtCount
  /\ event' = [event EXCEPT
       !.height = height,
       !.rwt = SumOf(I, "rwtCount"), !.value = SumOf(I, "boxValue")]
  /\ chain' = [i \in DOMAIN chain |->
       IF i \in I
       THEN [chain[i] EXCEPT !.spendBlock = height, !.merged = TRUE]
       ELSE chain[i]]
  /\ UNCHANGED <<height, scanned, tx>>

\* A watcher takes back what it locked
Redeem(i) ==
  /\ chain[i].spendBlock = Never
  /\ chain' = [chain EXCEPT ![i].spendBlock = height]
  /\ UNCHANGED <<event, height, scanned, tx>>

NextBlock ==
  /\ height < MaxHeight
  /\ height' = height + 1
  /\ UNCHANGED <<event, chain, scanned, tx>>

\* The scanner of a guard goes on to the next block
Scan(g) ==
  /\ scanned[g] < height - 1
  /\ scanned' = [scanned EXCEPT ![g] = @ + 1]
  /\ UNCHANGED <<event, chain, height, tx>>

-----------------------------------------------------------------------------
(* EventBoxes, by the last block that a guard has scanned *)

IsSpent(b, c) == c.spendBlock <= b

\* mutant: commitments that came after the event count too
AnyHeight(c) == TRUE

BeforeEvent(c) == c.height < event.height

getValidCommitments(b) ==
  {i \in DOMAIN chain :
     chain[i].height <= b /\ BeforeEvent(chain[i]) /\ ~IsSpent(b, chain[i])}

\* mutant: a watcher may be there several times
KeepAll(I) == I

\* The first commitment of each watcher
uniqByWID(I) ==
  {i \in I : \A j \in I : j < i => chain[j].WID # chain[i].WID}

Merged == {i \in DOMAIN chain : chain[i].merged}
WIDsCount == Cardinality(Merged)
eventRwtCount == event.rwt \div WIDsCount
permitValue == event.value \div WIDsCount

\* Those merged into the event.  Once it is scanned they are what its trigger
\* says, so that the comparison with its WIDs holds.
getEventCommitments(b) == {i \in Merged : IsSpent(b, chain[i])}
getEventWIDs(b) == {chain[i].WID : i \in getEventCommitments(b)}

\* mutant: the number of RWTs is not compared
UnmergedOnly(b, c) == c.WID \notin getEventWIDs(b)

IsValidCommitment(b, c) ==
  c.WID \notin getEventWIDs(b) /\ c.rwtCount = eventRwtCount

getEventValidCommitments(b) ==
  {i \in uniqByWID(getValidCommitments(b)) : IsValidCommitment(b, chain[i])}

-----------------------------------------------------------------------------
(* EventOrder *)

Asset(id, value) == [t \in Tokens |-> IF t = id THEN value ELSE 0]
Plus(a, b) == [t \in Tokens |-> a[t] + b[t]]
Payment(address, wid, assets) ==
  [address |-> address, extra |-> wid, assets |-> assets]

MaxOf(a, b) == IF a > b THEN a ELSE b

bridgeFee ==
  MaxOf(MaxOf(event.data.bridgeFee, feeConfig.bridgeFee),
        (event.data.amount * feeConfig.feeRatio) \div feeConfig.feeRatioDivisor)
networkFee == MaxOf(event.data.networkFee, feeConfig.networkFee)
emissionFee == (bridgeFee * feeConfig.rsnRatio) \div feeConfig.rsnRatioDivisor

eventSinglePayment ==
  Payment("user", "none",
    Plus(Asset(event.data.targetToken,
               event.data.amount - bridgeFee - networkFee),
         Plus(Asset(event.data.nativeToken, chainMinTransfer),
              Asset("erg", IF event.data.toErgo
                           THEN additionalErgOnPayment ELSE 0))))

\* What one watcher gets of an amount
Share(amount, percent, n) == ((amount * percent) \div 100) \div n

\* mutant: what the division among the watchers leaves is not counted
RestOfPercent(amount, percent, n) == amount - (amount * percent) \div 100

\* What is left of it for the guards
Rest(amount, percent, n) == amount - n * Share(amount, percent, n)

\* The watchers that are paid: the merged ones, then the late ones
Permits(I, value) ==
  [k \in 1 .. Cardinality(I) |->
     [wid |-> chain[InOrder(I)[k]].WID, boxValue |-> value[InOrder(I)[k]]]]

outPermits(b) ==
  Permits(getEventCommitments(b), [i \in DOMAIN chain |-> permitValue])
  \o Permits(getEventValidCommitments(b),
             [i \in DOMAIN chain |-> chain[i].boxValue])

\* eventErgRewardOrder and eventTokenRewardOrder, which differ in the currency
\* of the fees only
Fee(value) == Asset(event.data.tokenOnErgo, value)

watchersOrder(permits) ==
  LET n == Len(permits)
      tokens == Plus(Asset("rwt", eventRwtCount),
                     Asset("rsn", Share(emissionFee, watchersEmissionSharePercent, n)))
      fee == Fee(Share(bridgeFee, watchersSharePercent, n))
  IN  [i \in 1 .. n |->
         Payment("permit", permits[i].wid,
                 Plus(Asset("erg", permits[i].boxValue), Plus(tokens, fee)))]

\* A box of the guards holds the minimum of ERGs beside what it is for
guardsOrder(n) ==
  LET box(address, assets) ==
        Payment(address, "none", Plus(Asset("erg", minimumErg), assets))
      emission == Rest(emissionFee, watchersEmissionSharePercent, n)
  IN  <<box("bridgeFeeRepo", Fee(Rest(bridgeFee, watchersSharePercent, n)))>>
      \o (IF emission > 0
          THEN <<box("emission", Asset("rsn", emission))>> ELSE <<>>)
      \o <<box("networkFeeRepo", Fee(networkFee))>>

eventRewardOrder(b) ==
  LET permits == outPermits(b)
  IN  [watchersOrder |-> watchersOrder(permits),
       guardsOrder |-> guardsOrder(Len(permits))]

createEventPaymentOrder(b) ==
  IF event.data.toErgo
  THEN LET reward == eventRewardOrder(b)
       IN  reward.watchersOrder \o <<eventSinglePayment>> \o reward.guardsOrder
  ELSE <<eventSinglePayment>>

createEventRewardOrder(b) ==
  LET reward == eventRewardOrder(b)
  IN  reward.watchersOrder \o reward.guardsOrder

-----------------------------------------------------------------------------
(* The tx that spends the event box, created by a guard *)

DistributingOrder(b) ==
  IF event.data.toErgo
  THEN createEventPaymentOrder(b) ELSE createEventRewardOrder(b)

\* The event is in the table of the guard
Ready(g) == event.height <= scanned[g]

\* The boxes to spend are read first
ReadBoxes(g) ==
  /\ Ready(g) /\ tx[g] = NoTx
  /\ tx' = [tx EXCEPT ![g] =
       [built |-> FALSE, boxes |-> getEventValidCommitments(scanned[g]),
        readAt |-> scanned[g]]]
  /\ UNCHANGED <<event, chain, height, scanned>>

\* The order reads the commitments again
CreateOrder(g) ==
  /\ tx[g] # NoTx /\ ~tx[g].built
  /\ tx' = [tx EXCEPT ![g] =
       [built |-> TRUE, boxes |-> tx[g].boxes, readAt |-> tx[g].readAt,
        order |-> DistributingOrder(scanned[g]), builtAt |-> scanned[g]]]
  /\ UNCHANGED <<event, chain, height, scanned>>

verifyEventTransaction(g, t) == t.order = DistributingOrder(scanned[g])

EventOrderNext ==
  \/ \E w \in Watchers, n \in RwtCounts : CreateCommitment(w, n)
  \/ \E I \in SUBSET DOMAIN chain : TriggerEvent(I)
  \/ \E i \in DOMAIN chain : Redeem(i)
  \/ NextBlock
  \/ \E g \in Guards : Scan(g) \/ ReadBoxes(g) \/ CreateOrder(g)

EventOrderSpec == EventOrderInit /\ [][EventOrderNext]_vars

-----------------------------------------------------------------------------
(* Properties *)

Total(order, t) == Sum([i \in 1 .. Len(order) |-> order[i].assets[t]])

\* An unmerged commitment was seen to be redeemed between two readings
RedeemedBetween(a, b) ==
  \E i \in DOMAIN chain :
    /\ ~chain[i].merged /\ BeforeEvent(chain[i])
    /\ \/ a < chain[i].spendBlock /\ chain[i].spendBlock <= b
       \/ b < chain[i].spendBlock /\ chain[i].spendBlock <= a

\* The watchers get back the RWTs that the boxes the tx spends hold, not one
\* more or less, whatever commitments there are beside the merged ones,
\* unless one of them is redeemed while the guard creates the tx.
RwtConserved ==
  \A g \in Guards :
    tx[g].built /\ ~RedeemedBetween(tx[g].readAt, tx[g].builtAt) =>
      Total(tx[g].order, "rwt") = event.rwt + SumOf(tx[g].boxes, "rwtCount")

\* No watcher is paid twice for an event, and every one that was merged into
\* it is paid.
OneShareEach ==
  \A g \in Guards : tx[g].built =>
    LET order == tx[g].order
        permits == {i \in DOMAIN order : order[i].address = "permit"}
    IN  /\ \A i, j \in permits : order[i].extra = order[j].extra => i = j
        /\ \A m \in Merged : \E i \in permits : order[i].extra = chain[m].WID

\* The watchers and the guards together get the fees, the emission and what
\* the spent boxes hold, beside what the user gets: the divisions among the
\* watchers lose nothing of a token, and of the ERGs in the event box less
\* than one per watcher.
FeesConserved ==
  \A g \in Guards :
    tx[g].built /\ ~RedeemedBetween(tx[g].readAt, tx[g].builtAt) =>
      LET order == tx[g].order
          boxes == {i \in DOMAIN order : order[i].address \notin {"permit", "user"}}
          inputs == event.value + Cardinality(boxes) * minimumErg +
                    SumOf(tx[g].boxes, "boxValue")
          due(t) ==
            (IF t = event.data.tokenOnErgo THEN bridgeFee + networkFee ELSE 0)
            + (IF t = "rsn" THEN emissionFee ELSE 0)
            + (IF t = "erg" THEN inputs ELSE 0)
            + (IF event.data.toErgo THEN eventSinglePayment.assets[t] ELSE 0)
      IN  \A t \in {"erg", "tok", "rsn"} :
            due(t) - Total(order, t) \in
              IF t = "erg" THEN 0 .. WIDsCount - 1 ELSE {0}

\* A guard rejects the tx of another one only when an unmerged commitment was
\* redeemed between what the two have scanned: commitments that come after the
\* event do not matter, nor who creates the tx.
RejectedOnlyOnRedeem ==
  \A g, h \in Guards :
    /\ tx[g].built /\ Ready(h) /\ ~verifyEventTransaction(h, tx[g])
    => RedeemedBetween(tx[g].builtAt, scanned[h])

\* "gets the commitment boxes that are created before the event trigger and
\* aren't merged into it, while omitting any duplicate commitments": a watcher
\* with such a commitment, of the RWTs of the event, is paid.
UnmergedAreRewarded ==
  \A g \in Guards : Ready(g) =>
    \A i \in DOMAIN chain :
      /\ BeforeEvent(chain[i]) /\ ~IsSpent(scanned[g], chain[i])
      /\ chain[i].rwtCount = eventRwtCount
      => \E j \in DOMAIN eventRewardOrder(scanned[g]).watchersOrder :
           eventRewardOrder(scanned[g]).watchersOrder[j].extra = chain[i].WID
=============================================================================
