----------------------------- MODULE ColdStorage -----------------------------
(***************************************************************************)
(* coldStorage/ColdStorage.ts and what the agreement does with its txs: in *)
(* its turn a guard moves what the lock address of a chain holds above the *)
(* high thresholds to the cold storage, down to the low ones; the others   *)
(* verify the tx with the balance and the tables they see, agree to one tx *)
(* a turn, and insert what requiredSign guards agreed to.                  *)
(*                                                                         *)
(* A handler is taken not to outlast the turn it verifies a tx in.         *)
(***************************************************************************)
EXTENDS Integers, FiniteSets, Functions

CONSTANTS
  Guards,
  requiredSign,
  Tokens,              \* that have thresholds, beside the native token
  native,              \* the native token
  low, high,           \* thresholds
  maxNativeTransfer,
  minimumNativeToken,
  SplitsOrders,        \* whether the chain makes one tx for every asset
  MaxTxs,              \* bound: cold storage txs created
  MaxPeriods,          \* bound: turns
  MaxBalance           \* bound: what the lock address gets of an asset

Assets == Tokens \cup {native}

ASSUME ColdStorageAssumption ==
  /\ IsFiniteSet(Guards) /\ IsFiniteSet(Tokens) /\ native \notin Tokens
  /\ requiredSign \in Nat /\ 2 * requiredSign > Cardinality(Guards)
  /\ low \in [Assets -> Nat \ {0}] /\ high \in [Assets -> Nat]
  /\ \A a \in Assets : low[a] < high[a]
  /\ minimumNativeToken \in Nat /\ maxNativeTransfer \in Nat
  /\ minimumNativeToken <= maxNativeTransfer
  /\ minimumNativeToken <= high[native] - low[native]
  /\ SplitsOrders \in BOOLEAN
  /\ MaxTxs \in Nat /\ MaxPeriods \in Nat \ {0} /\ MaxBalance \in Nat

VARIABLES
  period,      \* number of the turn
  turn,        \* the guard whose turn it is
  lock,        \* balance of the lock address
  forbidden,   \* assets that waiting events require
  paid,        \* history: what event payments took from the lock address
  txs,         \* the cold storage txs that were created, numbered
  settled,     \* what became of each tx on the chain
  requests,    \* request messages, with the guards that agreed to each
  approvals,   \* requests that enough guards agreed to, broadcast
  pending,     \* transactions: what each guard has created or agreed to
  agreed,      \* agreedColdStorageTransactions of each guard
  table        \* status of each tx in the table of each guard

vars == <<period, turn, lock, forbidden, paid, txs, settled, requests,
          approvals, pending, agreed, table>>

TxIds == 1 .. MaxTxs
NoTx == 0
Created == DOMAIN txs
Balances == [Assets -> Nat]

\* A request is known by the turn it was made in, as by its timestamp
Request == [id : TxIds, from : Guards, period : 1 .. MaxPeriods]

ColdStorageInit ==
  /\ period = 1
  /\ turn \in Guards
  /\ lock = low
  /\ forbidden = {}
  /\ paid = [a \in Assets |-> 0]
  /\ txs = [i \in {} |-> NoTx]
  /\ settled = [i \in TxIds |-> "no"]
  /\ requests = [r \in {} |-> {}]
  /\ approvals = {}
  /\ pending = [g \in Guards |-> {}]
  /\ agreed = [g \in Guards |-> NoTx]
  /\ table = [g \in Guards |-> [i \in TxIds |-> "none"]]

-----------------------------------------------------------------------------
(* The order of a tx, and its verification *)

getActiveColdStorageTxs(g) == {i \in TxIds : table[g][i] = "active"}

\* mutant: what waiting events require is transferred too
ExceedsAny(balance, required, a) == balance[a] > high[a]

Exceeds(balance, required, a) ==
  a \notin required /\ balance[a] > high[a]

MaxOf(a, b) == IF a > b THEN a ELSE b

Transferring(balance, required, a) == balance[a] - low[a]

\* What is transferred of every asset; nothing if none exceeds its threshold
coldStorageOrder(balance, required) ==
  [a \in Assets |->
     IF a = native
     THEN MaxOf(IF Exceeds(balance, required, native)
                THEN Transferring(balance, required, native) ELSE 0,
                minimumNativeToken)
     ELSE IF Exceeds(balance, required, a)
     THEN Transferring(balance, required, a) ELSE 0]

IsRequired(balance, required) ==
  \E a \in Assets : Exceeds(balance, required, a)

Transfers(order) == {a \in Tokens : order[a] > 0}

WithinThresholds(value, a) == low[a] <= value /\ value <= high[a]

\* verifyColdStorageTransaction, without its comparison with other txs.  A
\* token of which nothing is left is not in the balance that remains
verifyTransfer(order, balance, required) ==
  /\ Transfers(order) \cap required = {}
  /\ order[native] <= balance[native]
  /\ \A a \in Transfers(order) :
       /\ balance[a] > high[a]
       /\ balance[a] - order[a] > 0
       /\ WithinThresholds(balance[a] - order[a], a)
  /\ IF native \notin required /\ balance[native] > high[native]
     THEN WithinThresholds(balance[native] - order[native], native)
     ELSE /\ Transfers(order) # {}
          /\ order[native] <= maxNativeTransfer

\* mutant: the txs in progress are not compared
ConflictsNever(order, other) == FALSE

Conflicts(order, other) ==
  \/ Transfers(order) \cap Transfers(other) # {}
  \/ order[native] > maxNativeTransfer /\ other[native] > maxNativeTransfer

verifyColdStorageTransaction(g, i) ==
  /\ verifyTransfer(txs[i], lock, forbidden)
  /\ \A j \in getActiveColdStorageTxs(g) \ {i} : ~Conflicts(txs[i], txs[j])

-----------------------------------------------------------------------------
(* The guard of the turn *)

\* External: the txs a chain makes of an order
generateMultipleTransactions(order, required) ==
  LET part(a) == [b \in Assets |-> IF a = b THEN order[a] ELSE 0]
  IN  IF SplitsOrders
      THEN {part(a) : a \in {b \in Assets : Exceeds(lock, required, b)}}
      ELSE {order}

Numbered(numbering) ==
  [i \in Created \cup DOMAIN numbering |->
     IF i \in Created THEN txs[i] ELSE numbering[i]]

Ask(g, ids) ==
  LET asked == {[id |-> i, from |-> g, period |-> period] : i \in ids}
  IN  requests' = [r \in DOMAIN requests \cup asked |->
                     IF r \in DOMAIN requests THEN requests[r] ELSE {r.from}]

\* The job runs once in the turn of a guard.  The txs go through the queue of
\* the agreement, each with a request to the other guards
chainColdStorageProcess(g) ==
  /\ turn = g
  /\ \A r \in DOMAIN requests : r.period # period
  /\ getActiveColdStorageTxs(g) = {}
  /\ IsRequired(lock, forbidden)
  /\ LET orders == generateMultipleTransactions(
                     coldStorageOrder(lock, forbidden), forbidden)
         ids == Cardinality(Created) + 1 .. Cardinality(Created) + Cardinality(orders)
     IN  /\ ids \subseteq TxIds
         /\ \E numbering \in Bijection(ids, orders) : txs' = Numbered(numbering)
         /\ Ask(g, ids)
         /\ pending' = [pending EXCEPT ![g] = @ \cup ids]
  /\ UNCHANGED <<period, turn, lock, forbidden, paid, settled, approvals,
                 agreed, table>>

\* A tx that failed in sign is sent to the agreement again
enqueueSignFailedTxs(g) ==
  /\ turn = g
  /\ \E i \in getActiveColdStorageTxs(g) :
       /\ settled[i] = "no"
       /\ [id |-> i, from |-> g, period |-> period] \notin DOMAIN requests
       /\ Ask(g, {i})
       /\ pending' = [pending EXCEPT ![g] = @ \cup {i}]
  /\ UNCHANGED <<period, turn, lock, forbidden, paid, txs, settled, approvals,
                 agreed, table>>

-----------------------------------------------------------------------------
(* The agreement *)

verifyTransactionRequest(g, r) ==
  /\ turn = r.from
  /\ agreed[g] \in {NoTx, r.id}
  /\ verifyColdStorageTransaction(g, r.id)

processTransactionRequest(g, r) ==
  /\ g # r.from
  /\ verifyTransactionRequest(g, r)
  /\ agreed' = [agreed EXCEPT ![g] = r.id]
  /\ pending' = [pending EXCEPT ![g] = @ \cup {r.id}]
  /\ requests' = [requests EXCEPT ![r] = @ \cup {g}]
  /\ UNCHANGED <<period, turn, lock, forbidden, paid, txs, settled, approvals,
                 table>>

\* insertColdStorageTx: a tx that is in the table already stays as it is; one
\* that is completed cannot be inserted again, and the handler fails
setTxAsApproved(g, i) ==
  /\ table[g][i] # "completed"
  /\ table' = [table EXCEPT ![g][i] = IF @ = "none" THEN "active" ELSE @]
  /\ pending' = [pending EXCEPT ![g] = @ \ {i}]
  /\ agreed' = [agreed EXCEPT ![g] = NoTx]

processAgreementResponse(r) ==
  /\ r.id \in pending[r.from]
  /\ r.period = period
  /\ Cardinality(requests[r]) >= requiredSign
  /\ approvals' = approvals \cup {r}
  /\ setTxAsApproved(r.from, r.id)
  /\ UNCHANGED <<period, turn, lock, forbidden, paid, txs, settled, requests>>

processApprovalMessage(g, r) ==
  /\ r \in approvals /\ g # r.from
  /\ r.id \in pending[g] \/ verifyTransactionRequest(g, r)
  /\ setTxAsApproved(g, r.id)
  /\ UNCHANGED <<period, turn, lock, forbidden, paid, txs, settled, requests,
                 approvals>>

\* mutant: what was agreed to stays from turn to turn
KeepPending == pending

\* clearTransactions at the guard of the turn, clearAgreedTransactions at all
ClearPending == [g \in Guards |-> {}]

NextTurn ==
  /\ period < MaxPeriods
  /\ period' = period + 1
  /\ turn' \in Guards \ {turn}
  /\ pending' = ClearPending
  /\ agreed' = [g \in Guards |-> NoTx]
  /\ UNCHANGED <<lock, forbidden, paid, txs, settled, requests, approvals,
                 table>>

-----------------------------------------------------------------------------
(* The chain and the events, external *)

Active(i) == {g \in Guards : table[g][i] = "active"}

\* The guards that hold the tx sign it, and it gets into the chain
Confirm(i) ==
  /\ i \in Created /\ settled[i] = "no"
  /\ Cardinality(Active(i)) >= requiredSign
  /\ \A a \in Assets : lock[a] >= txs[i][a]
  /\ lock' = [a \in Assets |-> lock[a] - txs[i][a]]
  /\ settled' = [settled EXCEPT ![i] = "confirmed"]
  /\ UNCHANGED <<period, turn, forbidden, paid, txs, requests, approvals,
                 pending, agreed, table>>

\* A box it spends is spent by another tx
Fail(i) ==
  /\ i \in Created /\ settled[i] = "no"
  /\ settled' = [settled EXCEPT ![i] = "failed"]
  /\ UNCHANGED <<period, turn, lock, forbidden, paid, txs, requests, approvals,
                 pending, agreed, table>>

\* The processor of a guard sees what became of the tx
ProcessTx(g, i) ==
  /\ table[g][i] = "active" /\ settled[i] # "no"
  /\ table' = [table EXCEPT ![g][i] =
                 IF settled[i] = "confirmed" THEN "completed" ELSE "invalid"]
  /\ UNCHANGED <<period, turn, lock, forbidden, paid, txs, settled, requests,
                 approvals, pending, agreed>>

Deposit(a) ==
  /\ lock[a] < MaxBalance
  /\ lock' = [lock EXCEPT ![a] = MaxBalance]
  /\ UNCHANGED <<period, turn, forbidden, paid, txs, settled, requests,
                 approvals, pending, agreed, table>>

PayEvent(a) ==
  /\ paid[a] = 0
  /\ lock[a] > 0
  /\ lock' = [lock EXCEPT ![a] = @ - 1]
  /\ paid' = [paid EXCEPT ![a] = 1]
  /\ UNCHANGED <<period, turn, forbidden, txs, settled, requests, approvals,
                 pending, agreed, table>>

\* An event starts or stops to wait for an asset
Wait(a) ==
  /\ forbidden' = IF a \in forbidden THEN forbidden \ {a} ELSE forbidden \cup {a}
  /\ UNCHANGED <<period, turn, lock, paid, txs, settled, requests, approvals,
                 pending, agreed, table>>

ColdStorageNext ==
  \/ \E g \in Guards :
       \/ chainColdStorageProcess(g) \/ enqueueSignFailedTxs(g)
       \/ \E r \in DOMAIN requests :
            processTransactionRequest(g, r) \/ processApprovalMessage(g, r)
       \/ \E i \in TxIds : ProcessTx(g, i)
  \/ \E r \in DOMAIN requests : processAgreementResponse(r)
  \/ \E i \in TxIds : Confirm(i) \/ Fail(i)
  \/ \E a \in Assets : Deposit(a) \/ PayEvent(a) \/ Wait(a)
  \/ NextTurn

ColdStorageSpec == ColdStorageInit /\ [][ColdStorageNext]_vars

-----------------------------------------------------------------------------
(* Properties *)

TypeOK ==
  /\ period \in 1 .. MaxPeriods /\ turn \in Guards
  /\ lock \in Balances /\ paid \in Balances
  /\ forbidden \subseteq Assets
  /\ Created \subseteq TxIds
  /\ \A i \in Created : txs[i] \in Balances
  /\ settled \in [TxIds -> {"no", "confirmed", "failed"}]
  /\ DOMAIN requests \subseteq Request
  /\ approvals \subseteq DOMAIN requests
  /\ pending \in [Guards -> SUBSET Created]
  /\ agreed \in [Guards -> {NoTx} \cup TxIds]
  /\ table \in [Guards -> [TxIds -> {"none", "active", "completed", "invalid"}]]

\* "no active cold storage tx exist that is transferring the same token": the
\* table of a guard never holds two that do, whatever approvals come late and
\* whichever guard creates the next tx.
NoTwoForOneToken ==
  \A g \in Guards : \A i, j \in getActiveColdStorageTxs(g) :
    i # j => ~Conflicts(txs[i], txs[j])

\* The cold storage txs never leave less than the low threshold of an asset in
\* the lock address: what is missing of it was paid for events, or is the
\* minimum that comes with the tokens of a tx.
LowRemains ==
  \A a \in Tokens : lock[a] + paid[a] >= low[a]

\* What the guard of the turn creates is what the others accept: two separate
\* pieces of code agree on the thresholds, at their bounds too.
CreatedIsVerified ==
  IsRequired(lock, forbidden) /\ minimumNativeToken <= lock[native] =>
    \A order \in generateMultipleTransactions(
                   coldStorageOrder(lock, forbidden), forbidden) :
      verifyTransfer(order, lock, forbidden)

\* "if already another approved tx exists, keeps the one with loser txId": a
\* guard keeps one approved cold storage tx.
KeepsOneApproved ==
  \A g \in Guards : Cardinality(getActiveColdStorageTxs(g)) <= 1
=============================================================================
