-------------------------- MODULE ColdStorageProofs --------------------------
(***************************************************************************)
(* Theorems about ColdStorage, for any guards, tokens, thresholds and      *)
(* bounds.  A guard compares a tx with the active ones of its table when   *)
(* it verifies it, and inserts it later: what keeps its table free of      *)
(* conflicts is that it has agreed to one tx only in between (OneAgreed),  *)
(* or has created the tx in a turn it created nothing else (TurnAsked).    *)
(***************************************************************************)
EXTENDS ColdStorage, FiniteSetTheorems, TLAPS

Status == {"none", "active", "completed", "invalid"}

-----------------------------------------------------------------------------
(* The invariant *)

\* The txs are numbered from 1, and whatever guards and messages hold are such
\* numbers.
Numbers ==
  /\ \E n \in Nat : Created = 1 .. n
  /\ \A r \in DOMAIN requests : r.id \in Created
  /\ \A g \in Guards : getActiveColdStorageTxs(g) \subseteq Created

\* Out of its turn a guard has agreed to one tx at a time.
OneAgreed == \A g \in Guards \ {turn} : pending[g] \subseteq {agreed[g]}

\* A guard that has txs pending in its turn has asked for them.
TurnAsked == pending[turn] # {} => \E r \in DOMAIN requests : r.period = period

Held(g) == pending[g] \cup getActiveColdStorageTxs(g)

\* What a guard has verified is compared with what it has verified before.
HeldApart ==
  \A g \in Guards : \A i, j \in Held(g) : i # j => ~Conflicts(txs[i], txs[j])

StorageInv == TypeOK /\ Numbers /\ OneAgreed /\ TurnAsked /\ HeldApart

-----------------------------------------------------------------------------
(* The orders and their numbers *)

LEMMA AssetsFinite == IsFiniteSet(Assets)
<1>1. IsFiniteSet({native})
  BY FS_Singleton
<1>2. QED
  BY <1>1, ColdStorageAssumption, FS_Union DEF Assets

\* An order is an amount of every asset.
LEMMA OrderType ==
  ASSUME NEW balance \in Balances, NEW required
  PROVE  coldStorageOrder(balance, required) \in Balances
<1>1. ASSUME NEW a \in Assets, Exceeds(balance, required, a)
      PROVE  Transferring(balance, required, a) \in Nat
  BY <1>1, ColdStorageAssumption DEF Exceeds, Transferring, Balances
<1>2. ASSUME NEW m \in Nat, NEW n \in Nat PROVE MaxOf(m, n) \in Nat
  BY DEF MaxOf
<1>3. minimumNativeToken \in Nat
  BY ColdStorageAssumption
<1>4. QED
  BY <1>1, <1>2, <1>3 DEF coldStorageOrder, Balances

\* The txs of one order transfer no token in common, and one of them at most
\* transfers the native token for its own sake.
LEMMA OrdersApart ==
  ASSUME NEW order, NEW required,
         NEW o \in generateMultipleTransactions(order, required),
         NEW p \in generateMultipleTransactions(order, required),
         o # p
  PROVE  ~Conflicts(o, p)
<1> DEFINE part(a) == [b \in Assets |-> IF a = b THEN order[a] ELSE 0]
<1>1. PICK a \in Assets : o = part(a)
  BY DEF generateMultipleTransactions
<1>2. PICK c \in Assets : p = part(c)
  BY DEF generateMultipleTransactions
<1>3. a # c
  BY <1>1, <1>2
<1>4. Transfers(o) \subseteq {a}
  BY <1>1 DEF Transfers, Assets
<1>5. Transfers(p) \subseteq {c}
  BY <1>2 DEF Transfers, Assets
<1>6. ~(o[native] > maxNativeTransfer /\ p[native] > maxNativeTransfer)
  BY <1>1, <1>2, <1>3, ColdStorageAssumption DEF Assets
<1>7. QED
  BY <1>3, <1>4, <1>5, <1>6 DEF Conflicts

\* An order makes finitely many txs, of amounts.
LEMMA OrdersType ==
  ASSUME NEW order \in Balances, NEW required, NEW orders,
         orders = generateMultipleTransactions(order, required)
  PROVE  IsFiniteSet(orders) /\ orders \subseteq Balances
<1> DEFINE part(a) == [b \in Assets |-> IF a = b THEN order[a] ELSE 0]
           S == {b \in Assets : Exceeds(lock, required, b)}
<1>1. CASE SplitsOrders
  <2>1. orders = {part(a) : a \in S}
    BY <1>1 DEF generateMultipleTransactions
  <2>2. IsFiniteSet(S)
    BY AssetsFinite, FS_Subset
  <2> DEFINE f == [a \in S |-> part(a)]
  <2>3. f \in Surjection(S, orders)
    BY <2>1 DEF Surjection
  <2>4. IsFiniteSet(orders)
    BY <2>2, <2>3, FS_Surjection
  <2>5. ASSUME NEW a \in S PROVE part(a) \in Balances
    <3>1. a \in Assets
      OBVIOUS
    <3>2. order[a] \in Nat
      BY <3>1 DEF Balances
    <3>3. QED
      BY <3>2 DEF Balances
  <2>6. QED
    BY <2>1, <2>4, <2>5
<1>2. CASE ~SplitsOrders
  <2>1. orders = {order}
    BY <1>2 DEF generateMultipleTransactions
  <2>2. QED
    BY <2>1, FS_Singleton
<1>3. QED
  BY <1>1, <1>2

LEMMA Consecutive ==
  ASSUME NEW n \in Nat, NEW k \in Nat
  PROVE  /\ (n + 1 .. n + k) \cap (1 .. n) = {}
         /\ (1 .. n) \cup (n + 1 .. n + k) = 1 .. n + k
         /\ n + k \in Nat
OBVIOUS

\* The numbers given to the txs of an order are new, and the next ones.
LEMMA NextNumbers ==
  ASSUME Numbers, NEW orders, IsFiniteSet(orders), NEW numbering, NEW ids,
         ids = Cardinality(Created) + 1 .. Cardinality(Created) + Cardinality(orders),
         numbering \in Bijection(ids, orders),
         txs' = Numbered(numbering)
  PROVE  /\ Created' = Created \cup ids
         /\ \E n \in Nat : Created' = 1 .. n
         /\ ids \cap Created = {}
<1>1. PICK n \in Nat : Created = 1 .. n
  BY DEF Numbers
<1>2. Cardinality(Created) = n
  BY <1>1, FS_Interval
<1> DEFINE k == Cardinality(orders)
<1>3. k \in Nat
  BY FS_CardinalityType
<1>4. ids = n + 1 .. n + k
  BY <1>2
<1>5. DOMAIN numbering = ids
  BY DEF Bijection, Injection
<1>6. Created' = Created \cup ids
  BY <1>5 DEF Numbered, Created
<1> HIDE DEF k
<1>7. ids \cap Created = {} /\ Created \cup ids = 1 .. n + k /\ n + k \in Nat
  <2>1. (n + 1 .. n + k) \cap (1 .. n) = {}
    BY <1>3, Consecutive
  <2>2. (1 .. n) \cup (n + 1 .. n + k) = 1 .. n + k
    BY <1>3, Consecutive
  <2>3. n + k \in Nat
    BY <1>3
  <2>4. QED
    BY <1>1, <1>4, <2>1, <2>2, <2>3, Zenon
<1>8. \E m \in Nat : Created' = 1 .. m
  BY <1>6, <1>7
<1>9. QED
  BY <1>6, <1>7, <1>8

-----------------------------------------------------------------------------
(* The steps *)

\* Who holds no new tx has none that conflicts with another.
LEMMA StillApart ==
  ASSUME HeldApart, UNCHANGED txs, \A g \in Guards : Held(g)' \subseteq Held(g)
  PROVE  HeldApart'
BY DEF HeldApart, Conflicts, Transfers

\* A tx that a guard is ready to insert conflicts with none of its table.
LEMMA Inserted ==
  ASSUME StorageInv, NEW g \in Guards, NEW i \in Created,
         \/ i \in pending[g]
         \/ /\ g # turn /\ agreed[g] \in {NoTx, i}
            /\ verifyColdStorageTransaction(g, i),
         setTxAsApproved(g, i),
         UNCHANGED <<period, turn, lock, forbidden, paid, txs, settled, requests>>,
         approvals' \subseteq DOMAIN requests
  PROVE  StorageInv'
<1> USE DEF StorageInv
<1>1. /\ i \in TxIds /\ i # NoTx
      /\ pending[g] \subseteq Created
      /\ NoTx \notin Created
  BY DEF TypeOK, Numbers, NoTx
<1>2. /\ pending' = [pending EXCEPT ![g] = @ \ {i}]
      /\ agreed' = [agreed EXCEPT ![g] = NoTx]
      /\ table' = [table EXCEPT ![g][i] = IF @ = "none" THEN "active" ELSE @]
  BY DEF setTxAsApproved
<1>3. TypeOK'
  <2>1. table' \in [Guards -> [TxIds -> Status]]
    BY <1>1, <1>2 DEF TypeOK, Status
  <2>2. pending' \in [Guards -> SUBSET Created] /\ Created' = Created
    BY <1>2 DEF TypeOK, Created
  <2>3. agreed' \in [Guards -> {NoTx} \cup TxIds]
    BY <1>2 DEF TypeOK
  <2>4. QED
    BY <2>1, <2>2, <2>3 DEF TypeOK, Status, Created
<1>4. /\ getActiveColdStorageTxs(g)' \subseteq getActiveColdStorageTxs(g) \cup {i}
      /\ \A h \in Guards \ {g} :
           getActiveColdStorageTxs(h)' = getActiveColdStorageTxs(h)
  BY <1>1, <1>2 DEF TypeOK, getActiveColdStorageTxs
<1>5. /\ pending'[g] = pending[g] \ {i}
      /\ \A h \in Guards \ {g} : pending'[h] = pending[h] /\ agreed'[h] = agreed[h]
  BY <1>2 DEF TypeOK
<1>6. Numbers'
  <2>1. Created' = Created
    BY DEF Created
  <2>2. \A h \in Guards : getActiveColdStorageTxs(h)' \subseteq Created
    BY <1>4 DEF Numbers
  <2>3. QED
    BY <2>1, <2>2 DEF Numbers
<1>7. g # turn => pending'[g] = {}
  <2>1. g # turn => pending[g] \subseteq {agreed[g]}
    BY DEF OneAgreed
  <2>2. QED
    BY <1>1, <1>5, <2>1
<1>8. OneAgreed'
  BY <1>5, <1>7 DEF OneAgreed
<1>9. TurnAsked'
  BY <1>5 DEF TurnAsked, TypeOK
<1>10. HeldApart'
  <2>1. CASE i \in pending[g]
    <3>1. \A h \in Guards : Held(h)' \subseteq Held(h)
      BY <1>4, <1>5, <2>1 DEF Held
    <3>2. QED
      BY <3>1, StillApart
  <2>2. CASE g # turn /\ verifyColdStorageTransaction(g, i)
    <3>1. \A j \in getActiveColdStorageTxs(g) \ {i} :
            ~Conflicts(txs[i], txs[j]) /\ ~Conflicts(txs[j], txs[i])
      BY <2>2 DEF verifyColdStorageTransaction, Conflicts
    <3>2. Held(g)' \subseteq getActiveColdStorageTxs(g) \cup {i}
      BY <1>4, <1>7, <2>2 DEF Held
    <3>3. \A h \in Guards \ {g} : Held(h)' = Held(h)
      BY <1>4, <1>5 DEF Held
    <3>4. ASSUME NEW h \in Guards, NEW k \in Held(h)', NEW j \in Held(h)', k # j
          PROVE  ~Conflicts(txs[k], txs[j])
      <4>1. CASE h = g
        BY <3>1, <3>2, <3>4, <4>1 DEF HeldApart, Held
      <4>2. CASE h # g
        BY <3>3, <3>4, <4>2 DEF HeldApart
      <4>3. QED
        BY <4>1, <4>2
    <3>5. QED
      BY <3>4 DEF HeldApart, Conflicts, Transfers
  <2>3. QED
    BY <2>1, <2>2
<1>11. QED
  BY <1>3, <1>6, <1>8, <1>9, <1>10
\* The guard of the turn creates txs when it holds none, so that it is enough
\* that they do not conflict with each other.
LEMMA CreatedApart ==
  ASSUME StorageInv, NEW g \in Guards, chainColdStorageProcess(g)
  PROVE  StorageInv'
<1> USE DEF StorageInv
<1> DEFINE order == coldStorageOrder(lock, forbidden)
           orders == generateMultipleTransactions(order, forbidden)
           ids == Cardinality(Created) + 1 .. Cardinality(Created) + Cardinality(orders)
           asked == {[id |-> i, from |-> g, period |-> period] : i \in ids}
<1>1. /\ turn = g /\ getActiveColdStorageTxs(g) = {}
      /\ \A r \in DOMAIN requests : r.period # period
      /\ ids \subseteq TxIds
      /\ Ask(g, ids)
      /\ pending' = [pending EXCEPT ![g] = @ \cup ids]
      /\ UNCHANGED <<period, turn, lock, forbidden, paid, settled, approvals,
                     agreed, table>>
  BY DEF chainColdStorageProcess
<1>2. PICK numbering \in Bijection(ids, orders) : txs' = Numbered(numbering)
  BY DEF chainColdStorageProcess
<1>3. order \in Balances
  BY OrderType DEF TypeOK
<1>4. IsFiniteSet(orders) /\ orders \subseteq Balances
  BY <1>3, OrdersType
<1> HIDE DEF order
<1>b. ids = Cardinality(Created) + 1 .. Cardinality(Created) + Cardinality(orders)
  OBVIOUS
<1> HIDE DEF ids, orders
<1>a. /\ Created' = Created \cup ids
      /\ \E n \in Nat : Created' = 1 .. n
      /\ ids \cap Created = {}
  BY <1>2, <1>4, <1>b, NextNumbers
<1>5. /\ \A i \in Created : txs'[i] = txs[i]
      /\ \A i \in ids : txs'[i] \in orders
      /\ \A i \in ids : \A j \in ids : txs'[i] = txs'[j] => i = j
  <2>1. /\ DOMAIN numbering = ids
        /\ \A i \in ids : numbering[i] \in orders
        /\ \A i \in ids : \A j \in ids : numbering[i] = numbering[j] => i = j
    BY DEF Bijection, Injection, IsInjective
  <2>2. txs' = [i \in Created \cup ids |->
                  IF i \in Created THEN txs[i] ELSE numbering[i]]
    BY <1>2, <2>1 DEF Numbered
  <2>3. /\ \A i \in Created : txs'[i] = txs[i]
        /\ \A i \in ids : txs'[i] = numbering[i]
    BY <1>a, <2>2
  <2>4. QED
    BY <2>1, <2>3
<1>6. \A o, p \in orders : o # p => ~Conflicts(o, p)
  BY OrdersApart DEF orders
<1>7. /\ DOMAIN requests' = DOMAIN requests \cup asked
      /\ asked \subseteq Request
      /\ \A r \in asked : r.id \in ids /\ r.period = period
  BY <1>1 DEF Ask, Request, TypeOK
<1>8. TypeOK'
  <2>1. Created' \subseteq TxIds /\ \A i \in Created' : txs'[i] \in Balances
    BY <1>1, <1>4, <1>5, <1>a DEF TypeOK
  <2>2. DOMAIN requests' \subseteq Request /\ approvals' \subseteq DOMAIN requests'
    BY <1>1, <1>7 DEF TypeOK
  <2>3. pending' \in [Guards -> SUBSET Created']
    BY <1>1, <1>a DEF TypeOK
  <2>4. QED
    BY <1>1, <2>1, <2>2, <2>3 DEF TypeOK
<1>9. \A h \in Guards : getActiveColdStorageTxs(h)' = getActiveColdStorageTxs(h)
  BY <1>1 DEF getActiveColdStorageTxs
<1>10. Numbers'
  BY <1>7, <1>9, <1>a DEF Numbers
<1>11. pending[g] = {}
  BY <1>1 DEF TurnAsked
<1>12. /\ pending'[g] = ids
       /\ \A h \in Guards \ {g} : pending'[h] = pending[h]
  BY <1>1, <1>11 DEF TypeOK
<1>13. OneAgreed'
  BY <1>1, <1>12 DEF OneAgreed
<1>14. TurnAsked'
  <2>1. ASSUME ids # {} PROVE \E r \in DOMAIN requests' : r.period = period
    BY <1>7, <2>1
  <2>2. QED
    BY <1>1, <1>12, <2>1 DEF TurnAsked
<1>15. HeldApart'
  <2>1. Held(g)' = ids
    BY <1>1, <1>9, <1>12 DEF Held
  <2>2. \A h \in Guards \ {g} : Held(h)' = Held(h) /\ Held(h) \subseteq Created
    BY <1>9, <1>12 DEF Held, TypeOK, Numbers
  <2>3. ASSUME NEW h \in Guards, NEW i \in Held(h)', NEW j \in Held(h)', i # j
        PROVE  ~Conflicts(txs'[i], txs'[j])
    <3>1. CASE h = g
      BY <1>5, <1>6, <2>1, <2>3, <3>1
    <3>2. CASE h # g
      BY <1>5, <2>2, <2>3, <3>2 DEF HeldApart
    <3>3. QED
      BY <3>1, <3>2
  <2>4. QED
    BY <2>3 DEF HeldApart, Conflicts, Transfers
<1>16. QED
  BY <1>8, <1>10, <1>13, <1>14, <1>15

LEMMA AskedAgain ==
  ASSUME StorageInv, NEW g \in Guards, enqueueSignFailedTxs(g)
  PROVE  StorageInv'
<1> USE DEF StorageInv
<1>1. PICK i \in getActiveColdStorageTxs(g) :
        Ask(g, {i}) /\ pending' = [pending EXCEPT ![g] = @ \cup {i}]
  BY DEF enqueueSignFailedTxs
<1>2. /\ turn = g
      /\ UNCHANGED <<period, turn, lock, forbidden, paid, txs, settled, approvals,
                     agreed, table>>
  BY DEF enqueueSignFailedTxs
<1>3. i \in Created /\ i \in TxIds /\ Created' = Created
  BY <1>2 DEF Numbers, TypeOK, Created
<1> DEFINE r == [id |-> i, from |-> g, period |-> period]
<1>4. DOMAIN requests' = DOMAIN requests \cup {r} /\ r \in Request
  BY <1>1, <1>2, <1>3 DEF Ask, Request, TypeOK
<1>5. \A h \in Guards : getActiveColdStorageTxs(h)' = getActiveColdStorageTxs(h)
  BY <1>2 DEF getActiveColdStorageTxs
<1>6. TypeOK'
  BY <1>1, <1>2, <1>3, <1>4 DEF TypeOK
<1>7. Numbers'
  BY <1>3, <1>4, <1>5 DEF Numbers
<1>8. OneAgreed' /\ TurnAsked'
  BY <1>1, <1>2, <1>4 DEF OneAgreed, TurnAsked, TypeOK
<1>9. \A h \in Guards : Held(h)' \subseteq Held(h)
  BY <1>1, <1>5 DEF Held, TypeOK
<1>10. HeldApart'
  BY <1>2, <1>9, StillApart
<1>11. QED
  BY <1>6, <1>7, <1>8, <1>10

\* A guard that agrees to a tx has compared it with its table, and holds no
\* other that it agreed to.
LEMMA Agreed ==
  ASSUME StorageInv, NEW g \in Guards, NEW r \in DOMAIN requests,
         processTransactionRequest(g, r)
  PROVE  StorageInv'
<1> USE DEF StorageInv
<1>1. /\ g # turn /\ agreed[g] \in {NoTx, r.id}
      /\ verifyColdStorageTransaction(g, r.id)
      /\ agreed' = [agreed EXCEPT ![g] = r.id]
      /\ pending' = [pending EXCEPT ![g] = @ \cup {r.id}]
      /\ requests' = [requests EXCEPT ![r] = @ \cup {g}]
      /\ UNCHANGED <<period, turn, lock, forbidden, paid, txs, settled, approvals,
                     table>>
  BY DEF processTransactionRequest, verifyTransactionRequest
<1>2. /\ r.id \in Created /\ r.id \in TxIds /\ Created' = Created
      /\ DOMAIN requests' = DOMAIN requests
      /\ NoTx \notin Created
  BY <1>1 DEF Numbers, TypeOK, Created, NoTx
<1>3. \A h \in Guards : getActiveColdStorageTxs(h)' = getActiveColdStorageTxs(h)
  BY <1>1 DEF getActiveColdStorageTxs
<1>4. TypeOK'
  BY <1>1, <1>2 DEF TypeOK
<1>5. Numbers'
  BY <1>2, <1>3 DEF Numbers
<1>6. /\ pending'[g] = {r.id} /\ agreed'[g] = r.id
      /\ \A h \in Guards \ {g} : pending'[h] = pending[h] /\ agreed'[h] = agreed[h]
  <2>1. pending[g] \subseteq {agreed[g]} /\ pending[g] \subseteq Created
    BY <1>1 DEF OneAgreed, TypeOK
  <2>2. pending[g] \subseteq {r.id}
    BY <1>1, <1>2, <2>1
  <2>3. QED
    BY <1>1, <2>2 DEF TypeOK
<1>7. OneAgreed' /\ TurnAsked'
  BY <1>1, <1>2, <1>6 DEF OneAgreed, TurnAsked, TypeOK
<1>8. HeldApart'
  <2>1. \A j \in getActiveColdStorageTxs(g) \ {r.id} :
          ~Conflicts(txs[r.id], txs[j]) /\ ~Conflicts(txs[j], txs[r.id])
    BY <1>1 DEF verifyColdStorageTransaction, Conflicts
  <2>2. /\ Held(g)' = getActiveColdStorageTxs(g) \cup {r.id}
        /\ \A h \in Guards \ {g} : Held(h)' = Held(h)
    BY <1>3, <1>6 DEF Held
  <2>3. ASSUME NEW h \in Guards, NEW i \in Held(h)', NEW j \in Held(h)', i # j
        PROVE  ~Conflicts(txs[i], txs[j])
    <3>1. CASE h = g
      BY <2>1, <2>2, <2>3, <3>1 DEF HeldApart, Held
    <3>2. CASE h # g
      BY <2>2, <2>3, <3>2 DEF HeldApart
    <3>3. QED
      BY <3>1, <3>2
  <2>4. QED
    BY <1>1, <2>3 DEF HeldApart, Conflicts, Transfers
<1>9. QED
  BY <1>4, <1>5, <1>7, <1>8

\* What does not touch what guards hold.
LEMMA Elsewhere ==
  ASSUME StorageInv, TypeOK', UNCHANGED <<period, turn, txs, requests, agreed>>,
         \A g \in Guards : /\ pending'[g] = pending[g]
                           /\ getActiveColdStorageTxs(g)' \subseteq
                                getActiveColdStorageTxs(g)
  PROVE  StorageInv'
<1> USE DEF StorageInv
<1>1. Numbers'
  BY DEF Numbers, Created
<1>2. OneAgreed' /\ TurnAsked'
  BY DEF OneAgreed, TurnAsked, TypeOK
<1>3. \A g \in Guards : Held(g)' \subseteq Held(g)
  BY DEF Held
<1>4. HeldApart'
  BY <1>3, StillApart
<1>5. QED
  BY <1>1, <1>2, <1>4

LEMMA TurnPassed ==
  ASSUME StorageInv, NextTurn PROVE StorageInv'
<1> USE DEF StorageInv
<1>1. \A g \in Guards : /\ pending'[g] = {}
                        /\ getActiveColdStorageTxs(g)' = getActiveColdStorageTxs(g)
  BY DEF NextTurn, ClearPending, getActiveColdStorageTxs
<1>2. TypeOK'
  BY ColdStorageAssumption DEF TypeOK, NextTurn, ClearPending, Created
<1>3. Numbers'
  BY <1>1 DEF Numbers, NextTurn, Created
<1>4. OneAgreed' /\ TurnAsked'
  BY <1>1, <1>2 DEF OneAgreed, TurnAsked, TypeOK
<1>5. HeldApart'
  BY <1>1, StillApart DEF Held, NextTurn
<1>6. QED
  BY <1>2, <1>3, <1>4, <1>5

LEMMA StorageInit == ColdStorageInit => StorageInv
<1> SUFFICES ASSUME ColdStorageInit PROVE StorageInv
  OBVIOUS
<1>1. Created = {} /\ Created = 1 .. 0
  BY DEF ColdStorageInit, Created
<1>2. \A g \in Guards : getActiveColdStorageTxs(g) = {} /\ pending[g] = {}
  BY DEF ColdStorageInit, getActiveColdStorageTxs
<1>3. TypeOK
  BY <1>1, ColdStorageAssumption DEF ColdStorageInit, TypeOK, Balances
<1>4. Numbers
  BY <1>1, <1>2 DEF Numbers, ColdStorageInit
<1>5. OneAgreed /\ TurnAsked /\ HeldApart
  BY <1>2, <1>3 DEF OneAgreed, TurnAsked, HeldApart, Held, TypeOK
<1>6. QED
  BY <1>3, <1>4, <1>5 DEF StorageInv

LEMMA StorageNext == StorageInv /\ [ColdStorageNext]_vars => StorageInv'
<1> SUFFICES ASSUME StorageInv, [ColdStorageNext]_vars PROVE StorageInv'
  OBVIOUS
<1> USE DEF StorageInv
<1>1. ASSUME NEW g \in Guards, NEW r \in DOMAIN requests, processApprovalMessage(g, r)
      PROVE  StorageInv'
  <2>1. r.id \in Created
    BY DEF Numbers
  <2>2. \/ r.id \in pending[g]
        \/ /\ g # turn /\ agreed[g] \in {NoTx, r.id}
           /\ verifyColdStorageTransaction(g, r.id)
    BY <1>1 DEF processApprovalMessage, verifyTransactionRequest
  <2>3. /\ setTxAsApproved(g, r.id)
        /\ UNCHANGED <<period, turn, lock, forbidden, paid, txs, settled, requests>>
        /\ approvals' \subseteq DOMAIN requests
    BY <1>1 DEF processApprovalMessage, TypeOK
  <2>4. QED
    BY <2>1, <2>2, <2>3, Inserted
<1>2. ASSUME NEW r \in DOMAIN requests, processAgreementResponse(r)
      PROVE  StorageInv'
  <2>1. r.id \in Created /\ r.from \in Guards /\ r.id \in pending[r.from]
    BY <1>2 DEF Numbers, TypeOK, Request, processAgreementResponse
  <2>2. /\ setTxAsApproved(r.from, r.id)
        /\ UNCHANGED <<period, turn, lock, forbidden, paid, txs, settled, requests>>
        /\ approvals' \subseteq DOMAIN requests
    BY <1>2 DEF processAgreementResponse, TypeOK
  <2>3. QED
    BY <2>1, <2>2, Inserted
<1>3. ASSUME NEW g \in Guards, NEW i \in TxIds, ProcessTx(g, i)
      PROVE  StorageInv'
  <2>1. TypeOK'
    BY <1>3 DEF ProcessTx, TypeOK, Created
  <2>2. \A h \in Guards :
          getActiveColdStorageTxs(h)' \subseteq getActiveColdStorageTxs(h)
    BY <1>3 DEF ProcessTx, TypeOK, getActiveColdStorageTxs
  <2>3. QED
    BY <1>3, <2>1, <2>2, Elsewhere DEF ProcessTx
<1>4. ASSUME \/ \E i \in TxIds : Confirm(i) \/ Fail(i)
             \/ \E a \in Assets : Deposit(a) \/ PayEvent(a) \/ Wait(a)
             \/ UNCHANGED vars
      PROVE  StorageInv'
  <2>1. UNCHANGED <<period, turn, txs, requests, approvals, pending, agreed, table>>
    BY <1>4 DEF Confirm, Fail, Deposit, PayEvent, Wait, vars
  <2>2. /\ lock' \in Balances /\ paid' \in Balances /\ forbidden' \subseteq Assets
        /\ settled' \in [TxIds -> {"no", "confirmed", "failed"}]
    <3>1. ASSUME NEW i \in TxIds, Confirm(i) PROVE lock' \in Balances
      <4>1. txs[i] \in Balances
        BY <3>1 DEF Confirm, TypeOK
      <4>2. \A a \in Assets : lock[a] - txs[i][a] \in Nat
        BY <3>1, <4>1 DEF Confirm, TypeOK, Balances
      <4>3. QED
        BY <3>1, <4>2 DEF Confirm, Balances
    <3>2. ASSUME NEW i \in TxIds, Confirm(i) \/ Fail(i)
          PROVE  settled' \in [TxIds -> {"no", "confirmed", "failed"}]
      BY <3>2 DEF Confirm, Fail, TypeOK
    <3>3. ASSUME NEW a \in Assets, Deposit(a) \/ PayEvent(a)
          PROVE  lock' \in Balances /\ paid' \in Balances
      BY SMTT(20), <3>3, ColdStorageAssumption DEF Deposit, PayEvent, TypeOK, Balances
    <3>4. ASSUME NEW a \in Assets, Wait(a) PROVE forbidden' \subseteq Assets
      BY <3>4 DEF Wait, TypeOK
    <3>5. QED
      BY <1>4, <3>1, <3>2, <3>3, <3>4
         DEF TypeOK, Confirm, Fail, Deposit, PayEvent, Wait, vars
  <2>3. TypeOK'
    BY <2>1, <2>2 DEF TypeOK, Created
  <2>4. \A g \in Guards :
          getActiveColdStorageTxs(g)' \subseteq getActiveColdStorageTxs(g)
    BY <2>1 DEF getActiveColdStorageTxs
  <2>5. QED
    BY <2>1, <2>3, <2>4, Elsewhere
<1>5. QED
  BY <1>1, <1>2, <1>3, <1>4, CreatedApart, AskedAgain, Agreed, TurnPassed
     DEF ColdStorageNext

\* The balances, the txs, the messages and the tables keep their types, and
\* what a guard holds in its turn and out of it stays apart.
THEOREM StorageInvariant == ColdStorageSpec => []StorageInv
BY StorageInit, StorageNext, PTL DEF ColdStorageSpec

\* A guard's table never holds two txs that transfer the same token, for any
\* number of guards, any thresholds and any order of the messages.
THEOREM NoTwoForOneTokenAlways == ColdStorageSpec => []NoTwoForOneToken
<1>1. StorageInv => NoTwoForOneToken
  BY DEF StorageInv, HeldApart, Held, NoTwoForOneToken
<1>2. QED
  BY <1>1, StorageInvariant, PTL

-----------------------------------------------------------------------------
(* What remains in the lock address.  A tx fits while the lock address would *)
(* keep the low thresholds of what it transfers, event payments apart.  A    *)
(* guard agrees to a tx that fits; it stops to when another that transfers   *)
(* the same token is confirmed, and then requiredSign guards held that one,  *)
(* too many for requiredSign others to hold this one.                        *)

Fits(i) ==
  \A a \in Transfers(txs[i]) : lock[a] + paid[a] - txs[i][a] >= low[a]

Holders(i) == {g \in Guards : i \in Held(g)}

FewHoldUnfit ==
  \A i \in Created :
    settled[i] = "no" /\ ~Fits(i) => Cardinality(Holders(i)) < requiredSign

LowInv == LowRemains /\ FewHoldUnfit

LEMMA Amounts ==
  ASSUME StorageInv, NEW a \in Assets
  PROVE  /\ lock[a] \in Nat /\ paid[a] \in Nat /\ low[a] \in Nat
         /\ \A i \in Created : txs[i][a] \in Nat
BY ColdStorageAssumption DEF StorageInv, TypeOK, Balances

LEMMA HoldersFinite ==
  ASSUME NEW i PROVE /\ IsFiniteSet(Holders(i)) /\ Cardinality(Holders(i)) \in Nat
                     /\ IsFiniteSet(Active(i)) /\ Cardinality(Active(i)) \in Nat
<1>1. Holders(i) \subseteq Guards /\ Active(i) \subseteq Guards
  BY DEF Holders, Active
<1>2. QED
  BY <1>1, ColdStorageAssumption, FS_Subset, FS_CardinalityType

\* The guards that sign a tx hold it.
LEMMA ActiveHold ==
  ASSUME StorageInv, NEW i \in Created
  PROVE  Cardinality(Active(i)) <= Cardinality(Holders(i))
<1>1. Active(i) \subseteq Holders(i)
  BY DEF Active, Holders, Held, getActiveColdStorageTxs, StorageInv, TypeOK
<1>2. QED
  BY <1>1, HoldersFinite, FS_Subset

\* Two txs for one token are not held by requiredSign guards each.
LEMMA NotBothHeld ==
  ASSUME StorageInv, NEW i \in Created, NEW j \in Created, i # j,
         Conflicts(txs[i], txs[j]), Cardinality(Active(j)) >= requiredSign
  PROVE  Cardinality(Holders(i)) < requiredSign
<1>1. Holders(i) \cap Holders(j) = {}
  BY DEF StorageInv, HeldApart, Holders
<1>2. /\ IsFiniteSet(Guards) /\ requiredSign \in Nat
      /\ 2 * requiredSign > Cardinality(Guards)
  BY ColdStorageAssumption
<1>3. Holders(i) \cup Holders(j) \subseteq Guards
  BY DEF Holders
<1> DEFINE hi == Holders(i)
           hj == Holders(j)
<1>4. /\ IsFiniteSet(hi) /\ IsFiniteSet(hj)
      /\ Cardinality(hi) \in Nat /\ Cardinality(hj) \in Nat
      /\ Cardinality(hj) >= requiredSign
  BY <1>2, HoldersFinite, ActiveHold
<1> HIDE DEF hi, hj
<1>5. Cardinality(hi \cup hj) = Cardinality(hi) + Cardinality(hj)
  <2>1. hi \cap hj = {}
    BY <1>1 DEF hi, hj
  <2>2. Cardinality(hi \cap hj) = 0
    BY <2>1, FS_EmptySet
  <2>3. Cardinality(hi \cup hj)
          = Cardinality(hi) + Cardinality(hj) - Cardinality(hi \cap hj)
    BY <1>4, FS_Union
  <2>4. QED
    BY <1>4, <2>2, <2>3
<1>6. /\ Cardinality(hi \cup hj) <= Cardinality(Guards)
      /\ Cardinality(Guards) \in Nat
  BY <1>2, <1>3, FS_Subset, FS_CardinalityType DEF hi, hj
<1>7. Cardinality(hi) < requiredSign
  BY <1>2, <1>4, <1>5, <1>6
<1>8. QED
  BY <1>7 DEF hi

\* What passes verifyTransfer fits.
LEMMA VerifiedFits ==
  ASSUME StorageInv, NEW i \in Created, verifyTransfer(txs[i], lock, forbidden)
  PROVE  Fits(i)
<1>1. ASSUME NEW a \in Transfers(txs[i])
      PROVE  lock[a] + paid[a] - txs[i][a] >= low[a]
  <2>1. a \in Assets /\ lock[a] - txs[i][a] >= low[a]
    BY ColdStorageAssumption
       DEF verifyTransfer, WithinThresholds, Transfers, Assets
  <2>2. QED
    BY <2>1, Amounts
<1>2. QED
  BY <1>1 DEF Fits

\* So does what the guard of the turn creates.
LEMMA OrdersFit ==
  ASSUME StorageInv,
         NEW o \in generateMultipleTransactions(
                     coldStorageOrder(lock, forbidden), forbidden),
         NEW a \in Transfers(o)
  PROVE  lock[a] + paid[a] - o[a] >= low[a]
<1> DEFINE order == coldStorageOrder(lock, forbidden)
<1>1. a \in Tokens /\ a \in Assets /\ a # native /\ o[a] > 0
  BY ColdStorageAssumption DEF Transfers, Assets
<1>2. o[a] = 0 \/ o[a] = order[a]
  BY <1>1 DEF generateMultipleTransactions
<1>3. order[a] = IF Exceeds(lock, forbidden, a)
                 THEN Transferring(lock, forbidden, a) ELSE 0
  BY <1>1 DEF coldStorageOrder
<1>4. o[a] = lock[a] - low[a]
  BY <1>1, <1>2, <1>3 DEF Transferring
<1>5. QED
  BY <1>1, <1>4, Amounts

\* Where nothing leaves the lock address but for events, and the new txs and
\* the new holders are of txs that fit, few hold one that does not.
LEMMA LowKept ==
  ASSUME StorageInv, StorageInv', LowInv,
         \A a \in Assets : lock'[a] + paid'[a] >= lock[a] + paid[a],
         \A i \in Created : i \in Created' /\ txs'[i] = txs[i],
         \A i \in Created' \ Created : Fits(i)',
         \A i \in Created : settled'[i] = "no" => settled[i] = "no",
         \A i \in Created : Fits(i) \/ Holders(i)' \subseteq Holders(i)
  PROVE  LowInv'
<1>1. \A a \in Assets : /\ lock[a] \in Nat /\ paid[a] \in Nat /\ low[a] \in Nat
                        /\ lock'[a] \in Nat /\ paid'[a] \in Nat
  BY ColdStorageAssumption DEF StorageInv, TypeOK, Balances
<1>2. LowRemains'
  <2>1. ASSUME NEW a \in Tokens PROVE lock'[a] + paid'[a] >= low[a]
    <3>1. a \in Assets /\ lock[a] + paid[a] >= low[a]
      BY DEF Assets, LowInv, LowRemains
    <3>2. QED
      BY <1>1, <3>1
  <2>2. QED
    BY <2>1 DEF LowRemains
<1>3. ASSUME NEW i \in Created, Fits(i) PROVE Fits(i)'
  <2>1. ASSUME NEW a \in Transfers(txs[i])
        PROVE  lock'[a] + paid'[a] - txs[i][a] >= low[a]
    <3>1. a \in Assets /\ lock[a] + paid[a] - txs[i][a] >= low[a]
      BY <1>3 DEF Fits, Transfers, Assets
    <3>2. txs[i][a] \in Nat
      BY <3>1, Amounts
    <3>3. QED
      BY <1>1, <3>1, <3>2
  <2>2. txs'[i] = txs[i]
    OBVIOUS
  <2>3. QED
    BY <2>1, <2>2 DEF Fits, Transfers
<1>4. ASSUME NEW i \in Created', settled'[i] = "no", ~Fits(i)'
      PROVE  (Cardinality(Holders(i)) < requiredSign)'
  <2>1. i \in Created /\ ~Fits(i) /\ settled[i] = "no"
    BY <1>3, <1>4
  <2>2. Cardinality(Holders(i)) < requiredSign /\ Holders(i)' \subseteq Holders(i)
    BY <2>1 DEF LowInv, FewHoldUnfit
  <2>3. PICK S : S = Holders(i)'
    OBVIOUS
  <2>4. IsFiniteSet(S) /\ Cardinality(S) <= Cardinality(Holders(i))
    BY <2>2, <2>3, HoldersFinite, FS_Subset
  <2>5. Cardinality(S) < requiredSign
    BY <2>2, <2>4, HoldersFinite, FS_CardinalityType, ColdStorageAssumption
  <2>6. QED
    BY <2>3, <2>5
<1>5. QED
  BY <1>2, <1>4 DEF LowInv, FewHoldUnfit

\* A confirmed tx fits, and the txs it takes from are held by few.
LEMMA LowConfirmed ==
  ASSUME StorageInv, LowInv, NEW j \in TxIds, Confirm(j)
  PROVE  LowInv'
<1>1. /\ j \in Created /\ settled[j] = "no"
      /\ Cardinality(Active(j)) >= requiredSign
      /\ lock' = [a \in Assets |-> lock[a] - txs[j][a]]
      /\ settled' = [settled EXCEPT ![j] = "confirmed"]
      /\ UNCHANGED <<paid, txs, pending, table>>
  BY DEF Confirm
<1>2. Created' = Created /\ \A i \in Created : Holders(i)' = Holders(i)
  BY <1>1 DEF Created, Holders, Held, getActiveColdStorageTxs
<1>3. Fits(j)
  BY <1>1, ActiveHold, HoldersFinite, ColdStorageAssumption DEF LowInv, FewHoldUnfit
<1>4. LowRemains'
  <2>1. ASSUME NEW a \in Tokens PROVE lock'[a] + paid'[a] >= low[a]
    <3>1. a \in Assets /\ lock[a] + paid[a] >= low[a]
      BY DEF Assets, LowInv, LowRemains
    <3>2. txs[j][a] > 0 => lock[a] + paid[a] - txs[j][a] >= low[a]
      BY <1>3 DEF Fits, Transfers
    <3>3. lock'[a] = lock[a] - txs[j][a] /\ paid' = paid
      BY <1>1, <3>1
    <3>4. QED
      BY <1>1, <3>1, <3>2, <3>3, Amounts
  <2>2. QED
    BY <2>1 DEF LowRemains
<1>5. ASSUME NEW i \in Created, settled'[i] = "no", ~Fits(i)'
      PROVE  Cardinality(Holders(i)) < requiredSign
  <2>1. i # j /\ settled[i] = "no"
    BY <1>1, <1>5 DEF StorageInv, TypeOK
  <2>2. CASE ~Fits(i)
    BY <2>1, <2>2 DEF LowInv, FewHoldUnfit
  <2>3. CASE Fits(i)
    <3>1. PICK a \in Transfers(txs[i]) : ~(lock'[a] + paid[a] - txs[i][a] >= low[a])
      BY <1>1, <1>5 DEF Fits, Transfers
    <3>2. a \in Assets /\ a \in Tokens /\ lock[a] + paid[a] - txs[i][a] >= low[a]
      BY <2>3 DEF Fits, Transfers, Assets
    <3>3. lock'[a] = lock[a] - txs[j][a]
      BY <1>1, <3>2
    <3>4. txs[j][a] > 0
      BY <1>1, <3>1, <3>2, <3>3, Amounts
    <3>5. Conflicts(txs[i], txs[j])
      BY <3>2, <3>4 DEF Conflicts, Transfers
    <3>6. QED
      BY <1>1, <2>1, <3>5, NotBothHeld
  <2>4. QED
    BY <2>2, <2>3
<1>6. FewHoldUnfit'
  BY <1>2, <1>5 DEF FewHoldUnfit
<1>7. QED
  BY <1>4, <1>6 DEF LowInv

LEMMA LowInit == ColdStorageInit => LowInv
<1> SUFFICES ASSUME ColdStorageInit PROVE LowInv
  OBVIOUS
<1>1. Created = {}
  BY DEF ColdStorageInit, Created
<1>2. LowRemains
  BY ColdStorageAssumption DEF ColdStorageInit, LowRemains, Assets
<1>3. QED
  BY <1>1, <1>2 DEF LowInv, FewHoldUnfit

LEMMA LowNext ==
  ASSUME StorageInv, StorageInv', LowInv, ColdStorageNext PROVE LowInv'
<1> DEFINE lockKept == \A a \in Assets : lock'[a] + paid'[a] >= lock[a] + paid[a]
           txsKept == \A i \in Created : i \in Created' /\ txs'[i] = txs[i]
           fitNew == \A i \in Created' \ Created : Fits(i)'
           settledKept == \A i \in Created : settled'[i] = "no" => settled[i] = "no"
           heldKept == \A i \in Created : Fits(i) \/ Holders(i)' \subseteq Holders(i)
<1>1. UNCHANGED <<lock, paid>> => lockKept
  <2>1. ASSUME UNCHANGED <<lock, paid>>, NEW a \in Assets
        PROVE  lock'[a] + paid'[a] >= lock[a] + paid[a]
    BY <2>1, Amounts
  <2>2. QED
    BY <2>1
<1>2. UNCHANGED txs => txsKept /\ fitNew
  BY DEF Created
<1>3. ASSUME NEW g \in Guards, NEW i \in Created, setTxAsApproved(g, i),
             i \in pending[g] \/ verifyColdStorageTransaction(g, i)
      PROVE  heldKept
  <2>1. TAKE k \in Created
  <2>2. /\ pending' = [pending EXCEPT ![g] = @ \ {i}]
        /\ table' = [table EXCEPT ![g][i] = IF @ = "none" THEN "active" ELSE @]
    BY <1>3 DEF setTxAsApproved
  <2>3. \A h \in Guards : k \in Held(h)' =>
           k \in Held(h) \/ (h = g /\ k = i)
    BY <2>2 DEF Held, getActiveColdStorageTxs, StorageInv, TypeOK
  <2>4. CASE k = i /\ ~(i \in pending[g])
    BY <1>3, <2>4, VerifiedFits DEF verifyColdStorageTransaction
  <2>5. CASE k = i /\ i \in pending[g]
    BY <2>3, <2>5 DEF Holders, Held
  <2>6. CASE k # i
    BY <2>3, <2>6 DEF Holders
  <2>7. QED
    BY <2>4, <2>5, <2>6
<1>4. ASSUME NEW g \in Guards, chainColdStorageProcess(g) PROVE LowInv'
  <2> DEFINE orders == generateMultipleTransactions(
                         coldStorageOrder(lock, forbidden), forbidden)
             ids == Cardinality(Created) + 1 .. Cardinality(Created) + Cardinality(orders)
  <2>1. PICK numbering \in Bijection(ids, orders) : txs' = Numbered(numbering)
    BY <1>4 DEF chainColdStorageProcess
  <2>2. /\ pending' = [pending EXCEPT ![g] = @ \cup ids]
        /\ UNCHANGED <<lock, paid, settled, table>>
    BY <1>4 DEF chainColdStorageProcess
  <2>3. IsFiniteSet(orders)
    BY OrderType, OrdersType DEF StorageInv, TypeOK
  <2> HIDE DEF orders
  <2>b. ids = Cardinality(Created) + 1 .. Cardinality(Created) + Cardinality(orders)
    OBVIOUS
  <2> HIDE DEF ids
  <2>4. Created' = Created \cup ids /\ ids \cap Created = {}
    BY <2>1, <2>3, <2>b, NextNumbers DEF StorageInv
  <2>5. DOMAIN numbering = ids /\ \A i \in ids : numbering[i] \in orders
    BY <2>1 DEF Bijection, Injection
  <2>6. /\ \A i \in Created : txs'[i] = txs[i]
        /\ \A i \in ids : txs'[i] \in orders
    BY <2>1, <2>4, <2>5 DEF Numbered
  <2>7. fitNew
    <3>1. TAKE i \in Created' \ Created
    <3>2. txs'[i] \in orders
      BY <2>4, <2>6
    <3>3. \A a \in Transfers(txs'[i]) : lock[a] + paid[a] - txs'[i][a] >= low[a]
      BY <3>2, OrdersFit DEF orders
    <3>4. QED
      BY <2>2, <3>3 DEF Fits, Transfers
  <2>8. heldKept
    <3>1. TAKE i \in Created
    <3>2. i \notin ids
      BY <2>4
    <3>3. \A h \in Guards : i \in Held(h)' => i \in Held(h)
      BY <2>2, <3>2 DEF Held, getActiveColdStorageTxs, StorageInv, TypeOK
    <3>4. QED
      BY <3>3 DEF Holders
  <2>9. lockKept /\ txsKept /\ settledKept
    BY <1>1, <2>2, <2>4, <2>6
  <2>10. QED
    BY <2>7, <2>8, <2>9, LowKept
<1>5. ASSUME NEW g \in Guards, enqueueSignFailedTxs(g) PROVE LowInv'
  <2>1. PICK i \in getActiveColdStorageTxs(g) : pending' = [pending EXCEPT ![g] = @ \cup {i}]
    BY <1>5 DEF enqueueSignFailedTxs
  <2>2. UNCHANGED <<lock, paid, txs, settled, table>>
    BY <1>5 DEF enqueueSignFailedTxs
  <2>3. \A h \in Guards : Held(h)' \subseteq Held(h)
    BY <2>1, <2>2 DEF Held, getActiveColdStorageTxs, StorageInv, TypeOK
  <2>4. heldKept
    BY <2>3 DEF Holders
  <2>5. QED
    BY <1>1, <1>2, <2>2, <2>4, LowKept
<1>6. ASSUME NEW g \in Guards, NEW r \in DOMAIN requests,
             processTransactionRequest(g, r)
      PROVE  LowInv'
  <2>1. /\ verifyColdStorageTransaction(g, r.id)
        /\ pending' = [pending EXCEPT ![g] = @ \cup {r.id}]
        /\ UNCHANGED <<lock, paid, txs, settled, table>>
    BY <1>6 DEF processTransactionRequest, verifyTransactionRequest
  <2>2. r.id \in Created
    BY DEF StorageInv, Numbers
  <2>3. Fits(r.id)
    BY <2>1, <2>2, VerifiedFits DEF verifyColdStorageTransaction
  <2>4. heldKept
    <3>1. TAKE i \in Created
    <3>2. i # r.id => \A h \in Guards : i \in Held(h)' => i \in Held(h)
      BY <2>1 DEF Held, getActiveColdStorageTxs, StorageInv, TypeOK
    <3>3. QED
      BY <2>3, <3>2 DEF Holders
  <2>5. QED
    BY <1>1, <1>2, <2>1, <2>4, LowKept
<1>7. ASSUME NEW g \in Guards, NEW r \in DOMAIN requests, processApprovalMessage(g, r)
      PROVE  LowInv'
  <2>1. /\ setTxAsApproved(g, r.id) /\ r.id \in Created
        /\ r.id \in pending[g] \/ verifyColdStorageTransaction(g, r.id)
        /\ UNCHANGED <<lock, paid, txs, settled>>
    BY <1>7 DEF processApprovalMessage, verifyTransactionRequest, StorageInv, Numbers
  <2>2. heldKept
    BY <1>3, <2>1
  <2>3. QED
    BY <1>1, <1>2, <2>1, <2>2, LowKept
<1>8. ASSUME NEW r \in DOMAIN requests, processAgreementResponse(r)
      PROVE  LowInv'
  <2>1. /\ setTxAsApproved(r.from, r.id) /\ r.id \in Created /\ r.from \in Guards
        /\ r.id \in pending[r.from]
        /\ UNCHANGED <<lock, paid, txs, settled>>
    BY <1>8 DEF processAgreementResponse, StorageInv, Numbers, TypeOK, Request
  <2>2. heldKept
    BY <1>3, <2>1
  <2>3. QED
    BY <1>1, <1>2, <2>1, <2>2, LowKept
<1>9. ASSUME NEW g \in Guards, NEW i \in TxIds, ProcessTx(g, i) PROVE LowInv'
  <2>1. /\ table' = [table EXCEPT ![g][i] =
                       IF settled[i] = "confirmed" THEN "completed" ELSE "invalid"]
        /\ UNCHANGED <<lock, paid, txs, settled, pending>>
    BY <1>9 DEF ProcessTx
  <2>2. \A h \in Guards : Held(h)' \subseteq Held(h)
    BY <2>1 DEF Held, getActiveColdStorageTxs, StorageInv, TypeOK
  <2>3. heldKept
    BY <2>2 DEF Holders
  <2>4. QED
    BY <1>1, <1>2, <2>1, <2>3, LowKept
<1>10. ASSUME UNCHANGED <<txs, pending, table>> \/ NextTurn PROVE heldKept
  <2>1. UNCHANGED <<txs, table>> /\ \A h \in Guards : pending'[h] \subseteq pending[h]
    BY <1>10 DEF NextTurn, ClearPending
  <2>2. \A h \in Guards : Held(h)' \subseteq Held(h)
    BY <2>1 DEF Held, getActiveColdStorageTxs
  <2>3. QED
    BY <2>2 DEF Holders
<1>11. ASSUME NEW i \in TxIds, Fail(i) PROVE LowInv'
  <2>1. UNCHANGED <<lock, paid, txs, pending, table>> /\ settledKept
    BY <1>11 DEF Fail, StorageInv, TypeOK
  <2>2. QED
    BY <1>1, <1>2, <1>10, <2>1, LowKept
<1>12. ASSUME NEW a \in Assets, Deposit(a) \/ PayEvent(a) PROVE LowInv'
  <2>1. UNCHANGED <<txs, settled, pending, table>>
    BY <1>12 DEF Deposit, PayEvent
  <2>2. ASSUME NEW b \in Assets PROVE lock'[b] + paid'[b] >= lock[b] + paid[b]
    <3>1. /\ lock[b] \in Nat /\ paid[b] \in Nat /\ MaxBalance \in Nat
          /\ lock \in [Assets -> Nat] /\ paid \in [Assets -> Nat]
      BY Amounts, ColdStorageAssumption DEF StorageInv, TypeOK, Balances
    <3>2. CASE Deposit(a)
      BY <3>1, <3>2 DEF Deposit
    <3>3. CASE PayEvent(a)
      BY <3>1, <3>3 DEF PayEvent
    <3>4. QED
      BY <1>12, <3>2, <3>3
  <2>3. QED
    BY <1>2, <1>10, <2>1, <2>2, LowKept
<1>13. ASSUME \/ \E a \in Assets : Wait(a)
              \/ NextTurn
       PROVE  LowInv'
  <2>1. UNCHANGED <<lock, paid, txs, settled>> /\ heldKept
    BY <1>10, <1>13 DEF Wait, NextTurn
  <2>2. QED
    BY <1>1, <1>2, <2>1, LowKept
<1>14. QED
  BY <1>4, <1>5, <1>6, <1>7, <1>8, <1>9, <1>11, <1>12, <1>13, LowConfirmed
     DEF ColdStorageNext

LEMMA LowStutter == LowInv /\ UNCHANGED vars => LowInv'
BY DEF LowInv, LowRemains, FewHoldUnfit, Fits, Transfers, Holders, Held,
       getActiveColdStorageTxs, Created, vars

\* However late the approvals come and whatever events take meanwhile, the cold
\* storage txs leave the low threshold of every token.
THEOREM LowRemainsAlways == ColdStorageSpec => []LowRemains
<1>1. StorageInv /\ StorageInv' /\ LowInv /\ [ColdStorageNext]_vars => LowInv'
  BY LowNext, LowStutter
<1>2. LowInv => LowRemains
  BY DEF LowInv
<1>3. QED
  BY <1>1, <1>2, LowInit, StorageInvariant, PTL DEF ColdStorageSpec

-----------------------------------------------------------------------------
(* The two computations with the thresholds *)

\* What coldStorageOrder says of every asset.
LEMMA OrderAmounts ==
  ASSUME StorageInv, minimumNativeToken <= lock[native],
         NEW order, order = coldStorageOrder(lock, forbidden)
  PROVE  /\ \A a \in Tokens :
              /\ Exceeds(lock, forbidden, a) => order[a] = lock[a] - low[a]
              /\ ~Exceeds(lock, forbidden, a) => order[a] = 0
         /\ Exceeds(lock, forbidden, native) => order[native] = lock[native] - low[native]
         /\ ~Exceeds(lock, forbidden, native) => order[native] = minimumNativeToken
<1>1. \A a \in Tokens : a \in Assets /\ a # native
  BY ColdStorageAssumption DEF Assets
<1>2. native \in Assets
  BY DEF Assets
<1>3. /\ lock[native] \in Nat /\ low[native] \in Nat /\ high[native] \in Nat
      /\ minimumNativeToken \in Nat
      /\ minimumNativeToken <= high[native] - low[native]
  BY <1>2, Amounts, ColdStorageAssumption
<1>4. order = [a \in Assets |->
        IF a = native
        THEN MaxOf(IF Exceeds(lock, forbidden, native)
                   THEN Transferring(lock, forbidden, native) ELSE 0,
                   minimumNativeToken)
        ELSE IF Exceeds(lock, forbidden, a)
        THEN Transferring(lock, forbidden, a) ELSE 0]
  BY DEF coldStorageOrder
<1>5. order[native] = MaxOf(IF Exceeds(lock, forbidden, native)
                            THEN lock[native] - low[native] ELSE 0,
                            minimumNativeToken)
  BY <1>2, <1>4 DEF Transferring
<1>6. /\ Exceeds(lock, forbidden, native) => order[native] = lock[native] - low[native]
      /\ ~Exceeds(lock, forbidden, native) => order[native] = minimumNativeToken
  BY <1>3, <1>5 DEF MaxOf, Exceeds
<1>7. QED
  BY <1>1, <1>4, <1>6 DEF Transferring

\* A token is transferred when it exceeds its threshold and no event waits for
\* it, and then what is left is its low threshold.
LEMMA TokensVerified ==
  ASSUME StorageInv, NEW order,
         \A a \in Tokens : \/ /\ Exceeds(lock, forbidden, a)
                              /\ order[a] = lock[a] - low[a]
                           \/ order[a] = 0
  PROVE  /\ Transfers(order) \cap forbidden = {}
         /\ \A a \in Transfers(order) :
              /\ lock[a] > high[a]
              /\ lock[a] - order[a] > 0
              /\ WithinThresholds(lock[a] - order[a], a)
<1>1. ASSUME NEW a \in Transfers(order)
      PROVE  /\ a \notin forbidden /\ lock[a] > high[a]
             /\ lock[a] - order[a] > 0
             /\ WithinThresholds(lock[a] - order[a], a)
  <2>1. a \in Tokens /\ a \in Assets /\ order[a] > 0
    BY DEF Transfers, Assets
  <2>2. Exceeds(lock, forbidden, a) /\ order[a] = lock[a] - low[a]
    BY <2>1
  <2>3. /\ lock[a] \in Nat /\ low[a] \in Nat \ {0} /\ high[a] \in Nat
        /\ low[a] < high[a]
    BY <2>1, Amounts, ColdStorageAssumption
  <2>4. lock[a] - order[a] = low[a]
    BY <2>2, <2>3
  <2>5. QED
    BY <2>2, <2>3, <2>4 DEF Exceeds, WithinThresholds
<1>2. QED
  BY <1>1

\* What the guard of the turn creates is what the others accept, for any
\* thresholds, on a chain that pays an order by one tx.
THEOREM CreatedIsVerifiedAlways ==
  ASSUME ~SplitsOrders PROVE ColdStorageSpec => []CreatedIsVerified
<1>1. ASSUME StorageInv PROVE CreatedIsVerified
  <2> SUFFICES ASSUME IsRequired(lock, forbidden), minimumNativeToken <= lock[native],
                      NEW order, order = coldStorageOrder(lock, forbidden)
               PROVE  verifyTransfer(order, lock, forbidden)
    BY DEF CreatedIsVerified, generateMultipleTransactions
  <2>1. /\ \A a \in Tokens :
              /\ Exceeds(lock, forbidden, a) => order[a] = lock[a] - low[a]
              /\ ~Exceeds(lock, forbidden, a) => order[a] = 0
        /\ Exceeds(lock, forbidden, native) => order[native] = lock[native] - low[native]
        /\ ~Exceeds(lock, forbidden, native) => order[native] = minimumNativeToken
    BY <1>1, OrderAmounts
  <2>2. /\ lock[native] \in Nat /\ low[native] \in Nat /\ high[native] \in Nat
        /\ low[native] < high[native]
        /\ minimumNativeToken \in Nat /\ maxNativeTransfer \in Nat
        /\ minimumNativeToken <= maxNativeTransfer
    BY <1>1, Amounts, ColdStorageAssumption DEF Assets
  <2>3. /\ Transfers(order) \cap forbidden = {}
        /\ \A a \in Transfers(order) :
              /\ lock[a] > high[a]
              /\ lock[a] - order[a] > 0
              /\ WithinThresholds(lock[a] - order[a], a)
    BY <1>1, <2>1, TokensVerified
  <2>4. CASE Exceeds(lock, forbidden, native)
    <3>1. /\ order[native] <= lock[native]
          /\ WithinThresholds(lock[native] - order[native], native)
      BY <2>1, <2>2, <2>4 DEF WithinThresholds
    <3>2. QED
      BY <2>3, <2>4, <3>1 DEF verifyTransfer, Exceeds
  <2>5. CASE ~Exceeds(lock, forbidden, native)
    <3>1. PICK a \in Tokens : Exceeds(lock, forbidden, a)
      BY <2>5 DEF IsRequired, Assets
    <3>2. order[a] > 0
      BY <1>1, <2>1, <3>1, Amounts, ColdStorageAssumption DEF Exceeds, Assets
    <3>3. Transfers(order) # {} /\ order[native] <= maxNativeTransfer
      BY <2>1, <2>2, <2>5, <3>1, <3>2 DEF Transfers
    <3>4. QED
      BY <2>1, <2>3, <2>5, <3>3 DEF verifyTransfer, Exceeds
  <2>6. QED
    BY <2>4, <2>5
<1>2. QED
  BY <1>1, StorageInvariant, PTL

\* On a chain that makes a tx for every asset, the others refuse those of the
\* tokens as long as the native token exceeds its threshold too, and accept
\* every other.
SplitVerified ==
  IsRequired(lock, forbidden) /\ minimumNativeToken <= lock[native] =>
    \A order \in generateMultipleTransactions(
                   coldStorageOrder(lock, forbidden), forbidden) :
      verifyTransfer(order, lock, forbidden) <=>
        order[native] > 0 \/ ~Exceeds(lock, forbidden, native)

THEOREM SplitTokensWaitForNative ==
  ASSUME SplitsOrders PROVE ColdStorageSpec => []SplitVerified
<1>1. ASSUME StorageInv PROVE SplitVerified
  <2> SUFFICES ASSUME minimumNativeToken <= lock[native],
                      NEW o \in generateMultipleTransactions(
                                  coldStorageOrder(lock, forbidden), forbidden)
               PROVE  verifyTransfer(o, lock, forbidden) <=>
                        o[native] > 0 \/ ~Exceeds(lock, forbidden, native)
    BY DEF SplitVerified
  <2>1. PICK order : order = coldStorageOrder(lock, forbidden)
    OBVIOUS
  <2>2. PICK a \in Assets :
          /\ Exceeds(lock, forbidden, a)
          /\ o = [b \in Assets |-> IF a = b THEN order[a] ELSE 0]
    BY <2>1 DEF generateMultipleTransactions
  <2>3. /\ \A b \in Tokens :
              /\ Exceeds(lock, forbidden, b) => order[b] = lock[b] - low[b]
              /\ ~Exceeds(lock, forbidden, b) => order[b] = 0
        /\ Exceeds(lock, forbidden, native) => order[native] = lock[native] - low[native]
    BY <1>1, <2>1, OrderAmounts
  <2>4. /\ lock[a] \in Nat /\ low[a] \in Nat /\ high[a] \in Nat /\ low[a] < high[a]
        /\ maxNativeTransfer \in Nat
        /\ lock[native] \in Nat /\ high[native] \in Nat
    BY <1>1, Amounts, ColdStorageAssumption DEF Assets
  <2>5. /\ Transfers(o) \cap forbidden = {}
        /\ \A b \in Transfers(o) :
              /\ lock[b] > high[b]
              /\ lock[b] - o[b] > 0
              /\ WithinThresholds(lock[b] - o[b], b)
    <3>1. \A b \in Tokens : \/ Exceeds(lock, forbidden, b) /\ o[b] = lock[b] - low[b]
                            \/ o[b] = 0
      BY <2>2, <2>3 DEF Assets
    <3>2. QED
      BY <1>1, <3>1, TokensVerified
  <2>6. CASE a = native
    <3>1. o[native] = lock[native] - low[native]
      BY <2>2, <2>3, <2>6
    <3>2. /\ o[native] <= lock[native] /\ o[native] > 0
          /\ WithinThresholds(lock[native] - o[native], native)
      BY <2>2, <2>4, <2>6, <3>1 DEF WithinThresholds, Exceeds
    <3>3. QED
      BY <2>2, <2>5, <2>6, <3>2 DEF verifyTransfer, Exceeds
  <2>7. CASE a # native
    <3>1. /\ a \in Tokens /\ o[native] = 0 /\ o[a] = lock[a] - low[a]
          /\ lock[a] > high[a]
      BY <2>2, <2>3, <2>7 DEF Assets, Exceeds
    <3>2. a \in Transfers(o)
      BY <2>4, <3>1 DEF Transfers
    <3>3. ~WithinThresholds(lock[native] - o[native], native)
            \/ ~Exceeds(lock, forbidden, native)
      BY <2>4, <3>1 DEF WithinThresholds, Exceeds
    <3>4. o[native] <= lock[native] /\ o[native] <= maxNativeTransfer
      BY <2>4, <3>1
    <3>5. QED
      BY <2>5, <3>1, <3>2, <3>3, <3>4 DEF verifyTransfer, Exceeds
  <2>8. QED
    BY <2>6, <2>7
<1>2. QED
  BY <1>1, StorageInvariant, PTL
=============================================================================
