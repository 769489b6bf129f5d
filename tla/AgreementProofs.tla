-------------------------- MODULE AgreementProofs --------------------------
(***************************************************************************)
(* Theorems about GuardTurn, for any number of guards and any lengths of   *)
(* the turns, and about TxAgreement, for any number of guards, txs, events *)
(* and any bound on the clock and on restarts.                             *)
(*                                                                         *)
(* Those about GuardTurn follow from one lemma that computes the turn of a *)
(* time from its period, its turn and its second in the turn.              *)
(***************************************************************************)
EXTENDS TxAgreement, FiniteSetTheorems, TLAPS

USE GuardTurnAssumption

-----------------------------------------------------------------------------
(* GuardTurn: division *)

\* The quotient and the remainder of a number are what their names say.
LEMMA Division ==
  ASSUME NEW a \in Int, NEW b \in Nat \ {0}
  PROVE  /\ a \div b \in Int /\ a % b \in 0 .. b - 1
         /\ a = b * (a \div b) + (a % b)
OBVIOUS

\* Two multiples that differ by less than the divisor are the same.
LEMMA SameMultiple ==
  ASSUME NEW b \in Nat \ {0}, NEW q \in Int, NEW k \in Int,
         NEW r \in 0 .. b - 1, NEW s \in 0 .. b - 1,
         b * q + r = b * k + s
  PROVE  q = k /\ r = s
<1>1. b * (q - k) = s - r
  OBVIOUS
<1>2. ~(q - k >= 1)
  <2>1. ASSUME q - k >= 1 PROVE b * (q - k) >= b
    BY <2>1
  <2>2. QED
    BY <1>1, <2>1
<1>3. ~(k - q >= 1)
  <2>1. ASSUME k - q >= 1 PROVE b * (k - q) >= b
    BY <2>1
  <2>2. b * (k - q) = r - s
    BY <1>1
  <2>3. QED
    BY <2>1, <2>2
<1>4. q = k
  BY <1>2, <1>3
<1>5. QED
  BY <1>4

\* The quotient and the remainder are the only such numbers.
LEMMA Remainder ==
  ASSUME NEW b \in Nat \ {0}, NEW q \in Int, NEW r \in 0 .. b - 1
  PROVE  (b * q + r) \div b = q /\ (b * q + r) % b = r
<1> DEFINE a == b * q + r
<1>1. a \in Int
  OBVIOUS
<1> HIDE DEF a
<1>2. a \div b \in Int /\ a % b \in 0 .. b - 1 /\ a = b * (a \div b) + (a % b)
  BY <1>1, Division
<1>3. b * q + r = b * (a \div b) + (a % b)
  BY <1>2 DEF a
<1>4. q = a \div b /\ r = a % b
  BY <1>2, <1>3, SameMultiple
<1>5. QED
  BY <1>4 DEF a

-----------------------------------------------------------------------------
(* The turn of a time *)

\* The second p of the turn q of a period k.
At(k, q, p) == FULL_PERIOD * k + (TURNS_LENGTH * q + p)

\* The turn of the second p of the turn q of a period k is q, or nobody's in
\* the gap.
LEMMA TurnOfTime ==
  ASSUME NEW k \in Int, NEW q \in Guards, NEW p \in 0 .. TURNS_LENGTH - 1
  PROVE  guardTurnAt(At(k, q, p)) =
           IF p > UP_TIME_LENGTH THEN NoTurn ELSE q
<1> DEFINE c == TURNS_LENGTH * q + p
<1>1. /\ TURNS_LENGTH \in Nat \ {0} /\ guardsLen \in Nat \ {0}
      /\ FULL_PERIOD \in Nat \ {0}
  BY DEF FULL_PERIOD
<1>2. c \in 0 .. FULL_PERIOD - 1
  <2>1. q \in Nat /\ q + 1 <= guardsLen
    BY DEF Guards
  <2>2. TURNS_LENGTH * (q + 1) <= TURNS_LENGTH * guardsLen
    BY <1>1, <2>1
  <2>3. c \in Nat /\ c < TURNS_LENGTH * (q + 1)
    BY <1>1, <2>1
  <2>4. QED
    BY <1>1, <2>1, <2>2, <2>3 DEF FULL_PERIOD
<1>3. (FULL_PERIOD * k + c) % FULL_PERIOD = c
  <2> HIDE DEF c, FULL_PERIOD
  <2>1. QED
    BY <1>1, <1>2, Remainder
<1>4. c % TURNS_LENGTH = p /\ c \div TURNS_LENGTH = q
  BY <1>1, Remainder DEF Guards
<1>5. q % guardsLen = q
  <2>1. (guardsLen * 0 + q) % guardsLen = q
    BY <1>1, Remainder DEF Guards
  <2>2. guardsLen * 0 + q = q
    BY <1>1 DEF Guards
  <2>3. QED
    BY <2>1, <2>2
<1>6. QED
  BY <1>3, <1>4, <1>5 DEF guardTurnAt, At

\* The clock shows a time of one period.
Now == now \in 0 .. FULL_PERIOD - 1

\* Such a time has a turn and a second in it.
LEMMA PointOfTurn ==
  ASSUME Now
  PROVE  /\ now \div TURNS_LENGTH \in Guards
         /\ now % TURNS_LENGTH \in 0 .. TURNS_LENGTH - 1
         /\ now = TURNS_LENGTH * (now \div TURNS_LENGTH) + (now % TURNS_LENGTH)
<1> DEFINE q == now \div TURNS_LENGTH
           p == now % TURNS_LENGTH
<1>1. TURNS_LENGTH \in Nat \ {0} /\ guardsLen \in Nat \ {0} /\ now \in Int
  BY DEF Now, FULL_PERIOD
<1>2. q \in Int /\ p \in 0 .. TURNS_LENGTH - 1 /\ now = TURNS_LENGTH * q + p
  BY <1>1, Division
<1> HIDE DEF q, p
<1>3. q >= 0
  <2>1. ASSUME q <= -1 PROVE TURNS_LENGTH * q <= - TURNS_LENGTH
    BY <1>1, <1>2, <2>1
  <2>2. QED
    BY <1>1, <1>2, <2>1 DEF Now
<1>4. q <= guardsLen - 1
  <2>1. ASSUME q >= guardsLen PROVE TURNS_LENGTH * q >= TURNS_LENGTH * guardsLen
    BY <1>1, <1>2, <2>1
  <2>2. QED
    BY <1>1, <1>2, <2>1 DEF Now, FULL_PERIOD
<1>5. QED
  BY <1>2, <1>3, <1>4 DEF q, p, Guards

\* The seconds that the timers count, without the remainders.
LEMMA Wrapped ==
  ASSUME NEW b \in Nat \ {0}, NEW x \in 0 .. b + b - 1
  PROVE  x % b = IF x < b THEN x ELSE x - b
<1>1. CASE x < b
  <2>1. (b * 0 + x) % b = x
    BY <1>1, Remainder
  <2>2. QED
    BY <1>1, <2>1
<1>2. CASE x >= b
  <2>1. x - b \in 0 .. b - 1
    BY <1>2
  <2>2. (b * 1 + (x - b)) % b = x - b
    BY <2>1, Remainder
  <2>3. b * 1 + (x - b) = x
    OBVIOUS
  <2>4. QED
    BY <1>2, <2>2, <2>3
<1>3. QED
  BY <1>1, <1>2

-----------------------------------------------------------------------------
(* GuardTurn: the theorems *)

LEMMA Lengths ==
  /\ TURNS_LENGTH \in Nat \ {0} /\ UP_TIME_LENGTH \in Nat \ {0}
  /\ UP_TIME_LENGTH + 1 < TURNS_LENGTH
  /\ guardsLen \in Nat \ {0} /\ FULL_PERIOD \in Nat \ {0}
BY DEF FULL_PERIOD

\* The clock never leaves a period.
THEOREM ClockStays == ClockSpec => []Now
<1>1. ClockInit => Now
  BY Lengths DEF ClockInit, Now
<1>2. Now /\ [ClockNext]_now => Now'
  <2> SUFFICES ASSUME Now, [ClockNext]_now PROVE Now'
    OBVIOUS
  <2>1. CASE ClockNext
    <3>1. now + 1 \in Int
      BY Lengths DEF Now
    <3>2. (now + 1) % FULL_PERIOD \in 0 .. FULL_PERIOD - 1
      BY <3>1, Lengths, Division
    <3>3. QED
      BY <2>1, <3>2 DEF ClockNext, Now, FULL_PERIOD
  <2>2. CASE UNCHANGED now
    BY <2>2 DEF Now, FULL_PERIOD
  <2>3. QED
    BY <2>1, <2>2
<1>3. QED
  BY <1>1, <1>2, PTL DEF ClockSpec

LEMMA WakesAt == Now => WakesInOwnTurn
<1> SUFFICES ASSUME Now, NEW g \in Guards
             PROVE  guardTurnAt(now + secondsToNextTurn(g)) = g
  BY DEF WakesInOwnTurn
<1> DEFINE F == FULL_PERIOD
           T == TURNS_LENGTH
           gt == g * T
           x == gt - now + F
<1>1. /\ F \in Nat \ {0} /\ T \in Nat \ {0} /\ now \in 0 .. F - 1
      /\ g \in Nat /\ 1 \in 0 .. T - 1 /\ ~(1 > UP_TIME_LENGTH)
  BY Lengths DEF Now, Guards
<1>2. gt \in 0 .. F - 1 /\ gt = T * g
  <2>1. g + 1 <= guardsLen
    BY DEF Guards
  <2>2. T * (g + 1) <= T * guardsLen
    BY <1>1, <2>1, Lengths
  <2>3. gt = T * g /\ T * (g + 1) = gt + T /\ T * guardsLen = F /\ gt \in Nat
    BY <1>1, Lengths DEF FULL_PERIOD
  <2> HIDE DEF gt, F, T
  <2>4. QED
    BY <1>1, <2>2, <2>3
<1>3. now % F = now
  BY <1>1, Wrapped
<1>4. secondsToNextTurn(g) = (x % F) + 1
  BY <1>3 DEF secondsToNextTurn
<1>5. guardTurnAt(At(1, g, 1)) = g /\ guardTurnAt(At(0, g, 1)) = g
  BY <1>1, TurnOfTime
<1>a. At(1, g, 1) = F * 1 + (T * g + 1) /\ At(0, g, 1) = F * 0 + (T * g + 1)
  BY DEF At
<1> HIDE DEF gt, F, T
<1>6. x \in 0 .. F + F - 1
  BY <1>1, <1>2
<1>7. x % F = IF x < F THEN x ELSE x - F
  BY <1>1, <1>6, Wrapped
<1>8. CASE x < F
  <2>1. now + secondsToNextTurn(g) = F * 1 + (T * g + 1)
    BY <1>1, <1>2, <1>4, <1>7, <1>8
  <2>2. QED
    BY <1>5, <1>a, <2>1
<1>9. CASE ~(x < F)
  <2>1. now + secondsToNextTurn(g) = F * 0 + (T * g + 1)
    BY <1>1, <1>2, <1>4, <1>7, <1>9
  <2>2. QED
    BY <1>5, <1>a, <2>1
<1>10. QED
  BY <1>8, <1>9

\* A guard never wakes in the turn of another, nor in a gap, for any number of
\* guards and any lengths.
THEOREM WakesInOwnTurnAlways == ClockSpec => []WakesInOwnTurn
BY ClockStays, WakesAt, PTL

\* The reset is at the second after the up time of this turn, or of the next
\* when this one is in its gap.
LEMMA SecondsToReset ==
  ASSUME Now
  PROVE  LET p == now % TURNS_LENGTH
         IN  secondsToReset = IF p > UP_TIME_LENGTH
                              THEN UP_TIME_LENGTH - p + TURNS_LENGTH + 1
                              ELSE UP_TIME_LENGTH - p + 1
<1> DEFINE p == now % TURNS_LENGTH
           y == UP_TIME_LENGTH - p + TURNS_LENGTH
<1>1. p \in 0 .. TURNS_LENGTH - 1
  BY PointOfTurn
<1>2. secondsToReset = (y % TURNS_LENGTH) + 1
  BY DEF secondsToReset
<1> HIDE DEF p
<1>3. y \in 0 .. TURNS_LENGTH + TURNS_LENGTH - 1
  BY <1>1, Lengths
<1>4. y % TURNS_LENGTH = IF y < TURNS_LENGTH THEN y ELSE y - TURNS_LENGTH
  BY <1>3, Lengths, Wrapped
<1>5. secondsToReset = IF p > UP_TIME_LENGTH
                       THEN UP_TIME_LENGTH - p + TURNS_LENGTH + 1
                       ELSE UP_TIME_LENGTH - p + 1
  BY <1>1, <1>2, <1>4, Lengths
<1>6. QED
  BY <1>5 DEF p

LEMMA ResetsAt == Now => ResetsBeforeNextTurn
<1> SUFFICES ASSUME Now PROVE ResetsBeforeNextTurn
  OBVIOUS
<1> DEFINE T == TURNS_LENGTH
           U == UP_TIME_LENGTH
           q == now \div T
           p == now % T
<1>1. /\ T \in Nat \ {0} /\ U \in Nat /\ U + 1 < T /\ FULL_PERIOD \in Nat
      /\ q \in Guards /\ p \in 0 .. T - 1 /\ now = T * q + p
  BY Lengths, PointOfTurn
<1>2. secondsToReset = IF p > U THEN U - p + T + 1 ELSE U - p + 1
  BY SecondsToReset
<1> HIDE DEF q, p
<1>3. q \in Nat /\ U + 1 \in 0 .. T - 1 /\ T * q \in Nat
  BY <1>1 DEF Guards
<1>4. ASSUME NEW r \in 0 .. T - 1
      PROVE  guardTurnAt(T * q + r) = IF r > U THEN NoTurn ELSE q
  <2>1. guardTurnAt(At(0, q, r)) = IF r > U THEN NoTurn ELSE q
    BY <1>1, TurnOfTime
  <2>2. At(0, q, r) = T * q + r
    BY <1>1, <1>3 DEF At
  <2>3. QED
    BY <2>1, <2>2
<1>5. guardTurnAt(now + secondsToReset) = NoTurn
  <2>1. CASE ~(p > U)
    <3>1. now + secondsToReset = T * q + (U + 1)
      BY <1>1, <1>2, <1>3, <2>1
    <3>2. guardTurnAt(T * q + (U + 1)) = NoTurn
      <4>1. ~(U + 1 <= U)
        BY <1>1
      <4> DEFINE r == U + 1
      <4> HIDE DEF r
      <4>2. r \in 0 .. T - 1 /\ r > U
        BY <1>1, <1>3 DEF r
      <4>3. guardTurnAt(T * q + r) = NoTurn
        BY <1>4, <4>2
      <4>4. QED
        BY <4>3 DEF r
    <3>3. QED
      BY <3>1, <3>2
  <2>2. CASE p > U
    <3>1. now + secondsToReset = T * (q + 1) + (U + 1)
      BY <1>1, <1>2, <1>3, <2>2
    <3>2. CASE q + 1 \in Guards
      <4>1. guardTurnAt(At(0, q + 1, U + 1)) = NoTurn
        BY <1>1, <1>3, <3>2, TurnOfTime
      <4>2. At(0, q + 1, U + 1) = T * (q + 1) + (U + 1)
        BY <1>1, <1>3 DEF At
      <4>3. QED
        BY <3>1, <4>1, <4>2
    <3>3. CASE q + 1 \notin Guards
      <4>1. q + 1 = guardsLen /\ 0 \in Guards
        BY <1>1, <3>3, Lengths DEF Guards
      <4>2. guardTurnAt(At(1, 0, U + 1)) = NoTurn
        BY <1>1, <1>3, <4>1, TurnOfTime
      <4>3. T * (q + 1) = FULL_PERIOD
        BY <1>1, <4>1, Lengths DEF FULL_PERIOD
      <4>4. At(1, 0, U + 1) = T * (q + 1) + (U + 1)
        BY <1>1, <1>3, <4>3 DEF At
      <4>5. QED
        BY <3>1, <4>2, <4>4
    <3>4. QED
      BY <3>2, <3>3
  <2>3. QED
    BY <2>1, <2>2
<1>6. ASSUME guardTurn # NoTurn, NEW s \in 0 .. secondsToReset
      PROVE  guardTurnAt(now + s) \in {guardTurn, NoTurn}
  <2>1. guardTurn = IF p > U THEN NoTurn ELSE q
    BY <1>1, <1>4 DEF guardTurn
  <2>2. ~(p > U) /\ guardTurn = q
    BY <1>6, <2>1
  <2>3. p + s \in 0 .. T - 1 /\ now + s = T * q + (p + s)
    BY <1>1, <1>2, <1>3, <2>2
  <2>4. guardTurnAt(now + s) = IF p + s > U THEN NoTurn ELSE q
    BY <1>4, <2>3
  <2>5. QED
    BY <2>2, <2>4
<1>7. QED
  BY <1>5, <1>6 DEF ResetsBeforeNextTurn

\* What a turn left behind is cleared in its own gap, for any number of guards
\* and any lengths: the gap is long enough by construction.
THEOREM ResetsBeforeNextTurnAlways == ClockSpec => []ResetsBeforeNextTurn
BY ClockStays, ResetsAt, PTL

LEMMA StopsAt == Now => JobsStopInGap
<1> SUFFICES ASSUME Now, secondsToReset < UP_TIME_LENGTH
             PROVE  guardTurn # NoTurn
  BY DEF JobsStopInGap
<1> DEFINE q == now \div TURNS_LENGTH
           p == now % TURNS_LENGTH
<1>1. /\ q \in Guards /\ p \in 0 .. TURNS_LENGTH - 1
      /\ now = TURNS_LENGTH * q + p
  BY PointOfTurn
<1>2. secondsToReset = IF p > UP_TIME_LENGTH
                       THEN UP_TIME_LENGTH - p + TURNS_LENGTH + 1
                       ELSE UP_TIME_LENGTH - p + 1
  BY SecondsToReset
<1> HIDE DEF q, p
<1>3. ~(p > UP_TIME_LENGTH)
  BY <1>1, <1>2, Lengths
<1>4. guardTurnAt(At(0, q, p)) = q
  BY <1>1, <1>3, TurnOfTime
<1>5. At(0, q, p) = now /\ q # NoTurn
  BY <1>1, Lengths DEF Guards, NoTurn, At
<1>6. QED
  BY <1>4, <1>5 DEF guardTurn

\* The chain of the agreement jobs ends with the up time.
THEOREM JobsStopInGapAlways == ClockSpec => []JobsStopInGap
BY ClockStays, StopsAt, PTL

-----------------------------------------------------------------------------
(* TxAgreement: type correctness *)

USE TxAgreementAssumption

\* A guard that just started has a memory of the right type.
LEMMA EmptyMemoryTyped == EmptyMemory \in Memory
BY DEF EmptyMemory, Memory, NoTime, NoTx

\* The guards start in a state of the declared types.
LEMMA InitTyped == Init => TypeOK
BY EmptyMemoryTyped DEF Init, TypeOK, RowStatus, Time

\* What the three kinds of messages have in common.
LEMMA MessageFields ==
  ASSUME NEW m \in Message
  PROVE  /\ m.from \in Guards /\ m.tx \in Txs /\ m.ts \in Time
         /\ m.type = "response" => m.to \in Guards
         /\ m.type = "approval" => m \in Approval
BY DEF Message, Request, Response, Approval

\* What a guard may send is a message.
LEMMA SendsTyped ==
  ASSUME msgs \subseteq Message, NEW ms \in SUBSET Message, Sends(ms)
  PROVE  msgs' \subseteq Message
BY DEF Sends

\* The clearing timers keep the types.
LEMMA TimersTyped ==
  ASSUME TypeOK, NEW g \in Guards, ResetJob(g) \/ ClearTransactions(g)
  PROVE  TypeOK'
<1>1. mem[g] \in Memory
  BY DEF TypeOK
<1>2. CASE ResetJob(g)
  <2>1. mem' \in [Guards -> Memory]
    BY <1>1, <1>2, EmptyMemoryTyped DEF TypeOK, ResetJob, Memory
  <2>2. QED
    BY <1>2, <2>1 DEF TypeOK, ResetJob
<1>3. CASE ClearTransactions(g)
  <2>1. mem' \in [Guards -> Memory]
    BY <1>1, <1>3, EmptyMemoryTyped DEF TypeOK, ClearTransactions, Memory
  <2>2. QED
    BY <1>3, <2>1 DEF TypeOK, ClearTransactions
<1>4. QED
  BY <1>2, <1>3

\* confirmedEventsJob keeps the types.
LEMMA ConfirmedEventsTyped ==
  ASSUME TypeOK, NEW g \in Guards, ConfirmedEventsJob(g)
  PROVE  TypeOK'
<1>1. mem[g] \in Memory
  BY DEF TypeOK
<1> DEFINE ready == {e \in Events : ValidTxs(g, e) = {}}
<1>2. PICK failed \in SUBSET {u \in Txs : table[g][u] = "advanced"} :
        mem' = [mem EXCEPT ![g].pending = ready,
                           ![g].transactionQueue = @ \cup failed]
  BY DEF ConfirmedEventsJob
<1>r. ready \in SUBSET Events /\ failed \in SUBSET Txs
  OBVIOUS
<1> HIDE DEF ready
<1>3. mem' \in [Guards -> Memory]
  BY <1>1, <1>2, <1>r DEF TypeOK, Memory
<1>4. QED
  BY <1>3 DEF TypeOK, ConfirmedEventsJob

\* Queueing a tx and broadcasting its request keep the types.
LEMMA CreatorTyped ==
  ASSUME TypeOK, NEW g \in Guards, NEW t \in Txs,
         AddTransactionToQueue(g, t) \/ BroadcastRequest(g, t)
  PROVE  TypeOK'
<1>1. mem[g] \in Memory
  BY DEF TypeOK
<1>3. CASE AddTransactionToQueue(g, t)
  <2>1. mem' \in [Guards -> Memory]
    BY <1>1, <1>3 DEF TypeOK, AddTransactionToQueue, Memory
  <2>2. QED
    BY <1>3, <2>1 DEF TypeOK, AddTransactionToQueue, timers
<1>4. CASE BroadcastRequest(g, t)
  <2>0. {[tx |-> t, ts |-> now]} \in SUBSET Candidate
    BY DEF TypeOK, Candidate
  <2>1. mem' \in [Guards -> Memory]
    BY <1>1, <1>4, <2>0 DEF TypeOK, BroadcastRequest, Memory
  <2>2. [type |-> "request", from |-> g, tx |-> t, ts |-> now] \in Message
    BY DEF TypeOK, Message, Request
  <2>3. msgs' \subseteq Message
    BY <1>4, <2>2, SendsTyped DEF TypeOK, BroadcastRequest
  <2>4. QED
    BY <1>4, <2>1, <2>3 DEF TypeOK, BroadcastRequest, timers
<1>5. QED
  BY <1>3, <1>4

\* Starting the agreement on a tx keeps the types.
LEMMA StartTyped ==
  ASSUME TypeOK, NEW g \in Guards, NEW c \in mem[g].starting,
         StartAgreement(g, c)
  PROVE  TypeOK'
<1>1. mem[g] \in Memory /\ c \in Candidate
  BY DEF TypeOK, Memory
<1>2. {[by |-> g, ts |-> c.ts]} \in SUBSET Signature
  BY <1>1 DEF Signature, Candidate
<1>3. mem' \in [Guards -> Memory]
  BY <1>1, <1>2 DEF TypeOK, StartAgreement, Memory, Candidate
<1>4. signed' \in [Txs -> SUBSET Guards]
  BY DEF TypeOK, StartAgreement, Sign
<1>5. QED
  BY <1>3, <1>4 DEF TypeOK, StartAgreement, timers

\* Both resends only add messages.
LEMMA ResendTyped ==
  ASSUME TypeOK, NEW g \in Guards,
         ResendTransactionRequests(g) \/ ResendApprovalMessages(g)
  PROVE  TypeOK'
<1>1. mem[g] \in Memory
  BY DEF TypeOK
<1>2. CASE ResendTransactionRequests(g)
  <2> DEFINE ms == {[type |-> "request", from |-> g, tx |-> t,
                     ts |-> mem[g].transactions[t]] : t \in HeldTxs(g)}
  <2>1. ms \in SUBSET Message
    BY <1>1 DEF Memory, HeldTxs, Message, Request
  <2>2. msgs' \subseteq Message
    BY <1>2, <2>1, SendsTyped DEF TypeOK, ResendTransactionRequests
  <2>3. QED
    BY <1>2, <2>2 DEF TypeOK, ResendTransactionRequests, timers
<1>3. CASE ResendApprovalMessages(g)
  <2>1. mem[g].approvedTransactions \in SUBSET Message
    BY <1>1 DEF Memory, Message
  <2>2. msgs' \subseteq Message
    BY <1>3, <2>1, SendsTyped DEF TypeOK, ResendApprovalMessages
  <2>3. QED
    BY <1>3, <2>2 DEF TypeOK, ResendApprovalMessages, timers
<1>4. QED
  BY <1>2, <1>3

\* Starting to verify a message keeps the types.
LEMMA RequestTyped ==
  ASSUME TypeOK, NEW g \in Guards, NEW m \in Message,
         VerifyTransactionRequest(g, m)
  PROVE  TypeOK'
<1>1. mem[g] \in Memory
  BY DEF TypeOK
<1>2. mem' \in [Guards -> Memory]
  BY <1>1 DEF TypeOK, VerifyTransactionRequest, Memory
<1>3. QED
  BY <1>2 DEF TypeOK, VerifyTransactionRequest, timers

\* Agreeing or not to what was verified keeps the types.
LEMMA VerifiedTyped ==
  ASSUME TypeOK, NEW g \in Guards, NEW m \in mem[g].verifying,
         Agree(g, m) \/ Disagree(g, m)
  PROVE  TypeOK'
<1>1. mem[g] \in Memory /\ m \in Message
  BY DEF TypeOK, Memory
<1>m. m.from \in Guards /\ m.tx \in Txs /\ m.ts \in Time
  BY <1>1, MessageFields
<1>2. CASE Agree(g, m)
  <2> DEFINE agreed == [mem[g] EXCEPT
               !.verifying = mem[g].verifying \ {m},
               !.eventAgreedTransactions[EventOf[m.tx]] = m.tx]
  <2>1. agreed \in Memory
    BY <1>1, <1>m DEF Memory
  <2>2. CASE /\ m.type = "request"
             /\ mem' = [mem EXCEPT ![g] =
                          [agreed EXCEPT !.transactions[m.tx] = m.ts]]
             /\ Sends({[type |-> "response", from |-> g, to |-> m.from,
                        tx |-> m.tx, ts |-> m.ts]})
             /\ Sign(g, m.tx)
    <3> HIDE DEF agreed
    <3>1. [agreed EXCEPT !.transactions[m.tx] = m.ts] \in Memory
      BY <1>m, <2>1 DEF Memory
    <3>2. mem' \in [Guards -> Memory]
      BY <2>2, <3>1 DEF TypeOK
    <3>3. [type |-> "response", from |-> g, to |-> m.from,
           tx |-> m.tx, ts |-> m.ts] \in Message
      BY <1>m DEF Message, Response
    <3>4. msgs' \subseteq Message
      BY <2>2, <3>3, SendsTyped DEF TypeOK
    <3>5. signed' \in [Txs -> SUBSET Guards]
      BY <2>2 DEF TypeOK, Sign
    <3>6. QED
      BY <1>2, <3>2, <3>4, <3>5 DEF TypeOK, Agree, timers
  <2>3. CASE /\ m.type = "approval"
             /\ mem' = [mem EXCEPT ![g] =
                          [agreed EXCEPT !.approving = agreed.approving
                             \cup {[tx |-> m.tx, inSemaphore |-> FALSE]}]]
             /\ UNCHANGED <<msgs, signed>>
    <3> HIDE DEF agreed
    <3>0. {[tx |-> m.tx, inSemaphore |-> FALSE]}
            \in SUBSET [tx : Txs, inSemaphore : BOOLEAN]
      BY <1>m
    <3>1. [agreed EXCEPT !.approving = agreed.approving
             \cup {[tx |-> m.tx, inSemaphore |-> FALSE]}] \in Memory
      BY <2>1, <3>0 DEF Memory
    <3>2. mem' \in [Guards -> Memory]
      BY <2>3, <3>1 DEF TypeOK
    <3>3. QED
      BY <1>2, <2>3, <3>2 DEF TypeOK, Agree, timers
  <2>4. QED
    BY <1>2, <2>2, <2>3 DEF Agree
<1>3. CASE Disagree(g, m)
  <2>1. mem' \in [Guards -> Memory]
    BY <1>1, <1>3 DEF TypeOK, Disagree, Memory
  <2>2. QED
    BY <1>3, <2>1 DEF TypeOK, Disagree, timers
<1>4. QED
  BY <1>2, <1>3

\* A response only changes the approvals of its tx.
LEMMA ResponseTyped ==
  ASSUME TypeOK, NEW g \in Guards, NEW m \in Message,
         ProcessAgreementResponse(g, m)
  PROVE  TypeOK'
<1>1. mem[g] \in Memory
  BY DEF TypeOK
<1>2. m.from \in Guards /\ m.tx \in Txs /\ m.ts \in Time
  BY MessageFields
<1> DEFINE approvals == mem[g].transactionApprovals[m.tx]
           signatures == {s \in approvals : s.by # m.from}
                           \cup {[by |-> m.from, ts |-> m.ts]}
           resent == {a \in mem[g].approvedTransactions :
                        a.tx # m.tx \/ a.signatures # approvals} \cup
                     {[a EXCEPT !.signatures = signatures] :
                        a \in {b \in mem[g].approvedTransactions :
                                 b.tx = m.tx /\ b.signatures = approvals}}
           counted == {[tx |-> m.tx, ts |-> m.ts]}
<1>3. mem' = [mem EXCEPT ![g].transactionApprovals[m.tx] = signatures,
                         ![g].approvedTransactions = resent,
                         ![g].counting = @ \cup counted]
  BY DEF ProcessAgreementResponse
<1>4. approvals \in SUBSET Signature
  BY <1>1, <1>2 DEF Memory
<1>5. signatures \in SUBSET Signature
  BY <1>2, <1>4 DEF Signature
<1>6. resent \in SUBSET Approval
  <2> HIDE DEF signatures, approvals
  <2>1. \A a \in Approval : [a EXCEPT !.signatures = signatures] \in Approval
    BY <1>5 DEF Approval
  <2>2. QED
    BY <1>1, <2>1 DEF Memory
<1>7. counted \in SUBSET Candidate
  BY <1>2 DEF Candidate
<1> HIDE DEF approvals, signatures, resent, counted
<1>8. mem' \in [Guards -> Memory]
  BY <1>1, <1>2, <1>3, <1>5, <1>6, <1>7 DEF TypeOK, Memory
<1>9. QED
  BY <1>8 DEF TypeOK, ProcessAgreementResponse, timers

\* CountApprovals takes c from the waiting list and either does nothing more
\* or, with enough signatures, sends and keeps the approval.
LEMMA CountTyped ==
  ASSUME TypeOK, NEW g \in Guards, NEW c \in mem[g].counting,
         CountApprovals(g, c)
  PROVE  TypeOK'
<1>1. mem[g] \in Memory /\ c \in Candidate
  BY DEF TypeOK, Memory
<1>2. c.tx \in Txs /\ c.ts \in Time
  BY <1>1 DEF Candidate
<1> DEFINE signatures == mem[g].transactionApprovals[c.tx]
           approval == [type |-> "approval", from |-> g, tx |-> c.tx,
                        ts |-> c.ts, signatures |-> signatures]
           started == {[tx |-> c.tx, inSemaphore |-> TRUE]}
<1>3. signatures \in SUBSET Signature
  BY <1>1, <1>2 DEF Memory
<1>4. approval \in Approval
  BY <1>2, <1>3 DEF Approval
<1>5. started \in SUBSET [tx : Txs, inSemaphore : BOOLEAN]
  BY <1>2
<1>6. CASE Enough(signatures)
  <2>1. PICK resent \in {mem[g].approvedTransactions,
                         mem[g].approvedTransactions \cup {approval}} :
          mem' = [mem EXCEPT ![g].counting = @ \ {c},
                             ![g].approving = @ \cup started,
                             ![g].approvedTransactions = resent]
    BY <1>6 DEF CountApprovals
  <2>2. Sends({approval})
    BY <1>6 DEF CountApprovals
  <2> HIDE DEF signatures, approval, started
  <2>3. resent \in SUBSET Approval
    BY <1>1, <1>4, <2>1 DEF Memory
  <2>4. mem' \in [Guards -> Memory]
    BY <1>1, <1>5, <2>1, <2>3 DEF TypeOK, Memory
  <2>5. msgs' \subseteq Message
    BY <1>4, <2>2, SendsTyped DEF TypeOK, Message
  <2>6. QED
    BY <2>4, <2>5 DEF TypeOK, CountApprovals, timers
<1>7. CASE ~Enough(signatures)
  <2>1. mem' = [mem EXCEPT ![g].counting = @ \ {c}] /\ UNCHANGED msgs
    BY <1>7 DEF CountApprovals
  <2>2. mem' \in [Guards -> Memory]
    BY <1>1, <2>1 DEF TypeOK, Memory
  <2>3. QED
    BY <2>1, <2>2 DEF TypeOK, CountApprovals, timers
<1>8. QED
  BY <1>6, <1>7

\* An approval message is verified or handed to setTxAsApproved.
LEMMA ApprovalTyped ==
  ASSUME TypeOK, NEW g \in Guards, NEW m \in Message,
         ProcessApprovalMessage(g, m)
  PROVE  TypeOK'
<1>1. mem[g] \in Memory /\ m.tx \in Txs
  BY MessageFields DEF TypeOK
<1>2. CASE mem[g].transactions[m.tx] # NoTime
  <2>1. /\ mem' = [mem EXCEPT ![g].approving =
                     @ \cup {[tx |-> m.tx, inSemaphore |-> FALSE]}]
        /\ UNCHANGED <<now, table, msgs, timers, restarts, signed>>
    BY <1>2 DEF ProcessApprovalMessage
  <2>2. {[tx |-> m.tx, inSemaphore |-> FALSE]}
          \in SUBSET [tx : Txs, inSemaphore : BOOLEAN]
    BY <1>1
  <2>3. mem' \in [Guards -> Memory]
    BY <1>1, <2>1, <2>2 DEF TypeOK, Memory
  <2>4. QED
    BY <2>1, <2>3 DEF TypeOK, timers
<1>3. CASE mem[g].transactions[m.tx] = NoTime
  <2>1. VerifyTransactionRequest(g, m)
    BY <1>3 DEF ProcessApprovalMessage
  <2>2. QED
    BY <2>1, RequestTyped
<1>4. QED
  BY <1>2, <1>3

\* What insertEventTx does to the rows of a guard.
LEMMA InsertEventTxRows ==
  ASSUME NEW rows \in [Txs -> RowStatus], NEW t \in Txs
  PROVE  /\ InsertEventTx(rows, t) \in [Txs -> RowStatus]
         /\ \A u \in Txs \ {t} : InsertEventTx(rows, t)[u] # "absent"
                                 => rows[u] # "absent"
         /\ InsertEventTx(rows, t) = rows
            \/ InsertEventTx(rows, t)[t] # "absent"
<1> DEFINE valid == {u \in Txs : /\ SameEvent(t, u)
                                 /\ rows[u] \in {"approved", "advanced"}}
           inserted == [rows EXCEPT ![t] = "approved"]
           replaced == [u \in Txs |-> IF u = t THEN "approved"
                                      ELSE IF u \in valid THEN "absent" ELSE rows[u]]
<1>1. /\ inserted \in [Txs -> RowStatus]
      /\ replaced \in [Txs -> RowStatus]
  BY DEF RowStatus
<1>2. InsertEventTx(rows, t) \in {rows, inserted, replaced}
  BY DEF InsertEventTx
<1>3. \A u \in Txs \ {t} : /\ inserted[u] # "absent" => rows[u] # "absent"
                           /\ replaced[u] # "absent" => rows[u] # "absent"
  OBVIOUS
<1>4. inserted[t] # "absent" /\ replaced[t] # "absent"
  OBVIOUS
<1> HIDE DEF inserted, replaced
<1>5. QED
  BY <1>1, <1>2, <1>3, <1>4

\* The rows take one of their statuses.
LEMMA TableTyped ==
  ASSUME TypeOK, NEW g \in Guards,
         \/ \E t \in Txs : AdvanceTx(g, t) \/ GiveUpTx(g, t)
         \/ \E a \in mem[g].approving : SetTxAsApproved(g, a)
  PROVE  TypeOK'
<1>1. mem[g] \in Memory /\ table[g] \in [Txs -> RowStatus]
  BY DEF TypeOK
<1>2. ASSUME NEW t \in Txs, AdvanceTx(g, t) \/ GiveUpTx(g, t)
      PROVE  TypeOK'
  BY <1>2 DEF TypeOK, AdvanceTx, GiveUpTx, timers, RowStatus
<1>3. ASSUME NEW a \in mem[g].approving, SetTxAsApproved(g, a)
      PROVE  TypeOK'
  <2>1. a.tx \in Txs
    BY <1>1, <1>3 DEF Memory
  <2>2. table' \in [Guards -> [Txs -> RowStatus]]
    BY <1>1, <1>3, <2>1, InsertEventTxRows DEF TypeOK, SetTxAsApproved
  <2>3. Forget(mem[g], a) \in Memory
    BY <1>1, <2>1 DEF Memory, Forget
  <2>4. mem' \in [Guards -> Memory]
    BY <1>3, <2>3 DEF TypeOK, SetTxAsApproved
  <2>5. QED
    BY <1>3, <2>2, <2>4 DEF TypeOK, SetTxAsApproved, timers
<1>4. QED
  BY <1>2, <1>3

\* The type invariant of the agreement protocol: no handler, however late,
\* puts into the memory of a guard or on the network what does not belong.
THEOREM AgreementTypeCorrect == Spec => []TypeOK
<1>1. ASSUME TypeOK, [Next]_vars
      PROVE  TypeOK'
  <2>1. CASE UNCHANGED vars
    BY <1>1, <2>1 DEF TypeOK, vars, timers
  <2>2. CASE Tick
    <3>1. now' \in Time /\ msgs' \subseteq Message
      BY <1>1, <2>2 DEF TypeOK, Tick, Time
    <3>2. ran' \subseteq Guards /\ running' \subseteq Guards
          /\ due' \subseteq Guards /\ clearDue' \subseteq Guards
      BY <1>1, <2>2 DEF TypeOK, Tick, timers
    <3>3. QED
      BY <1>1, <2>2, <3>1, <3>2 DEF TypeOK, Tick
  <2>3. ASSUME NEW g \in Guards, Restart(g)
        PROVE  TypeOK'
    <3>1. mem' \in [Guards -> Memory]
      BY <1>1, <2>3, EmptyMemoryTyped DEF TypeOK, Restart
    <3>2. restarts' \in 0 .. MaxRestarts
      BY <1>1, <2>3 DEF TypeOK, Restart
    <3>3. QED
      BY <1>1, <2>3, <3>1, <3>2 DEF TypeOK, Restart
  <2>4. ASSUME NEW g \in Guards, NEW m \in msgs,
               \/ ProcessTransactionRequest(g, m)
               \/ ProcessAgreementResponse(g, m)
               \/ ProcessApprovalMessage(g, m)
        PROVE  TypeOK'
    <3>1. m \in Message
      BY <1>1 DEF TypeOK
    <3>2. QED
      BY <1>1, <2>4, <3>1, RequestTyped, ResponseTyped, ApprovalTyped
      DEF ProcessTransactionRequest
  <2>5. ASSUME NEW g \in Guards,
               \/ ResetJob(g) \/ ClearTransactions(g) \/ ConfirmedEventsJob(g)
               \/ ResendTransactionRequests(g) \/ ResendApprovalMessages(g)
        PROVE  TypeOK'
    BY <1>1, <2>5, TimersTyped, ConfirmedEventsTyped, ResendTyped
  <2>6. ASSUME NEW g \in Guards, NEW t \in Txs,
               \/ AddTransactionToQueue(g, t) \/ BroadcastRequest(g, t)
               \/ AdvanceTx(g, t) \/ GiveUpTx(g, t)
        PROVE  TypeOK'
    BY <1>1, <2>6, CreatorTyped, TableTyped
  <2>7. ASSUME NEW g \in Guards,
               \/ \E c \in mem[g].starting : StartAgreement(g, c)
               \/ \E c \in mem[g].counting : CountApprovals(g, c)
               \/ \E a \in mem[g].approving : SetTxAsApproved(g, a)
               \/ \E m \in mem[g].verifying : Agree(g, m) \/ Disagree(g, m)
        PROVE  TypeOK'
    BY <1>1, <2>7, StartTyped, CountTyped, TableTyped, VerifiedTyped
  <2>8. QED
    BY <1>1, <2>1, <2>2, <2>3, <2>4, <2>5, <2>6, <2>7 DEF Next
<1>2. QED
  BY <1>1, InitTyped, PTL DEF Spec

-----------------------------------------------------------------------------
(* QuorumInv: a quorum, once there, stays, so a step only has to account   *)
(* for what it adds to the messages, the memories and the tables.          *)

\* The signers of a tx are finitely many, so they can be counted.
LEMMA SignedFinite ==
  ASSUME TypeOK, NEW t \in Txs
  PROVE  IsFiniteSet(signed[t]) /\ Cardinality(signed[t]) \in Nat
<1>1. IsFiniteSet(Guards)
  BY FS_Interval DEF Guards
<1>2. signed[t] \in SUBSET Guards
  BY DEF TypeOK
<1>3. IsFiniteSet(signed[t])
  BY <1>1, <1>2, FS_Subset
<1>4. QED
  BY <1>3, FS_CardinalityType

\* Enough signatures, one of each guard, are the signatures of a quorum.
LEMMA EnoughIsQuorum ==
  ASSUME TypeOK, NEW t \in Txs, NEW S, Signed(t, S), Enough(S)
  PROVE  HasQuorum(t)
<1> DEFINE f == [s \in S |-> s.by]
<1>1. f \in Injection(S, signed[t])
  BY DEF Signed, Injection, IsInjective
<1>2. Cardinality(S) <= Cardinality(signed[t]) /\ IsFiniteSet(S)
  BY <1>1, SignedFinite, FS_Injection
<1>3. Cardinality(S) \in Nat
  BY <1>2, FS_CardinalityType
<1>4. QED
  BY <1>2, <1>3, SignedFinite DEF Enough, HasQuorum

\* A step signs a tx, or changes the table of a guard, or does neither.
LEMMA StepKinds ==
  ASSUME TypeOK, [Next]_vars
  PROVE  \/ UNCHANGED <<signed, table>>
         \/ \E g \in Guards, t \in Txs : Sign(g, t) /\ UNCHANGED table
         \/ \E g \in Guards, t \in Txs : AdvanceTx(g, t) \/ GiveUpTx(g, t)
         \/ \E g \in Guards : \E a \in mem[g].approving : SetTxAsApproved(g, a)
<1> DEFINE Neither == UNCHANGED <<signed, table>>
           Signs == \E g \in Guards, t \in Txs : Sign(g, t) /\ UNCHANGED table
<1>1. CASE Tick \/ UNCHANGED vars
  BY <1>1 DEF Tick, vars
<1>2. ASSUME NEW g \in Guards
      PROVE  (\/ ResetJob(g) \/ ClearTransactions(g) \/ ConfirmedEventsJob(g)
              \/ ResendTransactionRequests(g) \/ ResendApprovalMessages(g)
              \/ Restart(g)) => Neither
  BY DEF ResetJob, ClearTransactions, ConfirmedEventsJob, Restart,
         ResendTransactionRequests, ResendApprovalMessages
<1>3. ASSUME NEW g \in Guards, NEW x
      PROVE  /\ AddTransactionToQueue(g, x) \/ BroadcastRequest(g, x) => Neither
             /\ CountApprovals(g, x) => Neither
  BY DEF AddTransactionToQueue, BroadcastRequest, CountApprovals
<1>4. ASSUME NEW g \in Guards, NEW m
      PROVE  /\ Disagree(g, m) \/ ProcessTransactionRequest(g, m)
                \/ ProcessAgreementResponse(g, m) => Neither
             /\ ProcessApprovalMessage(g, m) => Neither
  <2>1. VerifyTransactionRequest(g, m) => Neither
    BY DEF VerifyTransactionRequest
  <2>2. QED
    BY <2>1 DEF Disagree, ProcessTransactionRequest, ProcessAgreementResponse,
                ProcessApprovalMessage
<1>5. ASSUME NEW g \in Guards, NEW c \in mem[g].starting, StartAgreement(g, c)
      PROVE  Signs
  <2>1. c.tx \in Txs
    BY DEF TypeOK, Memory, Candidate
  <2>2. QED
    BY <1>5, <2>1 DEF StartAgreement
<1>6. ASSUME NEW g \in Guards, NEW m \in mem[g].verifying, Agree(g, m)
      PROVE  Signs \/ Neither
  <2>1. m.tx \in Txs
    BY MessageFields DEF TypeOK, Memory
  <2>2. QED
    BY <1>6, <2>1 DEF Agree
<1>7. QED
  BY <1>1, <1>2, <1>3, <1>4, <1>5, <1>6 DEF Next

\* No step forgets that a guard signed a tx.
LEMMA SignedGrows ==
  ASSUME TypeOK, [Next]_vars
  PROVE  \A t \in Txs : signed[t] \subseteq signed'[t]
BY StepKinds DEF Sign, TypeOK, AdvanceTx, GiveUpTx, SetTxAsApproved

\* A tx that enough guards signed keeps enough signers.
LEMMA QuorumStays ==
  ASSUME TypeOK, TypeOK', NEW t \in Txs, signed[t] \subseteq signed'[t]
  PROVE  HasQuorum(t) => HasQuorum(t)'
<1>1. IsFiniteSet(signed'[t]) /\ Cardinality(signed'[t]) \in Nat
  <2>1. IsFiniteSet(Guards)
    BY FS_Interval DEF Guards
  <2>2. signed'[t] \in SUBSET Guards
    BY DEF TypeOK
  <2>3. QED
    BY <2>1, <2>2, FS_Subset, FS_CardinalityType
<1>2. Cardinality(signed[t]) <= Cardinality(signed'[t])
  BY <1>1, FS_Subset
<1>3. QED
  BY <1>1, <1>2, SignedFinite DEF HasQuorum

\* What a step leaves or adds, in the messages, a memory and the tables.
MessagesCarry == \A m \in msgs' : m \in msgs \/ MessageBacked(m)'

MemoryCarries(g) ==
  /\ \A t \in Txs :
       \/ mem'[g].transactionApprovals[t] \in {{}, mem[g].transactionApprovals[t]}
       \/ Signed(t, mem[g].transactionApprovals[t])'
  /\ \A m \in mem'[g].approvedTransactions :
       m \in mem[g].approvedTransactions \/ HasQuorum(m.tx)'
  /\ \A m \in mem'[g].verifying : m \in mem[g].verifying \/ MessageBacked(m)'
  /\ \A a \in mem'[g].approving : a \in mem[g].approving \/ HasQuorum(a.tx)'

RowsCarry ==
  \A g \in Guards, t \in Txs :
    table'[g][t] # "absent" => table[g][t] # "absent" \/ HasQuorum(t)'

\* The three parts of Carries are what QuorumInv needs of a step.
LEMMA QuorumCarried ==
  ASSUME TypeOK, TypeOK', QuorumInv,
         \A t \in Txs : signed[t] \subseteq signed'[t],
         MessagesCarry, \A g \in Guards : MemoryCarries(g), RowsCarry
  PROVE  QuorumInv'
<1>1. \A t \in Txs : HasQuorum(t) => HasQuorum(t)'
  BY QuorumStays
<1>2. ASSUME NEW m \in Message, MessageBacked(m)
      PROVE  MessageBacked(m)'
  BY <1>1, <1>2, MessageFields DEF MessageBacked
<1>3. \A m \in msgs' : MessageBacked(m)'
  BY <1>2 DEF QuorumInv, MessagesCarry, TypeOK
<1>4. ASSUME NEW g \in Guards
      PROVE  MemoryBacked(g)'
  <2>1. /\ mem[g].approvedTransactions \subseteq Approval
        /\ mem[g].verifying \subseteq Message
        /\ \A a \in mem[g].approving : a.tx \in Txs
    BY DEF TypeOK, Memory
  <2>2. \A t \in Txs : Signed(t, mem[g].transactionApprovals[t])'
    <3>1. ASSUME NEW t \in Txs
          PROVE  Signed(t, mem[g].transactionApprovals[t])'
      BY DEF MemoryCarries, QuorumInv, MemoryBacked, Signed
    <3>2. QED
      BY <3>1
  <2>3. \A m \in mem'[g].approvedTransactions : HasQuorum(m.tx)'
    BY <1>1, <2>1 DEF MemoryCarries, QuorumInv, MemoryBacked, Approval
  <2>4. \A m \in mem'[g].verifying : MessageBacked(m)'
    BY <1>2, <2>1 DEF MemoryCarries, QuorumInv, MemoryBacked
  <2>5. \A a \in mem'[g].approving : HasQuorum(a.tx)'
    BY <1>1, <2>1 DEF MemoryCarries, QuorumInv, MemoryBacked
  <2>6. QED
    BY <2>2, <2>3, <2>4, <2>5 DEF MemoryBacked
<1>5. QED
  BY <1>1, <1>3, <1>4 DEF QuorumInv, RowsCarry

Carries == MessagesCarry /\ (\A g \in Guards : MemoryCarries(g)) /\ RowsCarry

\* A memory that loses signatures and txs, or keeps them, carries.
LEMMA SmallerMemory ==
  ASSUME NEW h,
         \A t \in Txs : mem'[h].transactionApprovals[t]
                          \in {{}, mem[h].transactionApprovals[t]},
         mem'[h].approvedTransactions \subseteq mem[h].approvedTransactions,
         mem'[h].verifying \subseteq mem[h].verifying,
         mem'[h].approving \subseteq mem[h].approving
  PROVE  MemoryCarries(h)
BY DEF MemoryCarries

\* A guard whose memory did not change backs what it backed.
LEMMA UntouchedMemory ==
  ASSUME NEW h, mem'[h] = mem[h]
  PROVE  MemoryCarries(h)
BY SmallerMemory

\* Timers and restarts only forget.
LEMMA TimersCarry ==
  ASSUME TypeOK, NEW g \in Guards,
         ResetJob(g) \/ ClearTransactions(g) \/ ConfirmedEventsJob(g) \/ Restart(g)
  PROVE  Carries
<1>1. MessagesCarry /\ RowsCarry
  BY DEF MessagesCarry, RowsCarry, ResetJob, ClearTransactions,
         ConfirmedEventsJob, Restart
<1>2. ASSUME NEW h \in Guards
      PROVE  MemoryCarries(h)
  <2>1. CASE h # g
    BY <2>1, UntouchedMemory DEF TypeOK, ResetJob, ClearTransactions,
       ConfirmedEventsJob, Restart
  <2>2. CASE h = g
    <3>1. mem[g] \in Memory
      BY DEF TypeOK
    <3>2. CASE ResetJob(g)
      BY <2>2, <3>1, <3>2, SmallerMemory DEF TypeOK, Memory, ResetJob
    <3>3. CASE ClearTransactions(g)
      BY <2>2, <3>1, <3>3, SmallerMemory
      DEF TypeOK, Memory, ClearTransactions, EmptyMemory
    <3>4. CASE ConfirmedEventsJob(g)
      <4>1. PICK failed \in SUBSET Txs :
              mem' = [mem EXCEPT
                ![g].pending = {e \in Events : ValidTxs(g, e) = {}},
                ![g].transactionQueue = @ \cup failed]
        BY <3>4 DEF ConfirmedEventsJob
      <4>2. QED
        BY <2>2, <3>1, <4>1, SmallerMemory DEF TypeOK, Memory
    <3>5. CASE Restart(g)
      BY <2>2, <3>1, <3>5, SmallerMemory DEF TypeOK, Memory, Restart, EmptyMemory
    <3>6. QED
      BY <3>2, <3>3, <3>4, <3>5
  <2>3. QED
    BY <2>1, <2>2
<1>3. QED
  BY <1>1, <1>2 DEF Carries

\* A resent request claims no signature.
LEMMA RequestsCarry ==
  ASSUME TypeOK, NEW g \in Guards, ResendTransactionRequests(g)
  PROVE  Carries
<1> DEFINE ms == {[type |-> "request", from |-> g, tx |-> t,
                   ts |-> mem[g].transactions[t]] : t \in HeldTxs(g)}
<1>1. \A m \in ms : MessageBacked(m)'
  BY DEF MessageBacked
<1>2. Sends(ms)
  BY DEF ResendTransactionRequests
<1> HIDE DEF ms
<1>3. MessagesCarry
  BY <1>1, <1>2 DEF MessagesCarry, Sends
<1>4. RowsCarry /\ \A h \in Guards : MemoryCarries(h)
  BY UntouchedMemory DEF RowsCarry, ResendTransactionRequests
<1>5. QED
  BY <1>3, <1>4 DEF Carries

\* A queued tx and its first request claim no signature.
LEMMA QueueCarries ==
  ASSUME TypeOK, NEW g \in Guards, NEW t \in Txs,
         AddTransactionToQueue(g, t) \/ BroadcastRequest(g, t)
  PROVE  Carries
<1> DEFINE request == [type |-> "request", from |-> g, tx |-> t, ts |-> now]
<1>1. MessageBacked(request)'
  BY DEF MessageBacked
<1> HIDE DEF request
<1>2. MessagesCarry
  BY <1>1 DEF MessagesCarry, Sends, AddTransactionToQueue, BroadcastRequest,
              request
<1>3. RowsCarry
  BY DEF RowsCarry, AddTransactionToQueue, BroadcastRequest
<1>4. ASSUME NEW h \in Guards
      PROVE  MemoryCarries(h)
  <2>1. CASE h # g
    BY <2>1, UntouchedMemory DEF TypeOK, AddTransactionToQueue, BroadcastRequest
  <2>2. CASE h = g
    <3>1. mem[g] \in Memory
      BY DEF TypeOK
    <3>2. CASE AddTransactionToQueue(g, t)
      BY <2>2, <3>1, <3>2, SmallerMemory DEF TypeOK, Memory, AddTransactionToQueue
    <3>3. CASE BroadcastRequest(g, t)
      BY <2>2, <3>1, <3>3, SmallerMemory DEF TypeOK, Memory, BroadcastRequest
    <3>4. QED
      BY <3>2, <3>3
  <2>3. QED
    BY <2>1, <2>2
<1>5. QED
  BY <1>2, <1>3, <1>4 DEF Carries

\* The approvals of a tx start with its creator, who signs it.
LEMMA StartCarries ==
  ASSUME TypeOK, NEW g \in Guards, NEW c \in mem[g].starting,
         StartAgreement(g, c)
  PROVE  Carries
<1>1. mem[g] \in Memory /\ c.tx \in Txs
  BY DEF TypeOK, Memory, Candidate
<1>2. MessagesCarry /\ RowsCarry
  BY DEF MessagesCarry, RowsCarry, StartAgreement
<1>3. Signed(c.tx, {[by |-> g, ts |-> c.ts]})'
  BY <1>1 DEF Signed, StartAgreement, Sign, TypeOK
<1>4. ASSUME NEW h \in Guards
      PROVE  MemoryCarries(h)
  <2>1. CASE h # g
    BY <2>1, UntouchedMemory DEF TypeOK, StartAgreement
  <2>2. CASE h = g
    <3>1. /\ mem'[g].approvedTransactions = mem[g].approvedTransactions
          /\ mem'[g].verifying = mem[g].verifying
          /\ mem'[g].approving = mem[g].approving
          /\ mem'[g].transactionApprovals =
               [mem[g].transactionApprovals EXCEPT
                  ![c.tx] = {[by |-> g, ts |-> c.ts]}]
      BY <1>1 DEF TypeOK, Memory, StartAgreement
    <3>2. \A t \in Txs :
            \/ mem'[g].transactionApprovals[t] = mem[g].transactionApprovals[t]
            \/ /\ t = c.tx
               /\ mem'[g].transactionApprovals[t] = {[by |-> g, ts |-> c.ts]}
      BY <1>1, <3>1 DEF Memory
    <3>3. QED
      BY <1>3, <2>2, <3>1, <3>2 DEF MemoryCarries, Signed
  <2>3. QED
    BY <2>1, <2>2
<1>5. QED
  BY <1>2, <1>4 DEF Carries

\* A message that is verified is as backed as it arrived.
LEMMA VerifyCarries ==
  ASSUME TypeOK, NEW g \in Guards, NEW m, MessageBacked(m),
         VerifyTransactionRequest(g, m)
  PROVE  Carries
<1>1. MessagesCarry /\ RowsCarry
  BY DEF MessagesCarry, RowsCarry, VerifyTransactionRequest
<1>2. MessageBacked(m)'
  BY DEF MessageBacked, HasQuorum, VerifyTransactionRequest
<1>3. ASSUME NEW h \in Guards
      PROVE  MemoryCarries(h)
  <2>1. CASE h # g
    BY <2>1, UntouchedMemory DEF TypeOK, VerifyTransactionRequest
  <2>2. CASE h = g
    <3>1. mem[g] \in Memory
      BY DEF TypeOK
    <3>2. mem'[g] = [mem[g] EXCEPT !.verifying = mem[g].verifying \cup {m}]
      BY <3>1 DEF TypeOK, VerifyTransactionRequest
    <3>3. QED
      BY <1>2, <2>2, <3>1, <3>2 DEF MemoryCarries, Memory
  <2>3. QED
    BY <2>1, <2>2
<1>4. QED
  BY <1>1, <1>3 DEF Carries

\* A response is only sent by a guard that signs in the same step.
LEMMA VerifiedCarries ==
  ASSUME TypeOK, QuorumInv, NEW g \in Guards, NEW m \in mem[g].verifying,
         Agree(g, m) \/ Disagree(g, m)
  PROVE  Carries
<1>1. mem[g] \in Memory /\ m \in Message /\ MessageBacked(m)
  BY DEF TypeOK, Memory, QuorumInv, MemoryBacked
<1>2. m.tx \in Txs /\ RowsCarry
  BY <1>1, MessageFields DEF RowsCarry, Agree, Disagree
<1>3. ASSUME NEW h \in Guards, h # g
      PROVE  MemoryCarries(h)
  BY <1>3, UntouchedMemory DEF TypeOK, Agree, Disagree
<1> DEFINE agreed == [mem[g] EXCEPT
             !.verifying = mem[g].verifying \ {m},
             !.eventAgreedTransactions[EventOf[m.tx]] = m.tx]
<1>4. /\ agreed.transactionApprovals = mem[g].transactionApprovals
      /\ agreed.approvedTransactions = mem[g].approvedTransactions
      /\ agreed.verifying = mem[g].verifying \ {m}
      /\ agreed.approving = mem[g].approving
      /\ agreed \in Memory
  BY <1>1, <1>2 DEF Memory
<1>5. CASE Disagree(g, m)
  <2>1. mem'[g] = [mem[g] EXCEPT !.verifying = mem[g].verifying \ {m}]
    BY <1>5 DEF TypeOK, Disagree
  <2>2. MemoryCarries(g)
    BY <1>1, <2>1, SmallerMemory DEF Memory
  <2>3. QED
    BY <1>2, <1>3, <1>5, <2>2 DEF Carries, MessagesCarry, Disagree
<1>6. CASE /\ mem' = [mem EXCEPT ![g] =
                         [agreed EXCEPT !.transactions[m.tx] = m.ts]]
           /\ Sends({[type |-> "response", from |-> g, to |-> m.from,
                      tx |-> m.tx, ts |-> m.ts]})
           /\ Sign(g, m.tx)
  <2> DEFINE response == [type |-> "response", from |-> g, to |-> m.from,
                          tx |-> m.tx, ts |-> m.ts]
  <2> HIDE DEF agreed
  <2>1. g \in signed'[m.tx]
    BY <1>2, <1>6 DEF Sign, TypeOK
  <2>2. MessageBacked(response)'
    BY <2>1 DEF MessageBacked
  <2>3. Sends({response})
    BY <1>6
  <2> HIDE DEF response
  <2>4. MessagesCarry
    BY <2>2, <2>3 DEF MessagesCarry, Sends
  <2>5. mem'[g] = [agreed EXCEPT !.transactions[m.tx] = m.ts]
    BY <1>6 DEF TypeOK
  <2>6. MemoryCarries(g)
    BY <1>4, <2>5, SmallerMemory DEF Memory
  <2>7. QED
    BY <1>2, <1>3, <2>4, <2>6 DEF Carries
<1>7. CASE /\ m.type = "approval"
           /\ mem' = [mem EXCEPT ![g] =
                        [agreed EXCEPT !.approving = agreed.approving
                           \cup {[tx |-> m.tx, inSemaphore |-> FALSE]}]]
           /\ UNCHANGED <<msgs, signed>>
  <2> HIDE DEF agreed
  <2>1. HasQuorum(m.tx)'
    BY <1>1, <1>7 DEF MessageBacked, HasQuorum
  <2>2. mem'[g] = [agreed EXCEPT !.approving = agreed.approving
                     \cup {[tx |-> m.tx, inSemaphore |-> FALSE]}]
    BY <1>7 DEF TypeOK
  <2>3. MemoryCarries(g)
    BY <1>4, <2>1, <2>2 DEF Memory, MemoryCarries, HasQuorum
  <2>4. QED
    BY <1>2, <1>3, <1>7, <2>3 DEF Carries, MessagesCarry
<1>8. QED
  BY <1>5, <1>6, <1>7 DEF Agree

\* The signature of a response joins the approvals of its tx, one per guard.
LEMMA ResponseCarries ==
  ASSUME TypeOK, QuorumInv, NEW g \in Guards, NEW m \in msgs,
         ProcessAgreementResponse(g, m)
  PROVE  Carries
<1>1. mem[g] \in Memory /\ m \in Message /\ m.from \in signed[m.tx]
  BY DEF TypeOK, QuorumInv, MessageBacked, ProcessAgreementResponse
<1>2. m.tx \in Txs /\ RowsCarry /\ MessagesCarry /\ signed' = signed
  BY <1>1, MessageFields DEF RowsCarry, MessagesCarry, ProcessAgreementResponse
<1>3. ASSUME NEW h \in Guards, h # g
      PROVE  MemoryCarries(h)
  BY <1>3, UntouchedMemory DEF TypeOK, ProcessAgreementResponse
<1> DEFINE approvals == mem[g].transactionApprovals[m.tx]
           signatures == {s \in approvals : s.by # m.from}
                           \cup {[by |-> m.from, ts |-> m.ts]}
           resent == {a \in mem[g].approvedTransactions :
                        a.tx # m.tx \/ a.signatures # approvals} \cup
                     {[a EXCEPT !.signatures = signatures] :
                        a \in {b \in mem[g].approvedTransactions :
                                 b.tx = m.tx /\ b.signatures = approvals}}
           counted == {[tx |-> m.tx, ts |-> m.ts]}
<1>4. mem' = [mem EXCEPT ![g].transactionApprovals[m.tx] = signatures,
                         ![g].approvedTransactions = resent,
                         ![g].counting = @ \cup counted]
  BY DEF ProcessAgreementResponse
<1>5. /\ \A s \in signatures : s.by \in signed'[m.tx]
      /\ \A r, s \in signatures : r.by = s.by => r = s
  <2>1. Signed(m.tx, approvals)
    BY <1>2 DEF QuorumInv, MemoryBacked
  <2>2. QED
    BY <1>1, <1>2, <2>1 DEF Signed
<1>6. \A a \in resent : HasQuorum(a.tx)'
  <2>1. \A a \in mem[g].approvedTransactions : HasQuorum(a.tx)' /\ a \in Approval
    BY <1>1, <1>2 DEF QuorumInv, MemoryBacked, HasQuorum, Memory
  <2>2. \A a \in mem[g].approvedTransactions :
          [a EXCEPT !.signatures = signatures].tx = a.tx
    BY <2>1 DEF Approval
  <2> HIDE DEF signatures, approvals
  <2>3. QED
    BY <2>1, <2>2
<1> HIDE DEF approvals, signatures, resent, counted
<1>7. MemoryCarries(g)
  <2>1. /\ mem'[g].transactionApprovals =
             [mem[g].transactionApprovals EXCEPT ![m.tx] = signatures]
        /\ mem'[g].approvedTransactions = resent
        /\ mem'[g].verifying = mem[g].verifying
        /\ mem'[g].approving = mem[g].approving
    BY <1>1, <1>4 DEF TypeOK, Memory
  <2>2. \A t \in Txs :
          \/ mem'[g].transactionApprovals[t] = mem[g].transactionApprovals[t]
          \/ t = m.tx /\ mem'[g].transactionApprovals[t] = signatures
    BY <1>1, <1>2, <2>1 DEF Memory
  <2>3. QED
    BY <1>5, <1>6, <2>1, <2>2 DEF MemoryCarries, Signed
<1>8. QED
  BY <1>2, <1>3, <1>7 DEF Carries

\* An approval is only sent when the signatures that were counted are enough.
LEMMA CountCarries ==
  ASSUME TypeOK, QuorumInv, NEW g \in Guards, NEW c \in mem[g].counting,
         CountApprovals(g, c)
  PROVE  Carries
<1>1. mem[g] \in Memory /\ c.tx \in Txs
  BY DEF TypeOK, Memory, Candidate
<1>2. RowsCarry /\ signed' = signed
  BY DEF RowsCarry, CountApprovals
<1>3. ASSUME NEW h \in Guards, h # g
      PROVE  MemoryCarries(h)
  BY <1>3, UntouchedMemory DEF TypeOK, CountApprovals
<1> DEFINE signatures == mem[g].transactionApprovals[c.tx]
           approval == [type |-> "approval", from |-> g, tx |-> c.tx,
                        ts |-> c.ts, signatures |-> signatures]
<1>4. CASE Enough(signatures)
  <2>1. HasQuorum(c.tx)
    BY <1>1, <1>4, EnoughIsQuorum DEF QuorumInv, MemoryBacked
  <2>2. PICK sent : sent = approval
    OBVIOUS
  <2>3. sent.tx = c.tx /\ sent.type = "approval"
    BY <2>2
  <2>4. Sends({sent})
    BY <1>4, <2>2 DEF CountApprovals
  <2>5. PICK resent \in {mem[g].approvedTransactions,
                         mem[g].approvedTransactions \cup {sent}} :
          mem' = [mem EXCEPT
            ![g].counting = @ \ {c},
            ![g].approving = @ \cup {[tx |-> c.tx, inSemaphore |-> TRUE]},
            ![g].approvedTransactions = resent]
    BY <1>4, <2>2 DEF CountApprovals
  <2> HIDE DEF signatures, approval
  <2>6. MessagesCarry
    BY <1>2, <2>1, <2>3, <2>4 DEF MessagesCarry, MessageBacked, HasQuorum, Sends
  <2>7. /\ mem'[g].transactionApprovals = mem[g].transactionApprovals
        /\ mem'[g].approvedTransactions = resent
        /\ mem'[g].verifying = mem[g].verifying
        /\ mem'[g].approving =
             mem[g].approving \cup {[tx |-> c.tx, inSemaphore |-> TRUE]}
    BY <1>1, <2>5 DEF TypeOK, Memory
  <2>8. MemoryCarries(g)
    <3>1. HasQuorum(c.tx)'
      BY <1>2, <2>1 DEF HasQuorum
    <3>2. /\ \A m \in resent : m \in mem[g].approvedTransactions \/ m.tx = c.tx
          /\ \A a \in mem'[g].approving : a \in mem[g].approving \/ a.tx = c.tx
      BY <2>3, <2>7
    <3>3. \A t : t = c.tx => HasQuorum(t)'
      BY <3>1
    <3>4. \A m \in mem'[g].approvedTransactions :
            m \in mem[g].approvedTransactions \/ HasQuorum(m.tx)'
      BY <2>7, <3>2, <3>3
    <3>5. \A a \in mem'[g].approving :
            a \in mem[g].approving \/ HasQuorum(a.tx)'
      BY <3>2, <3>3
    <3>6. QED
      BY <2>7, <3>4, <3>5 DEF MemoryCarries
  <2>9. QED
    BY <1>2, <1>3, <2>6, <2>8 DEF Carries
<1>5. CASE ~Enough(signatures)
  <2>1. mem' = [mem EXCEPT ![g].counting = @ \ {c}] /\ UNCHANGED msgs
    BY <1>5 DEF CountApprovals
  <2>2. MemoryCarries(g)
    BY <1>1, <2>1, SmallerMemory DEF TypeOK, Memory
  <2>3. QED
    BY <1>2, <1>3, <2>1, <2>2 DEF Carries, MessagesCarry
<1>6. QED
  BY <1>4, <1>5

\* An approval that was received has a quorum behind it.
LEMMA ApprovalCarries ==
  ASSUME TypeOK, QuorumInv, NEW g \in Guards, NEW m \in msgs,
         ProcessApprovalMessage(g, m)
  PROVE  Carries
<1>1. mem[g] \in Memory /\ MessageBacked(m) /\ HasQuorum(m.tx)
  BY DEF TypeOK, QuorumInv, MessageBacked, ProcessApprovalMessage
<1>2. CASE mem[g].transactions[m.tx] # NoTime
  <2>1. /\ mem' = [mem EXCEPT ![g].approving =
                     @ \cup {[tx |-> m.tx, inSemaphore |-> FALSE]}]
        /\ UNCHANGED <<now, table, msgs, timers, restarts, signed>>
    BY <1>2 DEF ProcessApprovalMessage
  <2>2. MessagesCarry /\ RowsCarry
    BY <2>1 DEF MessagesCarry, RowsCarry
  <2>3. ASSUME NEW h \in Guards
        PROVE  MemoryCarries(h)
    <3>1. CASE h # g
      BY <2>1, <3>1, UntouchedMemory DEF TypeOK
    <3>2. CASE h = g
      <4>1. mem'[g] = [mem[g] EXCEPT !.approving = mem[g].approving
                         \cup {[tx |-> m.tx, inSemaphore |-> FALSE]}]
        BY <1>1, <2>1 DEF TypeOK
      <4>2. QED
        BY <1>1, <2>1, <3>2, <4>1 DEF Memory, MemoryCarries, HasQuorum
    <3>3. QED
      BY <3>1, <3>2
  <2>4. QED
    BY <2>2, <2>3 DEF Carries
<1>3. CASE mem[g].transactions[m.tx] = NoTime
  BY <1>1, <1>3, VerifyCarries DEF ProcessApprovalMessage
<1>4. QED
  BY <1>2, <1>3

\* A row is only made of a tx with a quorum behind it.
LEMMA TableCarries ==
  ASSUME TypeOK, QuorumInv, NEW g \in Guards,
         \/ \E t \in Txs : AdvanceTx(g, t) \/ GiveUpTx(g, t)
         \/ \E a \in mem[g].approving : SetTxAsApproved(g, a)
  PROVE  Carries
<1>1. mem[g] \in Memory /\ table[g] \in [Txs -> RowStatus]
  BY DEF TypeOK
<1>2. ASSUME NEW t \in Txs, AdvanceTx(g, t) \/ GiveUpTx(g, t)
      PROVE  Carries
  <2>1. RowsCarry
    BY <1>2 DEF RowsCarry, TypeOK, AdvanceTx, GiveUpTx
  <2>2. MessagesCarry /\ \A h \in Guards : MemoryCarries(h)
    BY <1>2, UntouchedMemory DEF MessagesCarry, AdvanceTx, GiveUpTx
  <2>3. QED
    BY <2>1, <2>2 DEF Carries
<1>3. ASSUME NEW a \in mem[g].approving, SetTxAsApproved(g, a)
      PROVE  Carries
  <2>1. a.tx \in Txs /\ HasQuorum(a.tx)'
    BY <1>1, <1>3 DEF Memory, QuorumInv, MemoryBacked, HasQuorum, SetTxAsApproved
  <2>2. RowsCarry
    BY <1>1, <1>3, <2>1, InsertEventTxRows
    DEF RowsCarry, TypeOK, SetTxAsApproved, HasQuorum
  <2>3. ASSUME NEW h \in Guards
        PROVE  MemoryCarries(h)
    <3>1. CASE h # g
      BY <1>3, <3>1, UntouchedMemory DEF TypeOK, SetTxAsApproved
    <3>2. CASE h = g
      <4>1. mem'[g] = Forget(mem[g], a)
        BY <1>3 DEF TypeOK, SetTxAsApproved
      <4>2. /\ mem'[g].approvedTransactions = mem[g].approvedTransactions
            /\ mem'[g].verifying = mem[g].verifying
            /\ mem'[g].approving = mem[g].approving \ {a}
            /\ mem'[g].transactionApprovals =
                 [mem[g].transactionApprovals EXCEPT ![a.tx] = {}]
        BY <1>1, <4>1 DEF Forget, Memory
      <4>3. \A t \in Txs : mem'[g].transactionApprovals[t]
                            \in {{}, mem[g].transactionApprovals[t]}
        BY <1>1, <4>2 DEF Memory
      <4>4. QED
        BY <3>2, <4>2, <4>3, SmallerMemory
    <3>3. QED
      BY <3>1, <3>2
  <2>4. QED
    BY <1>3, <2>2, <2>3 DEF Carries, MessagesCarry, SetTxAsApproved
<1>4. QED
  BY <1>2, <1>3

\* Every step carries the quorums on.
LEMMA StepCarries ==
  ASSUME TypeOK, QuorumInv, [Next]_vars
  PROVE  Carries
<1>1. CASE UNCHANGED vars \/ Tick
  BY <1>1, UntouchedMemory
  DEF vars, Tick, Carries, MessagesCarry, RowsCarry
<1>2. ASSUME NEW g \in Guards,
             \/ ResetJob(g) \/ ClearTransactions(g) \/ ConfirmedEventsJob(g)
             \/ ResendTransactionRequests(g) \/ Restart(g)
      PROVE  Carries
  BY <1>2, TimersCarry, RequestsCarry
<1>3. ASSUME NEW g \in Guards, ResendApprovalMessages(g)
      PROVE  Carries
  <2>1. \A m \in mem[g].approvedTransactions : MessageBacked(m)'
    BY <1>3 DEF QuorumInv, MemoryBacked, ResendApprovalMessages, MessageBacked,
                HasQuorum, TypeOK, Memory, Approval
  <2>2. MessagesCarry
    BY <1>3, <2>1 DEF MessagesCarry, Sends, ResendApprovalMessages
  <2>3. QED
    BY <1>3, <2>2, UntouchedMemory DEF Carries, RowsCarry, ResendApprovalMessages
<1>4. ASSUME NEW g \in Guards, NEW t \in Txs,
             \/ AddTransactionToQueue(g, t) \/ BroadcastRequest(g, t)
             \/ AdvanceTx(g, t) \/ GiveUpTx(g, t)
      PROVE  Carries
  BY <1>4, QueueCarries, TableCarries
<1>5. ASSUME NEW g \in Guards,
             \/ \E c \in mem[g].starting : StartAgreement(g, c)
             \/ \E c \in mem[g].counting : CountApprovals(g, c)
             \/ \E a \in mem[g].approving : SetTxAsApproved(g, a)
             \/ \E m \in mem[g].verifying : Agree(g, m) \/ Disagree(g, m)
      PROVE  Carries
  BY <1>5, StartCarries, CountCarries, TableCarries, VerifiedCarries
<1>6. ASSUME NEW g \in Guards, NEW m \in msgs,
             \/ ProcessTransactionRequest(g, m)
             \/ ProcessAgreementResponse(g, m)
             \/ ProcessApprovalMessage(g, m)
      PROVE  Carries
  <2>1. MessageBacked(m)
    BY DEF QuorumInv
  <2>2. QED
    BY <1>6, <2>1, VerifyCarries, ResponseCarries, ApprovalCarries
    DEF ProcessTransactionRequest
<1>7. QED
  BY <1>1, <1>2, <1>3, <1>4, <1>5, <1>6 DEF Next

\* QuorumInv is inductive: whatever messages are lost, repeated or late, and
\* whichever guards restart, what a guard takes for approved has a quorum.
THEOREM QuorumInvariant == Spec => [](TypeOK /\ QuorumInv)
<1>1. Init => QuorumInv
  BY DEF Init, QuorumInv, MemoryBacked, EmptyMemory, Signed, Guards
<1>2. ASSUME TypeOK, TypeOK', QuorumInv, [Next]_vars
      PROVE  QuorumInv'
  BY <1>2, SignedGrows, StepCarries, QuorumCarried DEF Carries
<1>3. QED
  BY <1>1, <1>2, AgreementTypeCorrect, PTL DEF Spec

\* Every row of every guard was signed by at least requiredSign guards.
THEOREM QuorumBehindRowAlways == Spec => []QuorumBehindRow
<1>1. QuorumInv => QuorumBehindRow
  BY DEF QuorumInv, QuorumBehindRow, HasQuorum
<1>2. QED
  BY <1>1, QuorumInvariant, PTL

\* The agreement protocol implements QuorumApproval, for any number of guards:
\* signing is agreeing, and taking a tx into the table is approving it.
THEOREM AgreementImplementsQuorumApproval == Spec => ImplementsQuorumApproval
<1> DEFINE held == [g \in Guards |-> {t \in Txs : table[g][t] # "absent"}]
<1>1. Init => Promise!QInit
  BY DEF Init, Promise!QInit
<1>2. ASSUME TypeOK, QuorumInv, [Next]_vars
      PROVE  [Promise!QNext]_<<signed, held>>
  <2>1. ASSUME NEW g \in Guards, NEW t \in Txs, Sign(g, t), UNCHANGED table
        PROVE  Promise!QNext
    BY <2>1 DEF Sign, Promise!QNext, Promise!QAgree
  <2>2. ASSUME NEW g \in Guards, NEW a \in mem[g].approving,
               SetTxAsApproved(g, a)
        PROVE  [Promise!QNext]_<<signed, held>>
    <3> DEFINE rows == InsertEventTx(table[g], a.tx)
               kept == {u \in Txs \ {a.tx} : rows[u] # "absent"}
    <3>a. table[g] \in [Txs -> RowStatus] /\ a.tx \in Txs
      BY <1>2 DEF TypeOK, Memory
    <3>b. signed[a.tx] \in SUBSET Guards /\ HasQuorum(a.tx)
      BY <1>2, <3>a DEF TypeOK, QuorumInv, MemoryBacked
    <3>1. /\ table[g] \in [Txs -> RowStatus]
          /\ a.tx \in Txs
          /\ signed[a.tx] \in {Q \in SUBSET Guards : Cardinality(Q) >= requiredSign}
      BY <3>a, <3>b DEF HasQuorum
    <3>2. /\ table' = [table EXCEPT ![g] = rows]
          /\ signed' = signed
      BY <2>2 DEF SetTxAsApproved
    <3>3. rows = table[g] \/ rows[a.tx] # "absent"
      BY <3>1, InsertEventTxRows
    <3>4. kept \in SUBSET held[g]
      BY <3>1, InsertEventTxRows
    <3> HIDE DEF rows
    <3>5. CASE rows = table[g]
      BY <1>2, <3>2, <3>5 DEF TypeOK
    <3>6. CASE rows[a.tx] # "absent"
      <4>1. {t \in Txs : rows[t] # "absent"} = kept \cup {a.tx}
        BY <3>1, <3>6
      <4>2. held' = [held EXCEPT ![g] = kept \cup {a.tx}]
        BY <1>2, <3>2, <4>1 DEF TypeOK
      <4>3. \E k \in SUBSET held[g] : held' = [held EXCEPT ![g] = k \cup {a.tx}]
        <5> HIDE DEF kept, held
        <5>1. QED
          BY <3>4, <4>2
      <4>4. Promise!QApprove(g, a.tx)
        BY <3>1, <3>2, <4>3 DEF Promise!QApprove
      <4>5. QED
        BY <3>1, <4>4 DEF Promise!QNext
    <3>7. QED
      BY <3>3, <3>5, <3>6
  <2>3. ASSUME NEW g \in Guards, NEW t \in Txs, AdvanceTx(g, t) \/ GiveUpTx(g, t)
        PROVE  UNCHANGED <<signed, held>>
    BY <1>2, <2>3 DEF AdvanceTx, GiveUpTx, TypeOK
  <2>4. ASSUME UNCHANGED <<signed, table>>
        PROVE  UNCHANGED <<signed, held>>
    BY <2>4
  <2>5. \/ UNCHANGED <<signed, table>>
        \/ \E g \in Guards, t \in Txs : Sign(g, t) /\ UNCHANGED table
        \/ \E g \in Guards, t \in Txs : AdvanceTx(g, t) \/ GiveUpTx(g, t)
        \/ \E g \in Guards : \E a \in mem[g].approving : SetTxAsApproved(g, a)
    BY <1>2, StepKinds
  <2>6. QED
    BY <2>1, <2>2, <2>3, <2>4, <2>5
<1>3. QED
  BY <1>1, <1>2, QuorumInvariant, PTL
  DEF Spec, ImplementsQuorumApproval, Promise!QSpec

-----------------------------------------------------------------------------
(* That the guards approve one tx of an event in a turn.  Whatever is      *)
(* approved was requested, and everything that stands for a request (a     *)
(* message, an entry of transactions, a handler at its await) keeps the    *)
(* time of the request.  So it is enough that one guard requests in a      *)
(* turn, and one tx of an event: that its queue was cleared when the turn  *)
(* began, that the job ran once, and that an event that is up for a tx has *)
(* none in the queue.                                                      *)

Turn(time) == time \div TURNS_LENGTH
Owner(time) == Turn(time) % guardsLen

\* A guard holds something that goes back to the request of tx t at time s.
AskedBy(g, t, s) ==
  \/ [tx |-> t, ts |-> s] \in mem[g].starting \cup mem[g].counting
  \/ mem[g].transactions[t] = s
  \/ \E m \in mem[g].verifying \cup mem[g].approvedTransactions :
       m.tx = t /\ m.ts = s

Asked(t, s) ==
  \/ \E m \in msgs : m.tx = t /\ m.ts = s
  \/ \E g \in Guards : AskedBy(g, t, s)

AskedNow(t) == \E s \in Time : Asked(t, s) /\ Turn(s) = Turn(now)

\* No tx is requested in a turn before the job of its owner ran.
AskedAfterJob ==
  \A t \in Txs, s \in Time : Asked(t, s) =>
    /\ s <= now
    /\ Turn(s) = Turn(now) => Owner(now) \in ran

OneTxAsked ==
  \A t, u \in Txs, r, s \in Time :
    Asked(t, r) /\ Asked(u, s) /\ SameEvent(t, u) /\ Turn(r) = Turn(s) => t = u

\* Only the owner of the turn has a queue, and it is going to be cleared.
QueueOfOwner ==
  /\ running \subseteq ran \cap {Owner(now)}
  /\ ~InGap(now) => running \subseteq clearDue
  /\ \A g \in Guards :
       mem[g].transactionQueue # {} => g \in running \cap clearDue

\* What the owner requests in its turn, and what it is still going to.
Chosen(g, t) == t \in mem[g].transactionQueue \/ AskedNow(t)

OneTxChosen ==
  \A g \in running :
    /\ \A t, u \in Txs :
         Chosen(g, t) /\ Chosen(g, u) /\ SameEvent(t, u) => t = u
    /\ \A t \in Txs : Chosen(g, t) => EventOf[t] \notin mem[g].pending

OneValidRow ==
  \A g \in Guards, t, u \in Txs :
    /\ table[g][t] \in {"approved", "advanced"}
    /\ table[g][u] \in {"approved", "advanced"}
    /\ SameEvent(t, u)
    => t = u

AskInv ==
  AskedAfterJob /\ OneTxAsked /\ QueueOfOwner /\ OneTxChosen /\ OneValidRow

-----------------------------------------------------------------------------
(* The clock *)

\* The turn of any time, and of the moment after it.
LEMMA TurnAt ==
  ASSUME NEW n \in Nat
  PROVE  LET p == n % TURNS_LENGTH
         IN  /\ Turn(n) \in Nat /\ p \in 0 .. TURNS_LENGTH - 1
             /\ n = TURNS_LENGTH * Turn(n) + p
             /\ InGap(n) <=> p > UP_TIME_LENGTH
             /\ ~InGap(n) => guardTurnAt(n) = Owner(n)
<1> DEFINE d == n \div TURNS_LENGTH
           p == n % TURNS_LENGTH
           k == d \div guardsLen
           q == d % guardsLen
<1>1. /\ TURNS_LENGTH \in Nat \ {0} /\ guardsLen \in Nat \ {0}
      /\ UP_TIME_LENGTH \in Nat
  BY Lengths
<1>2. d \in Int /\ p \in 0 .. TURNS_LENGTH - 1 /\ n = TURNS_LENGTH * d + p
  BY <1>1, Division
<1>3. d \in Nat
  <2> HIDE DEF d, p
  <2>1. ASSUME d <= -1 PROVE TURNS_LENGTH * d <= - TURNS_LENGTH
    BY <1>1, <1>2, <2>1
  <2>2. QED
    BY <1>1, <1>2, <2>1
<1>4. k \in Int /\ q \in 0 .. guardsLen - 1 /\ d = guardsLen * k + q
  <2> HIDE DEF d
  <2>1. QED
    BY <1>1, <1>3, Division
<1>5. At(k, q, p) = n
  <2> HIDE DEF d, p, k, q
  <2>1. FULL_PERIOD * k = TURNS_LENGTH * (guardsLen * k)
    BY <1>1, <1>4 DEF FULL_PERIOD
  <2>2. TURNS_LENGTH * d = TURNS_LENGTH * (guardsLen * k) + TURNS_LENGTH * q
    BY <1>1, <1>4
  <2>3. FULL_PERIOD * k \in Int /\ TURNS_LENGTH * q \in Int
    BY <1>1, <1>4 DEF FULL_PERIOD
  <2>4. QED
    BY <1>2, <2>1, <2>2, <2>3 DEF At
<1>6. guardTurnAt(n) = IF p > UP_TIME_LENGTH THEN NoTurn ELSE q
  <2>1. q \in Guards
    BY <1>4 DEF Guards
  <2> HIDE DEF d, p, k, q
  <2>2. guardTurnAt(At(k, q, p)) = IF p > UP_TIME_LENGTH THEN NoTurn ELSE q
    BY <1>2, <1>4, <2>1, TurnOfTime
  <2>3. QED
    BY <1>5, <2>2
<1>7. q # NoTurn
  BY <1>1, <1>4 DEF NoTurn
<1>8. QED
  BY <1>2, <1>3, <1>6, <1>7 DEF Turn, Owner, InGap

\* The clock enters the next turn only from the gap.
LEMMA NextTurn ==
  ASSUME NEW n \in Nat
  PROVE  \/ Turn(n + 1) = Turn(n) /\ ~(InGap(n) /\ ~InGap(n + 1))
         \/ Turn(n + 1) = Turn(n) + 1 /\ InGap(n) /\ ~InGap(n + 1)
<1> DEFINE T == TURNS_LENGTH
           p == n % T
<1>1. /\ T \in Nat \ {0} /\ UP_TIME_LENGTH + 1 < T
      /\ UP_TIME_LENGTH \in Nat \ {0}
  BY Lengths
<1>2. /\ Turn(n) \in Nat /\ p \in 0 .. T - 1 /\ n = T * Turn(n) + p
      /\ InGap(n) <=> p > UP_TIME_LENGTH
  BY TurnAt
<1>3. InGap(n + 1) <=> (n + 1) % T > UP_TIME_LENGTH
  <2> DEFINE m == n + 1
  <2>1. m \in Nat
    OBVIOUS
  <2> HIDE DEF m
  <2>2. InGap(m) <=> m % TURNS_LENGTH > UP_TIME_LENGTH
    BY <2>1, TurnAt
  <2>3. QED
    BY <2>2 DEF m
<1>4. CASE p < T - 1
  <2>1. (n + 1) \div T = Turn(n) /\ (n + 1) % T = p + 1
    <3> HIDE DEF p, T
    <3>1. p + 1 \in 0 .. T - 1 /\ n + 1 = T * Turn(n) + (p + 1)
      BY <1>1, <1>2, <1>4
    <3>2. T \in Nat \ {0} /\ Turn(n) \in Int
      BY <1>1, <1>2
    <3>3. /\ (T * Turn(n) + (p + 1)) \div T = Turn(n)
          /\ (T * Turn(n) + (p + 1)) % T = p + 1
      <4> DEFINE r == p + 1
      <4> HIDE DEF r
      <4>1. r \in 0 .. T - 1
        BY <3>1 DEF r
      <4>2. (T * Turn(n) + r) \div T = Turn(n) /\ (T * Turn(n) + r) % T = r
        BY <3>2, <4>1, Remainder
      <4>3. QED
        BY <4>2 DEF r
    <3>4. QED
      BY <3>1, <3>3
  <2>2. QED
    BY <1>1, <1>2, <1>3, <2>1 DEF Turn
<1>5. CASE p = T - 1
  <2>1. (n + 1) \div T = Turn(n) + 1 /\ (n + 1) % T = 0
    <3> HIDE DEF p, T
    <3>1. 0 \in 0 .. T - 1 /\ n + 1 = T * (Turn(n) + 1) + 0
      BY <1>1, <1>2, <1>5
    <3>2. Turn(n) + 1 \in Int
      BY <1>2
    <3>3. QED
      BY <1>1, <3>1, <3>2, Remainder
  <2>2. QED
    BY <1>1, <1>2, <1>3, <1>5, <2>1 DEF Turn
<1>6. QED
  BY <1>1, <1>2, <1>4, <1>5

-----------------------------------------------------------------------------
(* Steps that request nothing *)

AskedShrinks == \A t \in Txs, s \in Time : Asked(t, s)' => Asked(t, s)

\* A step of one guard requests nothing if what it holds and sends goes back to
\* a request made before.
LEMMA Shrinks ==
  ASSUME NEW g \in Guards, \A h \in Guards \ {g} : mem'[h] = mem[h],
         \A m \in msgs' : m \in msgs \/ Asked(m.tx, m.ts),
         \A t \in Txs, s \in Time : AskedBy(g, t, s)' => Asked(t, s)
  PROVE  AskedShrinks
<1> SUFFICES ASSUME NEW t \in Txs, NEW s \in Time, Asked(t, s)' PROVE Asked(t, s)
  BY DEF AskedShrinks
<1>1. ASSUME NEW m \in msgs', m.tx = t, m.ts = s PROVE Asked(t, s)
  <2>1. CASE m \in msgs
    BY <1>1, <2>1 DEF Asked
  <2>2. CASE Asked(m.tx, m.ts)
    BY <1>1, <2>2
  <2>3. QED
    BY <2>1, <2>2
<1>2. ASSUME NEW h \in Guards, AskedBy(h, t, s)' PROVE Asked(t, s)
  <2>1. CASE h = g
    BY <1>2, <2>1
  <2>2. CASE h # g
    BY <1>2, <2>2 DEF AskedBy, Asked
  <2>3. QED
    BY <2>1, <2>2
<1>3. QED
  BY <1>1, <1>2 DEF Asked

\* Such a step keeps the invariant, if the owner of the turn does not get more
\* to request.
LEMMA QuietStep ==
  ASSUME AskInv, now' = now, ran \subseteq ran', running' \subseteq running,
         \A g \in Guards :
           /\ mem'[g].transactionQueue \subseteq mem[g].transactionQueue
           /\ mem'[g].pending \subseteq mem[g].pending,
         running \subseteq Guards,
         QueueOfOwner', AskedShrinks, OneValidRow'
  PROVE  AskInv'
<1> USE DEF AskInv
<1>1. \A t \in Txs : AskedNow(t)' => AskedNow(t)
  BY DEF AskedNow, AskedShrinks, Turn
<1>2. AskedAfterJob'
  BY DEF AskedAfterJob, AskedShrinks, Turn, Owner
<1>3. OneTxAsked'
  BY DEF OneTxAsked, AskedShrinks, Turn, SameEvent
<1>4. OneTxChosen'
  <2>1. \A g \in running', t \in Txs : Chosen(g, t)' => Chosen(g, t)
    BY <1>1 DEF Chosen
  <2>2. QED
    BY <2>1 DEF OneTxChosen, SameEvent
<1>5. QED
  BY <1>2, <1>3, <1>4

\* Most steps are those of a handler: they touch neither the timers nor the
\* queue.
LEMMA HandlerStep ==
  ASSUME TypeOK, AskInv, UNCHANGED <<now, timers, table>>,
         \A g \in Guards : /\ mem'[g].transactionQueue = mem[g].transactionQueue
                           /\ mem'[g].pending = mem[g].pending,
         AskedShrinks
  PROVE  AskInv'
<1>1. QueueOfOwner'
  BY DEF AskInv, QueueOfOwner, timers, Owner, Turn, InGap, guardTurnAt
<1>2. OneValidRow'
  BY DEF AskInv, OneValidRow
<1>3. QED
  BY <1>1, <1>2, QuietStep DEF timers, TypeOK

\* The timers of the gap and a restart forget.
LEMMA GapAsks ==
  ASSUME TypeOK, AskInv, NEW g \in Guards,
         ResetJob(g) \/ ClearTransactions(g) \/ Restart(g)
  PROVE  AskInv'
<1>1. mem[g] \in Memory /\ \A h \in Guards \ {g} : mem'[h] = mem[h]
  BY DEF TypeOK, ResetJob, ClearTransactions, Restart
<1>2. /\ mem'[g].starting \subseteq mem[g].starting
      /\ mem'[g].counting \subseteq mem[g].counting
      /\ mem'[g].verifying \subseteq mem[g].verifying
      /\ mem'[g].approvedTransactions \subseteq mem[g].approvedTransactions
      /\ mem'[g].transactions = [t \in Txs |-> NoTime]
      /\ mem'[g].transactionQueue \subseteq mem[g].transactionQueue
      /\ mem'[g].pending \subseteq mem[g].pending
  <2>1. CASE ResetJob(g)
    BY <1>1, <2>1 DEF TypeOK, Memory, ResetJob, EmptyMemory
  <2>2. CASE ClearTransactions(g)
    BY <1>1, <2>2 DEF TypeOK, Memory, ClearTransactions, EmptyMemory
  <2>3. CASE Restart(g)
    BY <1>1, <2>3 DEF TypeOK, Memory, Restart, EmptyMemory
  <2>4. QED
    BY <2>1, <2>2, <2>3
<1>3. \A t \in Txs, s \in Time : AskedBy(g, t, s)' => Asked(t, s)
  BY <1>2 DEF AskedBy, Asked, Time, NoTime
<1>4. AskedShrinks
  <2>1. msgs' = msgs
    BY DEF ResetJob, ClearTransactions, Restart
  <2>2. QED
    BY <1>1, <1>3, <2>1, Shrinks
<1>5. OneValidRow'
  BY DEF AskInv, OneValidRow, ResetJob, ClearTransactions, Restart
<1>6. /\ now' = now /\ ran \subseteq ran' /\ running' \subseteq running
      /\ running \subseteq Guards
  BY DEF TypeOK, ResetJob, ClearTransactions, Restart
<1>7. QueueOfOwner'
  <2>1. CASE ResetJob(g)
    BY <1>1, <1>2, <2>1 DEF AskInv, QueueOfOwner, ResetJob, Owner, Turn, InGap,
                            guardTurnAt
  <2>2. CASE ClearTransactions(g)
    <3>1. mem'[g].transactionQueue = {}
      BY <1>1, <2>2 DEF TypeOK, Memory, ClearTransactions, EmptyMemory
    <3>2. InGap(now)' /\ Owner(now)' = Owner(now)
      BY <2>2 DEF ClearTransactions, InGap, guardTurnAt, Owner, Turn
    <3>3. QED
      BY <1>1, <2>2, <3>1, <3>2 DEF AskInv, QueueOfOwner, ClearTransactions
  <2>3. CASE Restart(g)
    <3>1. mem'[g].transactionQueue = {}
      BY <1>1, <2>3 DEF TypeOK, Memory, Restart, EmptyMemory
    <3>2. InGap(now)' = InGap(now) /\ Owner(now)' = Owner(now)
      BY <2>3 DEF Restart, InGap, guardTurnAt, Owner, Turn
    <3>3. QED
      BY <1>1, <2>3, <3>1, <3>2 DEF AskInv, QueueOfOwner, Restart
  <2>4. QED
    BY <2>1, <2>2, <2>3
<1>8. \A h \in Guards : /\ mem'[h].transactionQueue \subseteq mem[h].transactionQueue
                        /\ mem'[h].pending \subseteq mem[h].pending
  BY <1>1, <1>2
<1>9. QED
  BY <1>4, <1>5, <1>6, <1>7, <1>8, QuietStep

\* What is resent was sent before.
LEMMA ResendAsks ==
  ASSUME TypeOK, AskInv, NEW g \in Guards,
         ResendTransactionRequests(g) \/ ResendApprovalMessages(g)
  PROVE  AskInv'
<1>1. mem' = mem /\ UNCHANGED <<now, timers, table>>
  BY DEF ResendTransactionRequests, ResendApprovalMessages
<1>2. \A t \in Txs, s \in Time : AskedBy(g, t, s)' => Asked(t, s)
  BY <1>1 DEF AskedBy, Asked
<1>3. \A m \in msgs' : m \in msgs \/ Asked(m.tx, m.ts)
  <2>1. CASE ResendTransactionRequests(g)
    <3>1. \A t \in HeldTxs(g) : Asked(t, mem[g].transactions[t])
      BY DEF HeldTxs, Asked, AskedBy
    <3>2. QED
      BY <2>1, <3>1 DEF ResendTransactionRequests, Sends
  <2>2. CASE ResendApprovalMessages(g)
    BY <2>2 DEF ResendApprovalMessages, Sends, Asked, AskedBy
  <2>3. QED
    BY <2>1, <2>2
<1>4. AskedShrinks
  BY <1>1, <1>2, <1>3, Shrinks
<1>5. QED
  BY <1>1, <1>4, HandlerStep

\* The creator holds what it requested.
LEMMA StartAsks ==
  ASSUME TypeOK, AskInv, NEW g \in Guards, NEW c \in mem[g].starting,
         StartAgreement(g, c)
  PROVE  AskInv'
<1>1. /\ mem[g] \in Memory /\ c \in Candidate
      /\ \A h \in Guards \ {g} : mem'[h] = mem[h]
      /\ msgs' = msgs /\ UNCHANGED <<now, timers, table>>
  BY DEF TypeOK, Memory, StartAgreement
<1>2. /\ mem'[g].starting = {}
      /\ mem'[g].counting = mem[g].counting
      /\ mem'[g].verifying = mem[g].verifying
      /\ mem'[g].approvedTransactions = mem[g].approvedTransactions
      /\ mem'[g].transactions = [mem[g].transactions EXCEPT ![c.tx] = c.ts]
      /\ mem'[g].transactionQueue = mem[g].transactionQueue
      /\ mem'[g].pending = mem[g].pending
  BY <1>1 DEF TypeOK, Memory, StartAgreement
<1>3. c = [tx |-> c.tx, ts |-> c.ts] /\ Asked(c.tx, c.ts)
  BY <1>1 DEF Candidate, Asked, AskedBy
<1>4. \A t \in Txs, s \in Time : AskedBy(g, t, s)' => Asked(t, s)
  BY <1>1, <1>2, <1>3 DEF AskedBy, Asked, Memory
<1>5. AskedShrinks
  BY <1>1, <1>4, Shrinks
<1>6. QED
  BY <1>1, <1>2, <1>5, HandlerStep

\* A message that is verified asks for what it asked when it was sent.
LEMMA VerifyAsks ==
  ASSUME TypeOK, AskInv, NEW g \in Guards, NEW m \in msgs,
         VerifyTransactionRequest(g, m)
  PROVE  AskInv'
<1>1. /\ mem[g] \in Memory
      /\ \A h \in Guards \ {g} : mem'[h] = mem[h]
      /\ msgs' = msgs /\ UNCHANGED <<now, timers, table>>
  BY DEF TypeOK, VerifyTransactionRequest
<1>2. mem'[g] = [mem[g] EXCEPT !.verifying = mem[g].verifying \cup {m}]
  BY DEF TypeOK, VerifyTransactionRequest
<1>3. \A t \in Txs, s \in Time : AskedBy(g, t, s)' => Asked(t, s)
  BY <1>1, <1>2 DEF AskedBy, Asked, Memory
<1>4. AskedShrinks
  BY <1>1, <1>3, Shrinks
<1>5. QED
  BY <1>1, <1>2, <1>4, HandlerStep DEF Memory

\* Agreeing keeps the time of the request.
LEMMA AgreeAsks ==
  ASSUME TypeOK, AskInv, NEW g \in Guards, NEW m \in mem[g].verifying,
         Agree(g, m) \/ Disagree(g, m)
  PROVE  AskInv'
<1>1. /\ mem[g] \in Memory /\ m.tx \in Txs /\ Asked(m.tx, m.ts)
      /\ \A h \in Guards \ {g} : mem'[h] = mem[h]
      /\ UNCHANGED <<now, timers, table>>
  BY MessageFields DEF TypeOK, Memory, Agree, Disagree, Asked, AskedBy
<1>2. /\ mem'[g].starting = mem[g].starting
      /\ mem'[g].counting = mem[g].counting
      /\ mem'[g].verifying \subseteq mem[g].verifying
      /\ mem'[g].approvedTransactions = mem[g].approvedTransactions
      /\ mem'[g].transactions \in {mem[g].transactions,
                                   [mem[g].transactions EXCEPT ![m.tx] = m.ts]}
      /\ mem'[g].transactionQueue = mem[g].transactionQueue
      /\ mem'[g].pending = mem[g].pending
  <2>1. CASE Agree(g, m)
    <3> DEFINE agreed == [mem[g] EXCEPT
                 !.verifying = mem[g].verifying \ {m},
                 !.eventAgreedTransactions[EventOf[m.tx]] = m.tx]
               approved == [tx |-> m.tx, inSemaphore |-> FALSE]
    <3>1. /\ agreed.starting = mem[g].starting
          /\ agreed.counting = mem[g].counting
          /\ agreed.verifying = mem[g].verifying \ {m}
          /\ agreed.approvedTransactions = mem[g].approvedTransactions
          /\ agreed.transactions = mem[g].transactions
          /\ agreed.transactionQueue = mem[g].transactionQueue
          /\ agreed.pending = mem[g].pending
          /\ DOMAIN agreed = DOMAIN mem[g]
      BY <1>1 DEF Memory
    <3>2. \/ mem'[g] = [agreed EXCEPT !.transactions[m.tx] = m.ts]
          \/ mem'[g] = [agreed EXCEPT !.approving = agreed.approving \cup {approved}]
      BY <2>1 DEF TypeOK, Agree
    <3> HIDE DEF agreed, approved
    <3>3. QED
      BY <1>1, <3>1, <3>2 DEF Memory
  <2>2. CASE Disagree(g, m)
    BY <1>1, <2>2 DEF TypeOK, Memory, Disagree
  <2>3. QED
    BY <2>1, <2>2
<1>3. \A t \in Txs, s \in Time : AskedBy(g, t, s)' => Asked(t, s)
  BY <1>1, <1>2 DEF AskedBy, Asked, Memory
<1>4. \A n \in msgs' : n \in msgs \/ Asked(n.tx, n.ts)
  BY <1>1 DEF Agree, Disagree, Sends
<1>5. AskedShrinks
  BY <1>1, <1>3, <1>4, Shrinks
<1>6. QED
  BY <1>1, <1>2, <1>5, HandlerStep

\* A response is counted for the request it answers.
LEMMA ResponseAsks ==
  ASSUME TypeOK, AskInv, NEW g \in Guards, NEW m \in msgs,
         ProcessAgreementResponse(g, m)
  PROVE  AskInv'
<1>1. /\ mem[g] \in Memory
      /\ \A h \in Guards \ {g} : mem'[h] = mem[h]
      /\ msgs' = msgs /\ UNCHANGED <<now, timers, table>>
  BY DEF TypeOK, ProcessAgreementResponse
<1>2. /\ mem'[g].starting = mem[g].starting
      /\ mem'[g].counting = mem[g].counting \cup {[tx |-> m.tx, ts |-> m.ts]}
      /\ mem'[g].verifying = mem[g].verifying
      /\ mem'[g].transactions = mem[g].transactions
      /\ mem'[g].transactionQueue = mem[g].transactionQueue
      /\ mem'[g].pending = mem[g].pending
  BY <1>1 DEF TypeOK, Memory, ProcessAgreementResponse
<1>3. \A a \in mem'[g].approvedTransactions :
        \E b \in mem[g].approvedTransactions : a.tx = b.tx /\ a.ts = b.ts
  <2> DEFINE approvals == mem[g].transactionApprovals[m.tx]
             signatures == {s \in approvals : s.by # m.from}
                             \cup {[by |-> m.from, ts |-> m.ts]}
             resent == {a \in mem[g].approvedTransactions :
                          a.tx # m.tx \/ a.signatures # approvals} \cup
                       {[a EXCEPT !.signatures = signatures] :
                          a \in {b \in mem[g].approvedTransactions :
                                   b.tx = m.tx /\ b.signatures = approvals}}
  <2>1. mem'[g].approvedTransactions = resent
    BY <1>1 DEF TypeOK, Memory, ProcessAgreementResponse
  <2>2. \A b \in mem[g].approvedTransactions :
          /\ [b EXCEPT !.signatures = signatures].tx = b.tx
          /\ [b EXCEPT !.signatures = signatures].ts = b.ts
    BY <1>1 DEF Memory, Approval
  <2> HIDE DEF signatures, approvals
  <2>3. QED
    BY <2>1, <2>2
<1>4. \A t \in Txs, s \in Time : AskedBy(g, t, s)' => Asked(t, s)
  BY <1>1, <1>2, <1>3 DEF AskedBy, Asked
<1>5. AskedShrinks
  BY <1>1, <1>4, Shrinks
<1>6. QED
  BY <1>1, <1>2, <1>5, HandlerStep

\* The approval of a tx has the time of its request.
LEMMA CountAsks ==
  ASSUME TypeOK, AskInv, NEW g \in Guards, NEW c \in mem[g].counting,
         CountApprovals(g, c)
  PROVE  AskInv'
<1>1. /\ mem[g] \in Memory /\ c \in Candidate
      /\ \A h \in Guards \ {g} : mem'[h] = mem[h]
      /\ UNCHANGED <<now, timers, table>>
  BY DEF TypeOK, Memory, CountApprovals
<1>2. c = [tx |-> c.tx, ts |-> c.ts] /\ Asked(c.tx, c.ts)
  BY <1>1 DEF Candidate, Asked, AskedBy
<1>3. /\ mem'[g].starting = mem[g].starting
      /\ mem'[g].counting \subseteq mem[g].counting
      /\ mem'[g].verifying = mem[g].verifying
      /\ mem'[g].transactions = mem[g].transactions
      /\ mem'[g].transactionQueue = mem[g].transactionQueue
      /\ mem'[g].pending = mem[g].pending
      /\ \A a \in mem'[g].approvedTransactions :
           a \in mem[g].approvedTransactions \/ (a.tx = c.tx /\ a.ts = c.ts)
  BY <1>1 DEF TypeOK, Memory, CountApprovals
<1>4. \A t \in Txs, s \in Time : AskedBy(g, t, s)' => Asked(t, s)
  BY <1>2, <1>3 DEF AskedBy, Asked
<1>5. \A n \in msgs' : n \in msgs \/ Asked(n.tx, n.ts)
  BY <1>2 DEF CountApprovals, Sends
<1>6. AskedShrinks
  BY <1>1, <1>4, <1>5, Shrinks
<1>7. QED
  BY <1>1, <1>3, <1>6, HandlerStep

LEMMA ApprovalAsks ==
  ASSUME TypeOK, AskInv, NEW g \in Guards, NEW m \in msgs,
         ProcessApprovalMessage(g, m)
  PROVE  AskInv'
<1>1. CASE VerifyTransactionRequest(g, m)
  BY <1>1, VerifyAsks
<1>2. CASE /\ mem' = [mem EXCEPT ![g].approving =
                        @ \cup {[tx |-> m.tx, inSemaphore |-> FALSE]}]
           /\ UNCHANGED <<now, table, msgs, timers, restarts, signed>>
  <2>1. /\ mem[g] \in Memory
        /\ \A h \in Guards \ {g} : mem'[h] = mem[h]
        /\ mem'[g] = [mem[g] EXCEPT !.approving = mem[g].approving \cup
                        {[tx |-> m.tx, inSemaphore |-> FALSE]}]
    BY <1>2 DEF TypeOK
  <2>2. \A t \in Txs, s \in Time : AskedBy(g, t, s)' => Asked(t, s)
    BY <2>1 DEF AskedBy, Asked, Memory
  <2>3. AskedShrinks
    BY <1>2, <2>1, <2>2, Shrinks
  <2>4. QED
    BY <1>2, <2>1, <2>3, HandlerStep DEF Memory
<1>3. QED
  BY <1>1, <1>2 DEF ProcessApprovalMessage

-----------------------------------------------------------------------------
(* Steps of the table *)

\* A tx is inserted for an event that has no valid one, or in the place of it.
LEMMA InsertedAlone ==
  ASSUME TypeOK, OneValidRow, NEW g \in Guards, NEW t \in Txs,
         table' = [table EXCEPT ![g] = InsertEventTx(table[g], t)]
  PROVE  OneValidRow'
<1> DEFINE rows == table[g]
           new == InsertEventTx(rows, t)
           Valid(r, u) == r[u] \in {"approved", "advanced"}
           valid == {u \in Txs : SameEvent(t, u) /\ Valid(rows, u)}
<1>1. rows \in [Txs -> RowStatus] /\ table'[g] = new
      /\ \A h \in Guards \ {g} : table'[h] = table[h]
  BY DEF TypeOK
<1>2. \A u, v \in Txs : Valid(rows, u) /\ Valid(rows, v) /\ SameEvent(u, v) => u = v
  BY DEF OneValidRow
<1>3. \/ new = rows
      \/ valid = {} /\ new = [rows EXCEPT ![t] = "approved"]
      \/ new = [u \in Txs |-> IF u = t THEN "approved"
                              ELSE IF u \in valid THEN "absent" ELSE rows[u]]
  BY DEF InsertEventTx
<1>4. \A u, v \in Txs : Valid(new, u) /\ Valid(new, v) /\ SameEvent(u, v) => u = v
  BY <1>1, <1>2, <1>3 DEF SameEvent
<1>5. QED
  BY <1>1, <1>4 DEF OneValidRow, SameEvent

LEMMA TableAsks ==
  ASSUME TypeOK, AskInv, NEW g \in Guards,
         \/ \E a \in mem[g].approving : SetTxAsApproved(g, a)
         \/ \E t \in Txs : AdvanceTx(g, t) \/ GiveUpTx(g, t)
  PROVE  AskInv'
<1>1. UNCHANGED <<now, timers, msgs>>
  BY DEF SetTxAsApproved, AdvanceTx, GiveUpTx
<1>2. OneValidRow'
  <2>1. ASSUME NEW a \in mem[g].approving, SetTxAsApproved(g, a) PROVE OneValidRow'
    <3>1. a.tx \in Txs
      BY DEF TypeOK, Memory
    <3>2. QED
      BY <2>1, <3>1, InsertedAlone DEF SetTxAsApproved, AskInv
  <2>2. ASSUME NEW t \in Txs, AdvanceTx(g, t) \/ GiveUpTx(g, t) PROVE OneValidRow'
    <3>1. \A k \in Guards, u \in Txs :
            table'[k][u] \in {"approved", "advanced"} =>
              table[k][u] \in {"approved", "advanced"}
      BY <2>2 DEF TypeOK, AdvanceTx, GiveUpTx
    <3>2. OneValidRow
      BY DEF AskInv
    <3>3. QED
      BY <3>1, <3>2 DEF OneValidRow, SameEvent
  <2>3. QED
    BY <2>1, <2>2
<1>3. /\ mem[g] \in Memory /\ \A h \in Guards \ {g} : mem'[h] = mem[h]
      /\ mem'[g].starting = mem[g].starting
      /\ mem'[g].counting = mem[g].counting
      /\ mem'[g].verifying = mem[g].verifying
      /\ mem'[g].approvedTransactions = mem[g].approvedTransactions
      /\ \A t \in Txs : mem'[g].transactions[t] \in {NoTime, mem[g].transactions[t]}
      /\ mem'[g].transactionQueue = mem[g].transactionQueue
      /\ mem'[g].pending = mem[g].pending
  <2>1. ASSUME NEW a \in mem[g].approving, SetTxAsApproved(g, a)
        PROVE  mem' = [mem EXCEPT ![g] = Forget(mem[g], a)]
    BY <2>1 DEF SetTxAsApproved
  <2>2. ASSUME NEW t \in Txs, AdvanceTx(g, t) \/ GiveUpTx(g, t) PROVE mem' = mem
    BY <2>2 DEF AdvanceTx, GiveUpTx
  <2>3. mem[g] \in Memory
    BY DEF TypeOK
  <2>4. CASE mem' = mem
    BY <2>3, <2>4
  <2>5. ASSUME NEW a \in mem[g].approving, mem' = [mem EXCEPT ![g] = Forget(mem[g], a)]
        PROVE  /\ mem[g] \in Memory /\ \A h \in Guards \ {g} : mem'[h] = mem[h]
               /\ mem'[g].starting = mem[g].starting
               /\ mem'[g].counting = mem[g].counting
               /\ mem'[g].verifying = mem[g].verifying
               /\ mem'[g].approvedTransactions = mem[g].approvedTransactions
               /\ \A t \in Txs : mem'[g].transactions[t] \in {NoTime, mem[g].transactions[t]}
               /\ mem'[g].transactionQueue = mem[g].transactionQueue
               /\ mem'[g].pending = mem[g].pending
    BY <2>3, <2>5 DEF TypeOK, Memory, Forget
  <2>6. QED
    BY <2>1, <2>2, <2>4, <2>5
<1>4. \A t \in Txs, s \in Time : AskedBy(g, t, s)' => Asked(t, s)
  BY <1>3 DEF AskedBy, Asked, Time, NoTime
<1>5. AskedShrinks
  BY <1>1, <1>3, <1>4, Shrinks
<1>6. QueueOfOwner'
  BY <1>1, <1>3 DEF AskInv, QueueOfOwner, timers, Owner, Turn, InGap, guardTurnAt
<1>7. \A h \in Guards : /\ mem'[h].transactionQueue = mem[h].transactionQueue
                        /\ mem'[h].pending = mem[h].pending
  BY <1>3
<1>8. QED
  BY <1>1, <1>2, <1>5, <1>6, <1>7, QuietStep DEF timers, TypeOK

-----------------------------------------------------------------------------
(* Steps of the owner of the turn *)

LEMMA OwnTurn ==
  ASSUME TypeOK, NEW g \in Guards, guardTurn = g
  PROVE  ~InGap(now) /\ Owner(now) = g /\ now \in Nat
<1>1. now \in Nat /\ g # NoTurn
  BY Lengths DEF TypeOK, Time, Guards, NoTurn
<1>2. QED
  BY <1>1, TurnAt DEF guardTurn, InGap

\* The job of the owner starts with an empty queue, and nothing was requested in
\* the turn.
LEMMA JobAsks ==
  ASSUME TypeOK, AskInv, NEW g \in Guards, ConfirmedEventsJob(g)
  PROVE  AskInv'
<1> USE DEF AskInv
<1>1. ~InGap(now) /\ Owner(now) = g
  BY OwnTurn DEF ConfirmedEventsJob, JobIsDue
<1>2. PICK failed \in SUBSET {t \in Txs : table[g][t] = "advanced"} :
        mem' = [mem EXCEPT
          ![g].pending = {e \in Events : ValidTxs(g, e) = {}},
          ![g].transactionQueue = mem[g].transactionQueue \cup failed]
  BY DEF ConfirmedEventsJob
<1>3. /\ running = {} /\ g \notin ran
      /\ \A h \in Guards : mem[h].transactionQueue = {}
      /\ \A t \in Txs : ~AskedNow(t)
  BY <1>1 DEF ConfirmedEventsJob, JobIsDue, QueueOfOwner, AskedAfterJob, AskedNow
<1>4. /\ mem[g] \in Memory /\ \A h \in Guards \ {g} : mem'[h] = mem[h]
      /\ mem'[g].starting = mem[g].starting
      /\ mem'[g].counting = mem[g].counting
      /\ mem'[g].verifying = mem[g].verifying
      /\ mem'[g].approvedTransactions = mem[g].approvedTransactions
      /\ mem'[g].transactions = mem[g].transactions
      /\ mem'[g].transactionQueue = failed
      /\ mem'[g].pending = {e \in Events : ValidTxs(g, e) = {}}
  BY <1>2, <1>3 DEF TypeOK, Memory
<1>5. /\ UNCHANGED <<now, table, msgs>> /\ ran' = ran \cup {g}
      /\ running' = running \cup {g} /\ clearDue' = clearDue \cup {g}
  BY DEF ConfirmedEventsJob
<1>6. AskedShrinks
  <2>1. \A t \in Txs, s \in Time : AskedBy(g, t, s)' => Asked(t, s)
    BY <1>4 DEF AskedBy, Asked
  <2>2. QED
    BY <1>4, <1>5, <2>1, Shrinks
<1>7. AskedAfterJob' /\ OneTxAsked' /\ OneValidRow'
  BY <1>5, <1>6 DEF AskedAfterJob, OneTxAsked, OneValidRow, AskedShrinks, Turn,
                    Owner, SameEvent
<1>8. QueueOfOwner'
  <2>1. InGap(now)' = InGap(now) /\ Owner(now)' = Owner(now)
    BY <1>5 DEF InGap, guardTurnAt, Owner, Turn
  <2>2. QED
    BY <1>1, <1>3, <1>4, <1>5, <2>1 DEF QueueOfOwner
<1>9. OneTxChosen'
  <2>1. \A t \in Txs : Chosen(g, t)' => t \in failed
    BY <1>3, <1>4, <1>5, <1>6 DEF Chosen, AskedNow, AskedShrinks, Turn
  <2>2. \A t, u \in failed : SameEvent(t, u) => t = u
    BY DEF OneValidRow
  <2>3. \A t \in failed : EventOf[t] \notin mem'[g].pending
    BY <1>4 DEF ValidTxs
  <2>4. running' = {g}
    BY <1>3, <1>5
  <2>5. QED
    BY <2>1, <2>2, <2>3, <2>4 DEF OneTxChosen, SameEvent
<1>10. QED
  BY <1>7, <1>8, <1>9

\* A tx is created for an event that has none in the queue and none requested.
LEMMA CreatedAsks ==
  ASSUME TypeOK, AskInv, NEW g \in Guards, NEW t \in Txs, AddTransactionToQueue(g, t)
  PROVE  AskInv'
<1> USE DEF AskInv
<1>1. /\ ~InGap(now) /\ Owner(now) = g /\ g \in running
      /\ EventOf[t] \in mem[g].pending
  BY OwnTurn DEF AddTransactionToQueue
<1>2. /\ mem[g] \in Memory /\ \A h \in Guards \ {g} : mem'[h] = mem[h]
      /\ mem'[g].starting = mem[g].starting
      /\ mem'[g].counting = mem[g].counting
      /\ mem'[g].verifying = mem[g].verifying
      /\ mem'[g].approvedTransactions = mem[g].approvedTransactions
      /\ mem'[g].transactions = mem[g].transactions
      /\ mem'[g].transactionQueue = mem[g].transactionQueue \cup {t}
      /\ mem'[g].pending = mem[g].pending \ {EventOf[t]}
  BY DEF TypeOK, Memory, AddTransactionToQueue
<1>3. UNCHANGED <<now, table, msgs, timers>>
  BY DEF AddTransactionToQueue
<1>4. AskedShrinks
  <2>1. \A u \in Txs, s \in Time : AskedBy(g, u, s)' => Asked(u, s)
    BY <1>2 DEF AskedBy, Asked
  <2>2. QED
    BY <1>2, <1>3, <2>1, Shrinks
<1>5. AskedAfterJob' /\ OneTxAsked' /\ OneValidRow'
  BY <1>3, <1>4 DEF AskedAfterJob, OneTxAsked, OneValidRow, AskedShrinks, Turn,
                    Owner, SameEvent, timers
<1>6. QueueOfOwner'
  <2>1. InGap(now)' = InGap(now) /\ Owner(now)' = Owner(now)
    BY <1>3 DEF InGap, guardTurnAt, Owner, Turn
  <2>2. QED
    BY <1>1, <1>2, <1>3, <2>1 DEF QueueOfOwner, timers
<1>7. OneTxChosen'
  <2>1. \A u \in Txs : Chosen(g, u)' => Chosen(g, u) \/ u = t
    BY <1>2, <1>3, <1>4 DEF Chosen, AskedNow, AskedShrinks, Turn
  <2>2. \A u \in Txs : Chosen(g, u) => EventOf[u] \notin mem[g].pending
    BY <1>1 DEF OneTxChosen
  <2>3. \A u, v \in Txs : Chosen(g, u) /\ Chosen(g, v) /\ SameEvent(u, v) => u = v
    BY <1>1 DEF OneTxChosen
  <2>4. running' \subseteq {g}
    BY <1>1, <1>3 DEF QueueOfOwner, timers
  <2>5. \A u, v \in Txs : Chosen(g, u)' /\ Chosen(g, v)' /\ SameEvent(u, v) => u = v
    BY <1>1, <2>1, <2>2, <2>3 DEF SameEvent
  <2>6. \A u \in Txs : Chosen(g, u)' => EventOf[u] \notin mem'[g].pending
    BY <1>2, <2>1, <2>2
  <2>7. QED
    BY <2>4, <2>5, <2>6 DEF OneTxChosen, SameEvent
<1>8. QED
  BY <1>5, <1>6, <1>7

\* What is requested was in the queue.
LEMMA BroadcastAsks ==
  ASSUME TypeOK, AskInv, NEW g \in Guards, NEW t \in Txs, BroadcastRequest(g, t)
  PROVE  AskInv'
<1> USE DEF AskInv
<1>1. /\ g \in running /\ t \in mem[g].transactionQueue
      /\ Owner(now) = g /\ g \in ran /\ running = {g}
  BY DEF BroadcastRequest, QueueOfOwner
<1>2. /\ mem[g] \in Memory /\ \A h \in Guards \ {g} : mem'[h] = mem[h]
      /\ mem'[g].starting = {[tx |-> t, ts |-> now]}
      /\ mem'[g].counting = mem[g].counting
      /\ mem'[g].verifying = mem[g].verifying
      /\ mem'[g].approvedTransactions = mem[g].approvedTransactions
      /\ mem'[g].transactions = mem[g].transactions
      /\ mem'[g].transactionQueue = mem[g].transactionQueue \ {t}
      /\ mem'[g].pending = mem[g].pending
  BY DEF TypeOK, Memory, BroadcastRequest
<1>3. UNCHANGED <<now, table, timers>>
  BY DEF BroadcastRequest
<1>4. \A m \in msgs' : m \in msgs \/ (m.tx = t /\ m.ts = now)
  BY DEF BroadcastRequest, Sends
<1>5. \A u \in Txs, s \in Time : Asked(u, s)' => Asked(u, s) \/ (u = t /\ s = now)
  BY <1>2, <1>4 DEF Asked, AskedBy
<1>6. \A u \in Txs : AskedNow(u)' => AskedNow(u) \/ u = t
  BY <1>3, <1>5 DEF AskedNow, Turn
<1>7. AskedAfterJob'
  BY <1>1, <1>3, <1>5 DEF AskedAfterJob, Turn, Owner, timers, Time, TypeOK
<1>8. \A u \in Txs : AskedNow(u) /\ SameEvent(t, u) => t = u
  BY <1>1 DEF OneTxChosen, Chosen
<1>9. OneTxAsked'
  <2>1. \A u \in Txs, s \in Time :
          Asked(u, s) /\ SameEvent(t, u) /\ Turn(s) = Turn(now) => t = u
    BY <1>8 DEF AskedNow
  <2>2. QED
    BY <1>5, <2>1 DEF OneTxAsked, Turn, SameEvent
<1>10. OneValidRow'
  BY <1>3 DEF OneValidRow
<1>11. QueueOfOwner'
  <2>1. InGap(now)' = InGap(now) /\ Owner(now)' = Owner(now)
    BY <1>3 DEF InGap, guardTurnAt, Owner, Turn
  <2>2. QED
    BY <1>1, <1>2, <1>3, <2>1 DEF QueueOfOwner, timers
<1>12. OneTxChosen'
  <2>1. \A u \in Txs : Chosen(g, u)' => Chosen(g, u)
    BY <1>1, <1>2, <1>6 DEF Chosen
  <2>2. running' = {g}
    BY <1>1, <1>3 DEF timers
  <2>3. QED
    BY <1>1, <1>2, <2>1, <2>2 DEF OneTxChosen, SameEvent
<1>13. QED
  BY <1>7, <1>9, <1>10, <1>11, <1>12

-----------------------------------------------------------------------------
(* The clock, and the theorem *)

\* A turn begins without queues, and nothing is requested in it yet.
LEMMA TickAsks ==
  ASSUME TypeOK, AskInv, Tick PROVE AskInv'
<1> USE DEF AskInv
<1>1. /\ now \in Nat /\ now' = now + 1 /\ msgs' \subseteq msgs
      /\ UNCHANGED <<mem, table>>
  BY DEF TypeOK, Time, Tick
<1>2. AskedShrinks
  BY <1>1 DEF AskedShrinks, Asked, AskedBy
<1>3. OneTxAsked' /\ OneValidRow'
  BY <1>1, <1>2 DEF OneTxAsked, OneValidRow, AskedShrinks, Turn, SameEvent
<1>4. InGap(now)' = InGap(now + 1) /\ Turn(now)' = Turn(now + 1)
      /\ Owner(now)' = Owner(now + 1)
  BY <1>1 DEF InGap, guardTurnAt, Turn, Owner
<1>5. CASE Turn(now + 1) = Turn(now) /\ ~(InGap(now) /\ ~InGap(now + 1))
  <2>1. UNCHANGED <<ran, running, clearDue>> /\ Owner(now + 1) = Owner(now)
    BY <1>5 DEF Tick, timers, Owner
  <2>2. AskedAfterJob'
    BY <1>1, <1>2, <1>4, <1>5, <2>1 DEF AskedAfterJob, AskedShrinks, Turn, Time
  <2>3. QueueOfOwner'
    BY <1>1, <1>4, <1>5, <2>1 DEF QueueOfOwner
  <2>4. \A t \in Txs : AskedNow(t)' => AskedNow(t)
    BY <1>2, <1>4, <1>5 DEF AskedNow, AskedShrinks, Turn
  <2>5. OneTxChosen'
    BY <1>1, <2>1, <2>4 DEF OneTxChosen, Chosen, SameEvent
  <2>6. QED
    BY <1>3, <2>2, <2>3, <2>5
<1>6. CASE Turn(now + 1) = Turn(now) + 1 /\ InGap(now) /\ ~InGap(now + 1)
  <2>1. ran' = {} /\ running' = {} /\ clearDue' = {} /\ clearDue = {}
    BY <1>6 DEF Tick, timers
  <2>2. \A s \in Time : s <= now => Turn(s) # Turn(now + 1)
    <3> SUFFICES ASSUME NEW s \in Time, s <= now, Turn(s) = Turn(now) + 1 PROVE FALSE
      BY <1>6
    <3> DEFINE T == TURNS_LENGTH
               a == Turn(now)
               p == now % T
               r == s % T
    <3>1. /\ s \in Nat /\ T \in Nat \ {0}
          /\ a \in Nat /\ p \in 0 .. T - 1 /\ now = T * a + p
          /\ r \in 0 .. T - 1 /\ s = T * (a + 1) + r
      BY <1>1, TurnAt, Lengths DEF Time
    <3> HIDE DEF T, a, p, r
    <3>2. T * (a + 1) = T * a + T /\ T * a \in Nat
      BY <3>1
    <3>3. QED
      BY <3>1, <3>2
  <2>3. AskedAfterJob'
    BY <1>1, <1>2, <1>4, <2>2 DEF AskedAfterJob, AskedShrinks, Turn, Time
  <2>4. QueueOfOwner'
    BY <1>1, <2>1 DEF QueueOfOwner
  <2>5. OneTxChosen'
    BY <2>1 DEF OneTxChosen
  <2>6. QED
    BY <1>3, <2>3, <2>4, <2>5
<1>7. QED
  BY <1>1, <1>5, <1>6, NextTurn

LEMMA InitAsks == Init => AskInv
<1> SUFFICES ASSUME Init PROVE AskInv
  OBVIOUS
<1>1. \A g \in Guards : mem[g] = EmptyMemory
  BY DEF Init
<1>2. \A t \in Txs, s \in Time : ~Asked(t, s)
  BY <1>1 DEF Init, Asked, AskedBy, EmptyMemory, Time, NoTime
<1>3. QueueOfOwner
  BY <1>1 DEF Init, QueueOfOwner, EmptyMemory
<1>4. OneTxChosen /\ OneValidRow
  BY DEF Init, OneTxChosen, OneValidRow
<1>5. QED
  BY <1>2, <1>3, <1>4 DEF AskInv, AskedAfterJob, OneTxAsked

LEMMA StepAsks ==
  ASSUME TypeOK, AskInv, [Next]_vars PROVE AskInv'
<1>1. CASE UNCHANGED vars
  <2>1. AskedShrinks
    BY <1>1 DEF vars, AskedShrinks, Asked, AskedBy
  <2>2. QED
    BY <1>1, <2>1, HandlerStep DEF vars
<1>2. ASSUME NEW g \in Guards,
             \/ ResetJob(g) \/ ClearTransactions(g) \/ ConfirmedEventsJob(g)
             \/ ResendTransactionRequests(g) \/ ResendApprovalMessages(g)
             \/ Restart(g)
      PROVE  AskInv'
  BY <1>2, GapAsks, JobAsks, ResendAsks
<1>3. ASSUME NEW g \in Guards, NEW t \in Txs,
             \/ AddTransactionToQueue(g, t) \/ BroadcastRequest(g, t)
             \/ AdvanceTx(g, t) \/ GiveUpTx(g, t)
      PROVE  AskInv'
  BY <1>3, CreatedAsks, BroadcastAsks, TableAsks
<1>4. ASSUME NEW g \in Guards,
             \/ \E c \in mem[g].starting : StartAgreement(g, c)
             \/ \E c \in mem[g].counting : CountApprovals(g, c)
             \/ \E a \in mem[g].approving : SetTxAsApproved(g, a)
             \/ \E m \in mem[g].verifying : Agree(g, m) \/ Disagree(g, m)
      PROVE  AskInv'
  BY <1>4, StartAsks, CountAsks, TableAsks, AgreeAsks
<1>5. ASSUME NEW g \in Guards, NEW m \in msgs,
             \/ ProcessTransactionRequest(g, m)
             \/ ProcessAgreementResponse(g, m)
             \/ ProcessApprovalMessage(g, m)
      PROVE  AskInv'
  BY <1>5, VerifyAsks, ResponseAsks, ApprovalAsks DEF ProcessTransactionRequest
<1>6. QED
  BY <1>1, <1>2, <1>3, <1>4, <1>5, TickAsks DEF Next

\* In a turn one guard requests one tx of an event, whatever is resent, repeated,
\* late or forgotten by a restart.
THEOREM AskInvariant == Spec => []AskInv
<1>1. QED
  BY InitAsks, StepAsks, AgreementTypeCorrect, PTL DEF Spec

\* In one turn the guards approve at most one tx of an event, for any number of
\* guards and of turns.
THEOREM OneApprovalPerTurnAlways == Spec => []OneApprovalPerTurn
<1>1. TypeOK /\ AskInv => OneApprovalPerTurn
  <2> SUFFICES ASSUME TypeOK, AskInv, NEW m \in msgs, NEW n \in msgs,
                      SameEvent(m.tx, n.tx), Turn(m.ts) = Turn(n.ts)
               PROVE  m.tx = n.tx
    BY DEF OneApprovalPerTurn, Turn
  <2>1. m.tx \in Txs /\ m.ts \in Time /\ n.tx \in Txs /\ n.ts \in Time
    BY MessageFields DEF TypeOK
  <2>2. Asked(m.tx, m.ts) /\ Asked(n.tx, n.ts)
    BY DEF Asked
  <2>3. QED
    BY <2>1, <2>2 DEF AskInv, OneTxAsked
<1>2. QED
  BY <1>1, AskInvariant, AgreementTypeCorrect, PTL

=============================================================================
