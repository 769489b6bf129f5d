----------------------------- MODULE DialerProofs -----------------------------
(***************************************************************************)
(* Theorems about Dialer, for any peers, any subscribers, any number of    *)
(* retries and any bounds.  A copy of a message, for one peer, is at one   *)
(* place at a time: the queue, the loop, a timer, a stream, or it arrived. *)
(* So it is handed to a callback once, and the dialer is a lossy channel.  *)
(* A copy that was never retried is behind whatever was sent before it, at *)
(* each place and from each place to the next.                             *)
(***************************************************************************)
EXTENDS Dialer, SequenceTheorems, FiniteSetTheorems, TLAPS

-----------------------------------------------------------------------------
(* The invariant *)

CopiesOf(S) == {Copy(m) : m \in S}

\* The message the loop waits with.
InFront == {opening} \ {NoMessage}

\* What a stream holds, nothing when it was not opened yet.
Wire(s) == IF s \in Opened THEN wire[s] ELSE <<>>

ReceivedCopies ==
  UNION {{[id |-> h.id, peer |-> p] : h \in Range(handled[p])} : p \in Peers}

\* The places a copy may be at; the others are the streams
AtQueue == -3
AtLoop == -2
AtTimer == -1
AtPeer == 0
Places == AtQueue .. MaxStreams

At(k) ==
  IF k = AtQueue THEN CopiesOf(Range(queue))
  ELSE IF k = AtLoop THEN CopiesOf(InFront)
  ELSE IF k = AtTimer THEN CopiesOf(timers)
  ELSE IF k = AtPeer THEN ReceivedCopies
  ELSE CopiesOf(Range(Wire(k)))

OnePlace == \A k, l \in Places : k # l => At(k) \cap At(l) = {}

SentBefore == \A k \in Places : \A c \in At(k) : c.id <= sent

Distinct(seq) ==
  \A i, j \in DOMAIN seq : Copy(seq[i]) = Copy(seq[j]) => i = j

OnceAtPlace ==
  /\ Distinct(queue)
  /\ \A m, n \in timers : Copy(m) = Copy(n) => m = n
  /\ \A s \in Streams : Distinct(Wire(s))

SubscribedOnce ==
  \A p \in Peers : \A i, j \in DOMAIN subscribed[p] :
    subscribed[p][i] = subscribed[p][j] => i = j

StreamsNumbered == \E n \in 0 .. MaxStreams : Opened = 1 .. n

\* n was not sent before m, unless it had to be retried.
NotLater(m, n) == n.retriesCount = 0 => m.id <= n.id

InOrder(seq) ==
  \A i, j \in DOMAIN seq : i < j => NotLater(seq[i], seq[j])

\* The order from the queue to the loop, to the streams, to the peers.
Ordered ==
  /\ InOrder(queue)
  /\ \A m \in InFront : \A n \in Range(queue) : NotLater(m, n)
  /\ \A s \in Streams :
       /\ InOrder(Wire(s))
       /\ \A m \in Range(Wire(s)) : \A n \in Range(queue) \cup InFront : NotLater(m, n)
  /\ \A p \in Peers : \A h \in Range(handled[p]) :
       \A n \in Range(queue) \cup InFront \cup Range(Wire(h.stream)) : NotLater(h, n)
  /\ \A m \in timers : m.retriesCount > 0

DialInv ==
  /\ TypeOK
  /\ StreamsNumbered
  /\ OnePlace /\ SentBefore /\ OnceAtPlace
  /\ SubscribedOnce /\ HandledOnce
  /\ Ordered /\ OvertakesOnlyOnRetry

-----------------------------------------------------------------------------
(* Sequences *)

LEMMA TailOf ==
  ASSUME NEW S, NEW seq \in Seq(S), seq # <<>>
  PROVE  /\ Tail(seq) \in Seq(S) /\ Head(seq) = seq[1] /\ 1 \in DOMAIN seq
         /\ seq[1] \in S
         /\ \A i \in DOMAIN Tail(seq) :
              /\ i + 1 \in DOMAIN seq /\ Tail(seq)[i] = seq[i + 1]
              /\ i \in Nat /\ i + 1 # 1
         /\ Range(seq) = {seq[1]} \cup Range(Tail(seq))
         /\ RemoveAt(seq, 1) = Tail(seq)
<1>1. /\ Len(seq) \in Nat \ {0} /\ DOMAIN seq = 1 .. Len(seq)
  BY EmptySeq, LenProperties
<1>2. /\ Tail(seq) \in Seq(S) /\ Len(Tail(seq)) = Len(seq) - 1
      /\ \A i \in 1 .. Len(Tail(seq)) : Tail(seq)[i] = seq[i + 1]
  BY HeadTailProperties
<1>3. DOMAIN Tail(seq) = 1 .. Len(seq) - 1
  BY <1>2, LenProperties
<1>4. Head(seq) = seq[1] /\ seq[1] \in S
  BY <1>1, ElementOfSeq, HeadTailProperties
<1>5. \A i \in DOMAIN Tail(seq) :
        /\ i + 1 \in DOMAIN seq /\ Tail(seq)[i] = seq[i + 1]
        /\ i \in Nat /\ i + 1 # 1
  BY <1>1, <1>2, <1>3
<1>6. Range(seq) = {seq[1]} \cup Range(Tail(seq))
  <2>1. ASSUME NEW i \in DOMAIN seq, i # 1 PROVE seq[i] \in Range(Tail(seq))
    <3>1. i - 1 \in DOMAIN Tail(seq) /\ Tail(seq)[i - 1] = seq[(i - 1) + 1]
      BY <1>1, <1>2, <1>3, <2>1
    <3>2. (i - 1) + 1 = i
      BY <1>1
    <3>3. QED
      BY <3>1, <3>2 DEF Range
  <2>2. QED
    BY SMTT(20), <1>1, <1>5, <2>1 DEF Range
<1>7. RemoveAt(seq, 1) = Tail(seq)
  <2>1. SubSeq(seq, 1, 1 - 1) = <<>>
    BY SubSeqEmpty
  <2>2. SubSeq(seq, 1 + 1, Len(seq)) = Tail(seq)
    BY TailIsSubSeq
  <2>3. QED
    BY <1>2, <2>1, <2>2, ConcatEmptySeq DEF RemoveAt
<1>8. QED
  BY <1>1, <1>2, <1>4, <1>5, <1>6, <1>7

LEMMA ConcatOf ==
  ASSUME NEW S, NEW s \in Seq(S), NEW t \in Seq(S)
  PROVE  /\ s \o t \in Seq(S)
         /\ Range(s \o t) = Range(s) \cup Range(t)
         /\ \A i \in DOMAIN (s \o t) :
              \/ i \in DOMAIN s /\ (s \o t)[i] = s[i]
              \/ /\ i - Len(s) \in DOMAIN t /\ i > Len(s)
                 /\ (s \o t)[i] = t[i - Len(s)]
         /\ Len(s) \in Nat /\ DOMAIN s = 1 .. Len(s)
         /\ DOMAIN (s \o t) \subseteq Nat
<1>1. /\ s \o t \in Seq(S) /\ Len(s \o t) = Len(s) + Len(t)
      /\ \A i \in 1 .. Len(s) + Len(t) : (s \o t)[i] =
           IF i <= Len(s) THEN s[i] ELSE t[i - Len(s)]
  BY ConcatProperties
<1>2. /\ Len(s) \in Nat /\ DOMAIN s = 1 .. Len(s)
      /\ Len(t) \in Nat /\ DOMAIN t = 1 .. Len(t)
  BY LenProperties
<1>3. DOMAIN (s \o t) = 1 .. Len(s) + Len(t)
  BY <1>1, LenProperties
<1>4. \A i \in DOMAIN (s \o t) :
        \/ i \in DOMAIN s /\ (s \o t)[i] = s[i]
        \/ /\ i - Len(s) \in DOMAIN t /\ i > Len(s)
           /\ (s \o t)[i] = t[i - Len(s)]
  BY <1>1, <1>2, <1>3
<1>5. Range(s \o t) = Range(s) \cup Range(t)
  BY RangeConcatenation
<1>6. QED
  BY <1>1, <1>2, <1>3, <1>4, <1>5

\* To give a message to a stream, or to the queue.
LEMMA AppendOf ==
  ASSUME NEW S, NEW s \in Seq(S), NEW e \in S
  PROVE  /\ s \o <<e>> \in Seq(S) /\ Append(s, e) = s \o <<e>>
         /\ Range(s \o <<e>>) = Range(s) \cup {e}
         /\ Distinct(s) /\ Copy(e) \notin CopiesOf(Range(s)) => Distinct(s \o <<e>>)
         /\ InOrder(s) /\ (\A m \in Range(s) : NotLater(m, e)) => InOrder(s \o <<e>>)
<1> DEFINE t == <<e>>
<1>1. t \in Seq(S) /\ DOMAIN t = {1} /\ t[1] = e /\ Range(t) = {e}
  BY DEF Range
<1>2. Append(s, e) = s \o t
  BY AppendIsConcat
<1> HIDE DEF t
<1>3. /\ s \o t \in Seq(S)
      /\ Range(s \o t) = Range(s) \cup {e}
      /\ \A i \in DOMAIN (s \o t) :
           \/ i \in DOMAIN s /\ (s \o t)[i] = s[i] /\ i <= Len(s)
           \/ i - Len(s) = 1 /\ (s \o t)[i] = e
      /\ Len(s) \in Nat /\ DOMAIN (s \o t) \subseteq Nat
  BY <1>1, ConcatOf
<1>4. \A i \in DOMAIN s : s[i] \in Range(s) /\ Copy(s[i]) \in CopiesOf(Range(s))
  BY DEF Range, CopiesOf
<1>5. ASSUME Distinct(s), Copy(e) \notin CopiesOf(Range(s)) PROVE Distinct(s \o t)
  BY <1>3, <1>4, <1>5 DEF Distinct
<1>6. ASSUME InOrder(s), \A m \in Range(s) : NotLater(m, e) PROVE InOrder(s \o t)
  BY <1>3, <1>4, <1>6 DEF InOrder
<1>7. QED
  BY <1>2, <1>3, <1>5, <1>6 DEF t

\* To take the first of a sequence.
LEMMA FirstTaken ==
  ASSUME NEW S, NEW s \in Seq(S), s # <<>>
  PROVE  /\ Distinct(s) => /\ Distinct(Tail(s))
                           /\ CopiesOf(Range(Tail(s))) = CopiesOf(Range(s)) \ {Copy(s[1])}
         /\ InOrder(s) => /\ InOrder(Tail(s))
                          /\ \A n \in Range(Tail(s)) : NotLater(s[1], n)
<1>1. /\ 1 \in DOMAIN s
      /\ \A i \in DOMAIN Tail(s) :
           /\ i + 1 \in DOMAIN s /\ Tail(s)[i] = s[i + 1]
           /\ i \in Nat /\ i + 1 # 1
      /\ Range(s) = {s[1]} \cup Range(Tail(s))
  BY TailOf
<1>2. ASSUME Distinct(s)
      PROVE  /\ Distinct(Tail(s))
             /\ CopiesOf(Range(Tail(s))) = CopiesOf(Range(s)) \ {Copy(s[1])}
  <2>1. Distinct(Tail(s))
    BY <1>1, <1>2 DEF Distinct
  <2>2. \A n \in Range(Tail(s)) : Copy(n) # Copy(s[1])
    BY <1>1, <1>2 DEF Distinct, Range
  <2>3. QED
    BY <1>1, <2>1, <2>2 DEF CopiesOf
<1>3. ASSUME InOrder(s)
      PROVE  /\ InOrder(Tail(s))
             /\ \A n \in Range(Tail(s)) : NotLater(s[1], n)
  <2>1. InOrder(Tail(s))
    BY <1>1, <1>3 DEF InOrder
  <2>2. \A i \in DOMAIN Tail(s) : 1 < i + 1
    BY <1>1
  <2>3. QED
    BY <1>1, <1>3, <2>1, <2>2 DEF InOrder, Range
<1>4. QED
  BY <1>2, <1>3
-----------------------------------------------------------------------------
(* Copies at one place *)

LEMMA Constants ==
  /\ messageSendingRetriesMaxCount \in Nat /\ MaxMessages \in Nat
  /\ MaxStreams \in Nat /\ MaxSubscribed \in Nat
  /\ IsFiniteSet(Peers) /\ IsFiniteSet(Subscribers)
BY DialerAssumption

LEMMA PlacesAre ==
  /\ AtQueue \in Places /\ AtLoop \in Places /\ AtTimer \in Places /\ AtPeer \in Places
  /\ Streams \subseteq Places
  /\ \A k \in Places : \/ k \in {AtQueue, AtLoop, AtTimer, AtPeer}
                       \/ k \in Streams
  /\ {AtQueue, AtLoop, AtTimer, AtPeer} \cap Streams = {}
  /\ AtQueue # AtLoop /\ AtQueue # AtTimer /\ AtQueue # AtPeer
  /\ AtLoop # AtTimer /\ AtLoop # AtPeer /\ AtTimer # AtPeer
BY Constants DEF AtQueue, AtLoop, AtTimer, AtPeer, Places, Streams

LEMMA AtPlaces ==
  /\ At(AtQueue) = CopiesOf(Range(queue))
  /\ At(AtLoop) = CopiesOf(InFront)
  /\ At(AtTimer) = CopiesOf(timers)
  /\ At(AtPeer) = ReceivedCopies
  /\ \A s \in Streams : At(s) = CopiesOf(Range(Wire(s)))
BY PlacesAre DEF At

LEMMA NextAtPlaces ==
  /\ At(AtQueue)' = CopiesOf(Range(queue'))
  /\ At(AtLoop)' = CopiesOf(InFront')
  /\ At(AtTimer)' = CopiesOf(timers')
  /\ At(AtPeer)' = ReceivedCopies'
  /\ \A s \in Streams : At(s)' = CopiesOf(Range(Wire(s)'))
BY PlacesAre DEF At, CopiesOf

\* Copies come to one place, and are at no other then; the others may lose some.
LEMMA Moved ==
  ASSUME OnePlace, SentBefore, NEW S, NEW to \in Places,
         \A k \in Places \ {to} : At(k)' \subseteq At(k) \ S,
         At(to)' \subseteq At(to) \cup S,
         sent \in Nat, sent' \in Nat, sent <= sent',
         \A k \in Places : \A c \in At(k) : c.id \in Nat,
         \A c \in S : c.id \in Nat /\ c.id <= sent'
  PROVE  OnePlace' /\ SentBefore'
<1>1. OnePlace'
  <2>1. ASSUME NEW k \in Places, NEW l \in Places, k # l
        PROVE  At(k)' \cap At(l)' = {}
    <3>1. At(k) \cap At(l) = {}
      BY <2>1 DEF OnePlace
    <3>2. CASE k = to
      BY <2>1, <3>1, <3>2
    <3>3. CASE l = to
      BY <2>1, <3>1, <3>3
    <3>4. CASE k # to /\ l # to
      BY <3>1, <3>4
    <3>5. QED
      BY <3>2, <3>3, <3>4
  <2>2. QED
    BY <2>1 DEF OnePlace
<1>2. SentBefore'
  <2>1. ASSUME NEW k \in Places, NEW c \in At(k)' PROVE c.id <= sent'
    <3>1. c \in S \/ c \in At(k)
      BY <2>1
    <3>2. CASE c \in S
      BY <3>2
    <3>3. CASE c \in At(k)
      BY <3>3 DEF SentBefore
    <3>4. QED
      BY <3>1, <3>2, <3>3
  <2>2. QED
    BY <2>1 DEF SentBefore
<1>3. QED
  BY <1>1, <1>2

\* The types that the orders and the copies rest on.
LEMMA Typed ==
  ASSUME TypeOK
  PROVE  /\ \A m \in Messages : m.id \in Nat /\ m.peer \in Peers
         /\ NoMessage \notin Messages
         /\ Range(queue) \subseteq Messages /\ InFront \subseteq Messages
         /\ timers \subseteq Messages
         /\ \A s \in Streams : Wire(s) \in Seq(Messages) /\ Range(Wire(s)) \subseteq Messages
         /\ \A p \in Peers : Range(handled[p]) \subseteq Handled
         /\ \A k \in Places : \A c \in At(k) :
              c \in [id : 1 .. MaxMessages, peer : Peers] /\ c.id \in Nat
<1>1. /\ \A m \in Messages : /\ m.id \in Nat /\ m.peer \in Peers
                             /\ Copy(m) \in [id : 1 .. MaxMessages, peer : Peers]
      /\ NoMessage \notin Messages
  BY Constants DEF Messages, NoMessage, Copy
<1>2. Range(queue) \subseteq Messages /\ InFront \subseteq Messages /\ timers \subseteq Messages
  BY RangeOfSeq DEF TypeOK, InFront
<1>3. \A s \in Streams : Wire(s) \in Seq(Messages)
  BY EmptySeq DEF TypeOK, Wire
<1>4. \A s \in Streams : Range(Wire(s)) \subseteq Messages
  BY <1>3, RangeOfSeq
<1>5. \A p \in Peers : Range(handled[p]) \subseteq Handled
  BY RangeOfSeq DEF TypeOK
<1>6. \A c \in ReceivedCopies : c \in [id : 1 .. MaxMessages, peer : Peers]
  BY <1>5 DEF ReceivedCopies, Handled
<1>7. \A k \in Places : \A c \in At(k) : c \in [id : 1 .. MaxMessages, peer : Peers]
  BY <1>1, <1>2, <1>4, <1>6, PlacesAre, AtPlaces DEF CopiesOf
<1>8. QED
  BY <1>1, <1>2, <1>3, <1>4, <1>5, <1>7, Constants
-----------------------------------------------------------------------------
(* The steps *)

\* What the lossy channel has on its way, and what it does.
Outstanding ==
  {Copy(m) : m \in Range(queue) \cup timers \cup ({opening} \ {NoMessage})
                     \cup UNION {Range(wire[s]) : s \in Opened}}

ChannelStep == [Channel!ChannelNext]_<<Outstanding, ReceivedCopies>>

OutstandingAt ==
  Outstanding = At(AtQueue) \cup At(AtLoop) \cup At(AtTimer)
                  \cup UNION {At(s) : s \in Streams}

LEMMA OutstandingIsAt == TypeOK => OutstandingAt
<1> SUFFICES ASSUME TypeOK PROVE OutstandingAt
  OBVIOUS
<1>1. UNION {Range(wire[s]) : s \in Opened} = UNION {Range(Wire(s)) : s \in Streams}
  BY DEF TypeOK, Wire, Range
<1>2. Outstanding = CopiesOf(Range(queue)) \cup CopiesOf(timers) \cup CopiesOf(InFront)
                      \cup UNION {CopiesOf(Range(Wire(s))) : s \in Streams}
  BY <1>1 DEF Outstanding, CopiesOf, InFront
<1>3. QED
  BY <1>2, AtPlaces DEF OutstandingAt

LEMMA NextOutstandingIsAt ==
  ASSUME TypeOK'
  PROVE  Outstanding' = At(AtQueue)' \cup At(AtLoop)' \cup At(AtTimer)'
                          \cup UNION {At(s)' : s \in Streams}
<1>1. UNION {Range(wire'[s]) : s \in Opened'} = UNION {Range(Wire(s)') : s \in Streams}
  BY DEF TypeOK, Wire, Range
<1>2. Outstanding' = CopiesOf(Range(queue')) \cup CopiesOf(timers') \cup CopiesOf(InFront')
                      \cup UNION {CopiesOf(Range(Wire(s)')) : s \in Streams}
  BY <1>1 DEF Outstanding, CopiesOf, InFront
<1>3. QED
  BY <1>2, NextAtPlaces

\* The next message of the queue, or of the loop, may leave it.
Ready(m) ==
  /\ m \in Range(queue) \cup InFront
  /\ queue' \in Seq(Messages) /\ Range(queue') \subseteq Range(queue)
  /\ CopiesOf(Range(queue')) = CopiesOf(Range(queue)) \ {Copy(m)}
  /\ Distinct(queue') /\ InOrder(queue')
  /\ \A n \in Range(queue') : NotLater(m, n)

LEMMA TakenReady ==
  ASSUME DialInv, queue # <<>>, queue' = Tail(queue)
  PROVE  Ready(queue[1])
<1>1. queue \in Seq(Messages) /\ Distinct(queue) /\ InOrder(queue)
  BY DEF DialInv, TypeOK, OnceAtPlace, Ordered
<1>2. /\ Tail(queue) \in Seq(Messages)
      /\ Range(queue) = {queue[1]} \cup Range(Tail(queue))
  BY <1>1, TailOf
<1>3. QED
  BY <1>1, <1>2, FirstTaken DEF Ready

LEMMA OpenedReady ==
  ASSUME DialInv, opening # NoMessage, queue' = queue
  PROVE  Ready(opening)
<1>1. opening \in InFront /\ Copy(opening) \in CopiesOf(InFront)
  BY DEF InFront, CopiesOf
<1>2. At(AtQueue) \cap At(AtLoop) = {}
  BY PlacesAre DEF DialInv, OnePlace
<1>3. Copy(opening) \notin CopiesOf(Range(queue))
  BY <1>1, <1>2, AtPlaces
<1>4. QED
  BY <1>1, <1>3 DEF Ready, DialInv, TypeOK, OnceAtPlace, Ordered

\* What leaves the front of the dialer is there once, and nothing that left
\* before was sent later.
LEMMA ReadyFacts ==
  ASSUME DialInv, NEW m, Ready(m)
  PROVE  /\ m \in Messages /\ Copy(m) \in At(AtQueue) \cup At(AtLoop)
         /\ \A k \in Places \ {AtQueue, AtLoop} : Copy(m) \notin At(k)
         /\ At(AtQueue)' = At(AtQueue) \ {Copy(m)}
         /\ At(AtLoop) \subseteq {Copy(m)} \/ Copy(m) \notin At(AtLoop)
         /\ Copy(m).id <= sent /\ Copy(m).id \in Nat /\ sent \in Nat
         /\ \A s \in Streams : \A x \in Range(Wire(s)) : NotLater(x, m)
         /\ \A p \in Peers : \A h \in Range(handled[p]) : NotLater(h, m)
<1>1. m \in Messages
  BY Typed DEF Ready, DialInv
<1>2. Copy(m) \in At(AtQueue) \cup At(AtLoop)
  BY AtPlaces DEF Ready, CopiesOf
<1>3. \A k \in Places \ {AtQueue, AtLoop} : Copy(m) \notin At(k)
  BY <1>2, PlacesAre DEF DialInv, OnePlace
<1>4. At(AtQueue)' = At(AtQueue) \ {Copy(m)}
  BY AtPlaces, NextAtPlaces DEF Ready
<1>5. At(AtLoop) \subseteq {Copy(m)} \/ Copy(m) \notin At(AtLoop)
  BY AtPlaces DEF InFront, CopiesOf
<1>6. Copy(m).id <= sent
  BY <1>2, PlacesAre DEF DialInv, SentBefore
<1>7. Copy(m).id \in Nat /\ sent \in Nat
  BY <1>1, Typed, Constants DEF Copy, DialInv, TypeOK
<1>8. QED
  BY <1>1, <1>2, <1>3, <1>4, <1>5, <1>6, <1>7 DEF Ready, DialInv, Ordered

LEMMA GiveEffect ==
  ASSUME TypeOK, NEW m \in Messages, NEW stream \in Streams, Give(m, stream)
  PROVE  /\ Opened' = Opened \cup {stream}
         /\ Wire(stream)' = Wire(stream) \o <<m>>
         /\ \A s \in Streams \ {stream} : Wire(s)' = Wire(s)
         /\ \A s \in Opened' : wire'[s] \in Seq(Messages)
         /\ Opened' \subseteq Streams
         /\ routes' \in [Peers -> {NoStream} \cup Opened']
<1>1. wire' = [s \in Opened \cup {stream} |->
                 (IF s \in Opened THEN wire[s] ELSE <<>>)
                   \o (IF s = stream THEN <<m>> ELSE <<>>)]
  BY DEF Give
<1>2. Opened' = Opened \cup {stream}
  BY <1>1 DEF Opened
<1>3. \A s \in Streams : Wire(s) \in Seq(Messages)
  BY Typed
<1>4. Wire(stream)' = Wire(stream) \o <<m>>
  BY <1>1, <1>2 DEF Wire
<1>5. \A s \in Streams \ {stream} : Wire(s)' = Wire(s)
  <2>1. TAKE s \in Streams \ {stream}
  <2>2. CASE s \in Opened
    <3>1. wire'[s] = Wire(s) \o <<>>
      BY <1>1, <2>2 DEF Wire
    <3>2. Wire(s) \o <<>> = Wire(s)
      BY <1>3, ConcatEmptySeq
    <3>3. QED
      BY <1>2, <2>2, <3>1, <3>2 DEF Wire
  <2>3. CASE s \notin Opened
    BY <1>2, <2>3 DEF Wire
  <2>4. QED
    BY <2>2, <2>3
<1>6. \A s \in Opened' : wire'[s] \in Seq(Messages)
  <2>1. Wire(stream) \o <<m>> \in Seq(Messages)
    BY <1>3, AppendOf
  <2>2. \A s \in Opened' : Wire(s)' = wire'[s] /\ s \in Streams
    BY <1>2 DEF Wire, TypeOK
  <2>3. QED
    BY <1>3, <1>4, <1>5, <2>1, <2>2
<1>7. routes' \in [Peers -> {NoStream} \cup Opened']
  BY <1>2 DEF Give, TypeOK
<1>8. QED
  BY <1>2, <1>4, <1>5, <1>6, <1>7 DEF TypeOK

\* A message goes from the front of the dialer to the end of a stream.
LEMMA Given ==
  ASSUME DialInv, NEW m, Ready(m), NEW stream \in Streams, Give(m, stream),
         opening' = NoMessage, opening \in {m, NoMessage},
         link' \in [Peers -> {NoStream} \cup Opened'], StreamsNumbered',
         UNCHANGED <<sent, timers, subscribed, calls, handled>>
  PROVE  DialInv' /\ ChannelStep
<1> USE DEF DialInv
<1>1. /\ m \in Messages /\ Copy(m) \in At(AtQueue) \cup At(AtLoop)
      /\ \A k \in Places \ {AtQueue, AtLoop} : Copy(m) \notin At(k)
      /\ At(AtQueue)' = At(AtQueue) \ {Copy(m)}
      /\ Copy(m).id <= sent /\ Copy(m).id \in Nat /\ sent \in Nat
      /\ \A s \in Streams : \A x \in Range(Wire(s)) : NotLater(x, m)
      /\ \A p \in Peers : \A h \in Range(handled[p]) : NotLater(h, m)
  BY ReadyFacts
<1>2. /\ Opened' = Opened \cup {stream}
      /\ Wire(stream)' = Wire(stream) \o <<m>>
      /\ \A s \in Streams \ {stream} : Wire(s)' = Wire(s)
      /\ \A s \in Opened' : wire'[s] \in Seq(Messages)
      /\ Opened' \subseteq Streams
      /\ routes' \in [Peers -> {NoStream} \cup Opened']
  BY <1>1, GiveEffect
<1>3. /\ \A s \in Streams : Wire(s) \in Seq(Messages) /\ Distinct(Wire(s)) /\ InOrder(Wire(s))
      /\ Copy(m) \notin CopiesOf(Range(Wire(stream)))
  BY <1>1, Typed, AtPlaces, PlacesAre DEF OnceAtPlace, Ordered
<1>4. /\ Range(Wire(stream)') = Range(Wire(stream)) \cup {m}
      /\ Distinct(Wire(stream)') /\ InOrder(Wire(stream)')
  BY <1>1, <1>2, <1>3, AppendOf
<1>5. TypeOK'
  BY <1>2 DEF TypeOK, Ready
<1>6. /\ At(AtLoop)' = {} /\ At(AtLoop) \subseteq {Copy(m)}
      /\ At(AtTimer)' = At(AtTimer) /\ At(AtPeer)' = At(AtPeer)
      /\ At(stream)' = At(stream) \cup {Copy(m)}
      /\ \A s \in Streams \ {stream} : At(s)' = At(s)
  <2>1. At(AtLoop)' = {} /\ At(AtLoop) \subseteq {Copy(m)}
    BY AtPlaces, NextAtPlaces DEF InFront, CopiesOf
  <2>2. At(AtTimer)' = At(AtTimer)
    BY AtPlaces, NextAtPlaces
  <2>3. At(AtPeer)' = At(AtPeer)
    BY AtPlaces, NextAtPlaces DEF ReceivedCopies
  <2>4. At(stream)' = At(stream) \cup {Copy(m)}
    BY <1>4, AtPlaces, NextAtPlaces DEF CopiesOf
  <2>5. \A s \in Streams \ {stream} : At(s)' = At(s)
    BY <1>2, AtPlaces, NextAtPlaces
  <2>6. QED
    BY <2>1, <2>2, <2>3, <2>4, <2>5
<1>7. OnePlace' /\ SentBefore'
  <2>1. stream \in Places
    BY PlacesAre
  <2>2. \A k \in Places \ {stream} : At(k)' \subseteq At(k) \ {Copy(m)}
    BY <1>1, <1>6, PlacesAre
  <2>3. At(stream)' \subseteq At(stream) \cup {Copy(m)}
    BY <1>6
  <2>4. \A k \in Places : \A c \in At(k) : c.id \in Nat
    BY Typed
  <2>5. /\ sent' = sent /\ sent \in Nat /\ sent <= sent'
        /\ \A c \in {Copy(m)} : c.id \in Nat /\ c.id <= sent'
    BY <1>1
  <2>6. QED
    BY <2>1, <2>2, <2>3, <2>4, <2>5, Moved
<1>8. OnceAtPlace'
  BY <1>2, <1>3, <1>4 DEF OnceAtPlace, Ready
<1>9. Ordered'
  <2>1. InFront' = {}
    BY DEF InFront
  <2>2. \A s \in Streams : InOrder(Wire(s)')
    BY <1>2, <1>3, <1>4
  <2>3. ASSUME NEW s \in Streams, NEW x \in Range(Wire(s)'), NEW n \in Range(queue')
        PROVE  NotLater(x, n)
    <3>1. n \in Range(queue) /\ NotLater(m, n)
      BY DEF Ready
    <3>2. x = m \/ x \in Range(Wire(s))
      BY <1>2, <1>4
    <3>3. QED
      BY <3>1, <3>2 DEF Ordered
  <2>4. ASSUME NEW p \in Peers, NEW h \in Range(handled[p]),
               NEW n \in Range(queue') \cup Range(Wire(h.stream)')
        PROVE  NotLater(h, n)
    <3>1. h.stream \in Streams
      BY Typed DEF Handled
    <3>2. n \in Range(queue) \/ n = m \/ n \in Range(Wire(h.stream))
      BY <1>2, <1>4, <3>1 DEF Ready
    <3>3. QED
      BY <1>1, <3>2 DEF Ordered
  <2>5. QED
    BY <2>1, <2>2, <2>3, <2>4 DEF Ordered, Ready
<1>10. SubscribedOnce' /\ HandledOnce' /\ OvertakesOnlyOnRetry'
  BY DEF SubscribedOnce, HandledOnce, OvertakesOnlyOnRetry
<1>11. ChannelStep
  <2>1. OutstandingAt
    BY OutstandingIsAt
  <2>2. Outstanding' = Outstanding
    BY <1>1, <1>5, <1>6, <2>1, NextOutstandingIsAt DEF OutstandingAt
  <2>3. ReceivedCopies' = ReceivedCopies
    BY DEF ReceivedCopies
  <2>4. QED
    BY <2>2, <2>3 DEF ChannelStep
<1>12. QED
  BY <1>5, <1>7, <1>8, <1>9, <1>10, <1>11

\* The loop takes a message it has no stream for.
LEMMA Passed ==
  ASSUME DialInv, NEW m, Ready(m), opening = NoMessage, opening' = m,
         UNCHANGED <<sent, timers, link, routes, wire, subscribed, calls, handled>>
  PROVE  DialInv' /\ ChannelStep
<1> USE DEF DialInv
<1>1. /\ m \in Messages
      /\ \A k \in Places \ {AtQueue, AtLoop} : Copy(m) \notin At(k)
      /\ Copy(m) \in At(AtQueue) \cup At(AtLoop)
      /\ At(AtQueue)' = At(AtQueue) \ {Copy(m)}
      /\ Copy(m).id <= sent /\ Copy(m).id \in Nat /\ sent \in Nat
      /\ \A s \in Streams : \A x \in Range(Wire(s)) : NotLater(x, m)
      /\ \A p \in Peers : \A h \in Range(handled[p]) : NotLater(h, m)
  BY ReadyFacts
<1>2. /\ Opened' = Opened /\ \A s : Wire(s)' = Wire(s)
      /\ ReceivedCopies' = ReceivedCopies
  BY DEF Opened, Wire, ReceivedCopies
<1>3. InFront = {} /\ InFront' = {m}
  BY <1>1, Typed DEF InFront
<1>4. TypeOK' /\ StreamsNumbered'
  BY <1>1, <1>2 DEF TypeOK, Ready, StreamsNumbered
<1>5. /\ At(AtLoop) = {} /\ At(AtLoop)' = {Copy(m)}
      /\ At(AtTimer)' = At(AtTimer) /\ At(AtPeer)' = At(AtPeer)
      /\ \A s \in Streams : At(s)' = At(s)
  <2>1. At(AtLoop) = {} /\ At(AtLoop)' = {Copy(m)}
    BY <1>3, AtPlaces, NextAtPlaces DEF CopiesOf
  <2>2. /\ At(AtTimer)' = At(AtTimer) /\ At(AtPeer)' = At(AtPeer)
        /\ \A s \in Streams : At(s)' = At(s)
    BY <1>2, AtPlaces, NextAtPlaces
  <2>3. QED
    BY <2>1, <2>2
<1>6. OnePlace' /\ SentBefore'
  <2>1. \A k \in Places \ {AtLoop} : At(k)' \subseteq At(k) \ {Copy(m)}
    BY <1>1, <1>5, PlacesAre
  <2>2. At(AtLoop)' \subseteq At(AtLoop) \cup {Copy(m)}
    BY <1>5
  <2>3. \A k \in Places : \A c \in At(k) : c.id \in Nat
    BY Typed
  <2>4. /\ sent' = sent /\ sent \in Nat /\ sent <= sent'
        /\ \A c \in {Copy(m)} : c.id \in Nat /\ c.id <= sent'
    BY <1>1
  <2>5. QED
    BY <2>1, <2>2, <2>3, <2>4, PlacesAre, Moved
<1>7. OnceAtPlace'
  BY <1>2 DEF OnceAtPlace, Ready
<1>8. Ordered'
  <2>1. \A n \in Range(queue') \cup InFront' : n = m \/ n \in Range(queue)
    BY <1>3 DEF Ready
  <2>2. QED
    BY <1>1, <1>2, <1>3, <2>1 DEF Ordered, Ready
<1>9. SubscribedOnce' /\ HandledOnce' /\ OvertakesOnlyOnRetry'
  BY DEF SubscribedOnce, HandledOnce, OvertakesOnlyOnRetry
<1>10. ChannelStep
  <2>1. OutstandingAt
    BY OutstandingIsAt
  <2>2. Outstanding' = Outstanding
    BY <1>1, <1>4, <1>5, <2>1, NextOutstandingIsAt DEF OutstandingAt
  <2>3. QED
    BY <1>2, <2>2 DEF ChannelStep
<1>11. QED
  BY <1>4, <1>6, <1>7, <1>8, <1>9, <1>10

\* Copies that are lost where they are: the channel loses them.
LEMMA Dropped ==
  ASSUME DialInv, TypeOK', StreamsNumbered', SubscribedOnce',
         queue' \in {queue, <<>>}, InFront' \subseteq InFront, timers' \subseteq timers,
         \A s \in Streams : Wire(s)' \in {Wire(s), <<>>},
         UNCHANGED <<sent, handled>>
  PROVE  DialInv' /\ ChannelStep
<1> USE DEF DialInv
<1>1. /\ Range(<<>>) = {} /\ Distinct(<<>>) /\ InOrder(<<>>)
  BY DEF Range, Distinct, InOrder
<1>2. /\ Range(queue') \subseteq Range(queue)
      /\ \A s \in Streams : Range(Wire(s)') \subseteq Range(Wire(s))
      /\ ReceivedCopies' = ReceivedCopies
  BY <1>1 DEF ReceivedCopies
<1>3. \A k \in Places : At(k)' \subseteq At(k)
  <2>1. /\ At(AtQueue)' \subseteq At(AtQueue) /\ At(AtLoop)' \subseteq At(AtLoop)
        /\ At(AtTimer)' \subseteq At(AtTimer) /\ At(AtPeer)' = At(AtPeer)
    BY <1>2, AtPlaces, NextAtPlaces DEF CopiesOf
  <2>2. \A s \in Streams : At(s)' \subseteq At(s)
    BY <1>2, AtPlaces, NextAtPlaces DEF CopiesOf
  <2>3. QED
    BY <2>1, <2>2, PlacesAre
<1>4. OnePlace' /\ SentBefore'
  <2>1. \A k \in Places : \A c \in At(k) : c.id \in Nat
    BY Typed
  <2>2. sent \in Nat /\ sent' = sent /\ sent <= sent'
    BY Constants DEF TypeOK
  <2>3. QED
    BY <1>3, <2>1, <2>2, PlacesAre, Moved
<1>5. OnceAtPlace'
  BY <1>1 DEF OnceAtPlace
<1>6. Ordered'
  <2>1. \A p \in Peers : \A h \in Range(handled[p]) : h.stream \in Streams
    BY Typed DEF Handled
  <2>2. /\ InOrder(queue') /\ \A s \in Streams : InOrder(Wire(s)')
    BY <1>1 DEF Ordered
  <2>3. QED
    BY <1>2, <2>1, <2>2 DEF Ordered
<1>7. HandledOnce' /\ OvertakesOnlyOnRetry'
  BY DEF HandledOnce, OvertakesOnlyOnRetry
<1>8. ChannelStep
  <2>1. OutstandingAt
    BY OutstandingIsAt
  <2>2. Outstanding' \subseteq Outstanding
    BY <1>3, <2>1, NextOutstandingIsAt, PlacesAre DEF OutstandingAt
  <2>3. Outstanding \subseteq [id : 1 .. MaxMessages, peer : Peers]
    BY <2>1, Typed, PlacesAre DEF OutstandingAt
  <2>4. PICK S \in SUBSET [id : 1 .. MaxMessages, peer : Peers] :
          S \subseteq Outstanding /\ Outstanding' = Outstanding \ S
    <3>1. Outstanding' = Outstanding \ (Outstanding \ Outstanding')
      BY <2>2
    <3>2. QED
      BY <2>3, <3>1
  <2>5. Channel!Lose(S)
    BY <1>2, <2>4 DEF Channel!Lose, Outstanding, ReceivedCopies
  <2>6. QED
    BY <2>5 DEF ChannelStep, Channel!ChannelNext
<1>9. QED
  BY <1>4, <1>5, <1>6, <1>7, <1>8

\* A message that found no stream waits to be retried, or is given up.
LEMMA Failed ==
  ASSUME DialInv, OpenFails PROVE DialInv' /\ ChannelStep
<1> USE DEF DialInv
<1>1. /\ opening # NoMessage /\ opening \in Messages /\ opening' = NoMessage
      /\ UNCHANGED <<sent, queue, link, routes, wire, subscribed, calls, handled>>
  BY DEF OpenFails, TypeOK
<1>2. /\ Opened' = Opened /\ \A s : Wire(s)' = Wire(s)
      /\ InFront' = {} /\ InFront = {opening}
      /\ StreamsNumbered' /\ SubscribedOnce'
      /\ ReceivedCopies' = ReceivedCopies
  BY <1>1 DEF Opened, Wire, InFront, StreamsNumbered, SubscribedOnce, ReceivedCopies
<1>3. CASE UNCHANGED timers
  <2>1. TypeOK'
    BY <1>1, <1>2, <1>3 DEF TypeOK
  <2>2. QED
    BY <1>1, <1>2, <1>3, <2>1, Dropped
<1>4. CASE ~UNCHANGED timers
  <2>1. PICK m \in Messages : /\ timers' = timers \cup {m}
                              /\ Copy(m) = Copy(opening) /\ m.retriesCount > 0
    <3>1. /\ opening.retriesCount + 1 <= messageSendingRetriesMaxCount
          /\ timers' = timers \cup {[opening EXCEPT !.retriesCount = opening.retriesCount + 1]}
      BY <1>4 DEF OpenFails, retrySendingMessage
    <3>2. PICK m : m = [opening EXCEPT !.retriesCount = opening.retriesCount + 1]
      OBVIOUS
    <3>3. m \in Messages /\ Copy(m) = Copy(opening) /\ m.retriesCount > 0
      BY <1>1, <3>1, <3>2, Constants DEF Messages, Copy
    <3>4. QED
      BY <3>1, <3>2, <3>3
  <2>2. /\ Ready(opening)
        /\ \A k \in Places \ {AtQueue, AtLoop} : Copy(m) \notin At(k)
        /\ At(AtQueue)' = At(AtQueue) \ {Copy(m)}
        /\ Copy(m).id <= sent /\ Copy(m).id \in Nat /\ sent \in Nat
    BY <1>1, <2>1, OpenedReady, ReadyFacts
  <2>3. TypeOK'
    BY <1>1, <1>2, <2>1 DEF TypeOK
  <2>4. /\ At(AtQueue)' = At(AtQueue)
        /\ At(AtLoop) = {Copy(m)} /\ At(AtLoop)' = {}
        /\ At(AtTimer)' = At(AtTimer) \cup {Copy(m)} /\ At(AtPeer)' = At(AtPeer)
        /\ \A s \in Streams : At(s)' = At(s)
    <3>1. /\ At(AtQueue)' = At(AtQueue) /\ At(AtPeer)' = At(AtPeer)
          /\ \A s \in Streams : At(s)' = At(s)
      BY <1>1, <1>2, AtPlaces, NextAtPlaces
    <3>2. At(AtLoop) = {Copy(m)} /\ At(AtLoop)' = {}
      BY <1>2, <2>1, AtPlaces, NextAtPlaces DEF CopiesOf
    <3>3. At(AtTimer)' = At(AtTimer) \cup {Copy(m)}
      BY <2>1, AtPlaces, NextAtPlaces DEF CopiesOf
    <3>4. QED
      BY <3>1, <3>2, <3>3
  <2>5. OnePlace' /\ SentBefore'
    <3>1. \A k \in Places \ {AtTimer} : At(k)' \subseteq At(k) \ {Copy(m)}
      BY <2>2, <2>4, PlacesAre
    <3>2. At(AtTimer)' \subseteq At(AtTimer) \cup {Copy(m)}
      BY <2>4
    <3>3. \A k \in Places : \A c \in At(k) : c.id \in Nat
      BY Typed
    <3>4. /\ sent' = sent /\ sent <= sent'
          /\ \A c \in {Copy(m)} : c.id \in Nat /\ c.id <= sent'
      BY <1>1, <2>2
    <3>5. QED
      BY <2>2, <3>1, <3>2, <3>3, <3>4, PlacesAre, Moved
  <2>6. OnceAtPlace'
    <3>1. \A n \in timers : Copy(n) # Copy(m)
      BY <2>2, AtPlaces, PlacesAre DEF CopiesOf
    <3>2. \A n, o \in timers' : Copy(n) = Copy(o) => n = o
      BY <2>1, <3>1 DEF OnceAtPlace
    <3>3. QED
      BY <1>1, <1>2, <3>2 DEF OnceAtPlace
  <2>7. Ordered'
    BY <1>1, <1>2, <2>1 DEF Ordered
  <2>8. HandledOnce' /\ OvertakesOnlyOnRetry'
    BY <1>1 DEF HandledOnce, OvertakesOnlyOnRetry
  <2>9. ChannelStep
    <3>1. OutstandingAt
      BY OutstandingIsAt
    <3>2. Outstanding' = Outstanding
      BY <2>3, <2>4, <3>1, NextOutstandingIsAt DEF OutstandingAt
    <3>3. QED
      BY <1>2, <3>2 DEF ChannelStep
  <2>10. QED
    BY <1>2, <2>3, <2>5, <2>6, <2>7, <2>8, <2>9
<1>5. QED
  BY <1>3, <1>4

\* A message whose delay is over is queued again.
LEMMA Retried ==
  ASSUME DialInv, NEW m \in Messages, RetryTimer(m) PROVE DialInv' /\ ChannelStep
<1> USE DEF DialInv
<1>1. /\ m \in timers /\ timers' = timers \ {m} /\ queue' = Append(queue, m)
      /\ m.retriesCount > 0
      /\ UNCHANGED <<sent, opening, link, routes, wire, subscribed, calls, handled>>
  BY DEF RetryTimer, Ordered
<1>2. /\ Opened' = Opened /\ \A s : Wire(s)' = Wire(s)
      /\ InFront' = InFront
      /\ StreamsNumbered' /\ SubscribedOnce'
      /\ ReceivedCopies' = ReceivedCopies
  BY <1>1 DEF Opened, Wire, InFront, StreamsNumbered, SubscribedOnce, ReceivedCopies
<1>3. /\ Copy(m) \in At(AtTimer)
      /\ \A k \in Places \ {AtTimer} : Copy(m) \notin At(k)
  BY <1>1, AtPlaces, PlacesAre DEF CopiesOf, OnePlace
<1>4. /\ queue \in Seq(Messages) /\ Distinct(queue) /\ InOrder(queue)
      /\ Copy(m) \notin CopiesOf(Range(queue))
      /\ \A n \in Range(queue) : NotLater(n, m)
  BY <1>1, <1>3, AtPlaces, PlacesAre DEF TypeOK, OnceAtPlace, Ordered, NotLater
<1>5. /\ queue' \in Seq(Messages) /\ Range(queue') = Range(queue) \cup {m}
      /\ Distinct(queue') /\ InOrder(queue')
  <2>1. queue' = queue \o <<m>>
    BY <1>1, <1>4, AppendOf
  <2>2. /\ queue \o <<m>> \in Seq(Messages)
        /\ Range(queue \o <<m>>) = Range(queue) \cup {m}
        /\ Distinct(queue \o <<m>>) /\ InOrder(queue \o <<m>>)
    BY <1>4, AppendOf
  <2>3. QED
    BY <2>1, <2>2
<1>6. TypeOK'
  BY <1>1, <1>2, <1>5 DEF TypeOK
<1>7. /\ At(AtQueue)' = At(AtQueue) \cup {Copy(m)}
      /\ At(AtTimer)' = At(AtTimer) \ {Copy(m)}
      /\ At(AtLoop)' = At(AtLoop) /\ At(AtPeer)' = At(AtPeer)
      /\ \A s \in Streams : At(s)' = At(s)
  <2>1. At(AtQueue)' = At(AtQueue) \cup {Copy(m)}
    BY <1>5, AtPlaces, NextAtPlaces DEF CopiesOf
  <2>2. At(AtTimer)' = At(AtTimer) \ {Copy(m)}
    BY <1>1, AtPlaces, NextAtPlaces DEF CopiesOf, OnceAtPlace
  <2>3. /\ At(AtLoop)' = At(AtLoop) /\ At(AtPeer)' = At(AtPeer)
        /\ \A s \in Streams : At(s)' = At(s)
    BY <1>2, AtPlaces, NextAtPlaces
  <2>4. QED
    BY <2>1, <2>2, <2>3
<1>8. OnePlace' /\ SentBefore'
  <2>1. \A k \in Places \ {AtQueue} : At(k)' \subseteq At(k) \ {Copy(m)}
    BY <1>3, <1>7, PlacesAre
  <2>2. At(AtQueue)' \subseteq At(AtQueue) \cup {Copy(m)}
    BY <1>7
  <2>3. \A k \in Places : \A c \in At(k) : c.id \in Nat
    BY Typed
  <2>4. /\ sent' = sent /\ sent \in Nat /\ sent <= sent'
        /\ \A c \in {Copy(m)} : c.id \in Nat /\ c.id <= sent'
    BY <1>1, <1>3, <2>3, PlacesAre, Constants DEF SentBefore, TypeOK
  <2>5. QED
    BY <2>1, <2>2, <2>3, <2>4, PlacesAre, Moved
<1>9. OnceAtPlace'
  BY <1>1, <1>2, <1>5 DEF OnceAtPlace
<1>10. Ordered'
  <2>1. \A x : NotLater(x, m)
    BY <1>1 DEF NotLater
  <2>2. QED
    BY <1>1, <1>2, <1>5, <2>1 DEF Ordered
<1>11. HandledOnce' /\ OvertakesOnlyOnRetry'
  BY <1>1 DEF HandledOnce, OvertakesOnlyOnRetry
<1>12. ChannelStep
  <2>1. OutstandingAt
    BY OutstandingIsAt
  <2>2. Outstanding' = Outstanding
    BY <1>3, <1>6, <1>7, <2>1, NextOutstandingIsAt DEF OutstandingAt
  <2>3. QED
    BY <1>2, <2>2 DEF ChannelStep
<1>13. QED
  BY <1>2, <1>6, <1>8, <1>9, <1>10, <1>11, <1>12


LEMMA IdsSent ==
  ASSUME DialInv
  PROVE  /\ \A m \in Range(queue) \cup InFront : m.id <= sent
         /\ \A s \in Streams : \A m \in Range(Wire(s)) : m.id <= sent
         /\ \A p \in Peers : \A h \in Range(handled[p]) : h.id <= sent
<1>1. \A k \in Places : \A c \in At(k) : c.id <= sent
  BY DEF DialInv, SentBefore
<1>2. ASSUME NEW m \in Range(queue) \cup InFront PROVE m.id <= sent
  <2>1. Copy(m) \in At(AtQueue) \cup At(AtLoop)
    BY AtPlaces DEF CopiesOf
  <2>2. QED
    BY <1>1, <2>1, PlacesAre DEF Copy
<1>3. ASSUME NEW s \in Streams, NEW m \in Range(Wire(s)) PROVE m.id <= sent
  <2>1. Copy(m) \in At(s)
    BY AtPlaces DEF CopiesOf
  <2>2. QED
    BY <1>1, <2>1, PlacesAre DEF Copy
<1>4. ASSUME NEW p \in Peers, NEW h \in Range(handled[p]) PROVE h.id <= sent
  <2>1. [id |-> h.id, peer |-> p] \in At(AtPeer)
    BY AtPlaces DEF ReceivedCopies
  <2>2. QED
    BY <1>1, <2>1, PlacesAre
<1>5. QED
  BY <1>2, <1>3, <1>4

\* A message is sent: its copies are at the end of the queue.
LEMMA Sent ==
  ASSUME DialInv, NEW peers \in SUBSET Peers, pushMessageToMessageQueue(peers)
  PROVE  DialInv' /\ ChannelStep
<1> USE DEF DialInv
<1>1. /\ sent < MaxMessages /\ sent' = sent + 1 /\ sent \in Nat
      /\ sent + 1 \in 1 .. MaxMessages
      /\ UNCHANGED <<opening, timers, link, routes, wire, subscribed, calls, handled>>
  BY Constants DEF pushMessageToMessageQueue, TypeOK
<1>2. PICK order \in SetToSeqs(peers) :
        queue' = queue \o [i \in DOMAIN order |->
                   [id |-> sent + 1, peer |-> order[i], retriesCount |-> 0]]
  BY DEF pushMessageToMessageQueue
<1> DEFINE new == [i \in DOMAIN order |->
                     [id |-> sent + 1, peer |-> order[i], retriesCount |-> 0]]
           S == CopiesOf(Range(new))
<1>3. /\ \E n \in Nat : DOMAIN order = 1 .. n
      /\ \A i \in DOMAIN order : order[i] \in Peers
      /\ \A i, j \in DOMAIN order : order[i] = order[j] => i = j
  <2>1. Cardinality(peers) \in Nat
    BY Constants, FS_Subset, FS_CardinalityType
  <2>2. QED
    BY <1>2, <2>1 DEF SetToSeqs
<1>4. /\ new \in Seq(Messages)
      /\ \A i \in DOMAIN new : new[i].id = sent + 1 /\ new[i].retriesCount = 0
      /\ Distinct(new)
  <2>1. \A i \in DOMAIN new :
          /\ new[i] \in Messages
          /\ new[i].id = sent + 1 /\ new[i].retriesCount = 0 /\ new[i].peer = order[i]
    BY <1>1, <1>3, Constants DEF Messages
  <2>2. new \in Seq(Messages)
    <3>1. PICK n \in Nat : DOMAIN new = 1 .. n
      BY <1>3
    <3>2. new \in [1 .. n -> Messages]
      BY <2>1, <3>1
    <3>3. QED
      BY <3>2, SeqDef
  <2>3. Distinct(new)
    BY <1>3, <2>1 DEF Distinct, Copy
  <2>4. QED
    BY <2>1, <2>2, <2>3
<1>5. queue \in Seq(Messages) /\ queue' = queue \o new
  BY <1>2 DEF TypeOK
<1> HIDE DEF new
<1>6. /\ queue' \in Seq(Messages) /\ Range(queue') = Range(queue) \cup Range(new)
      /\ \A i \in DOMAIN queue' :
           \/ i \in DOMAIN queue /\ queue'[i] = queue[i]
           \/ /\ i - Len(queue) \in DOMAIN new /\ i > Len(queue)
              /\ queue'[i] = new[i - Len(queue)]
      /\ Len(queue) \in Nat /\ DOMAIN queue = 1 .. Len(queue) /\ DOMAIN queue' \subseteq Nat
  BY <1>4, <1>5, ConcatOf
<1>7. /\ \A m \in Range(new) : m.id = sent + 1 /\ m \in Messages
      /\ S \subseteq [id : 1 .. MaxMessages, peer : Peers]
      /\ \A c \in S : c.id = sent + 1
  <2>1. \A m \in Range(new) : m.id = sent + 1 /\ m \in Messages
    BY <1>4, RangeOfSeq DEF Range
  <2>2. \A m \in Messages : Copy(m) \in [id : 1 .. MaxMessages, peer : Peers]
    BY DEF Messages, Copy
  <2>3. \A m \in Range(new) : Copy(m).id = sent + 1
    BY <2>1 DEF Copy
  <2>4. QED
    BY <2>1, <2>2, <2>3 DEF CopiesOf
<1>8. /\ \A s : Wire(s)' = Wire(s)
      /\ Opened' = Opened /\ InFront' = InFront
      /\ StreamsNumbered' /\ SubscribedOnce'
      /\ ReceivedCopies' = ReceivedCopies
  BY <1>1 DEF Opened, Wire, InFront, StreamsNumbered, SubscribedOnce, ReceivedCopies
<1>9. TypeOK'
  BY <1>1, <1>6, <1>8 DEF TypeOK
<1>10. /\ At(AtQueue)' = At(AtQueue) \cup S
       /\ At(AtLoop)' = At(AtLoop) /\ At(AtTimer)' = At(AtTimer) /\ At(AtPeer)' = At(AtPeer)
       /\ \A s \in Streams : At(s)' = At(s)
  <2>1. At(AtQueue)' = At(AtQueue) \cup S
    BY <1>6, AtPlaces, NextAtPlaces DEF CopiesOf
  <2>2. /\ At(AtLoop)' = At(AtLoop) /\ At(AtTimer)' = At(AtTimer) /\ At(AtPeer)' = At(AtPeer)
        /\ \A s \in Streams : At(s)' = At(s)
    BY <1>1, <1>8, AtPlaces, NextAtPlaces
  <2>3. QED
    BY <2>1, <2>2
<1>11. \A k \in Places : At(k) \cap S = {}
  <2>1. ASSUME NEW k \in Places, NEW c \in At(k), c \in S PROVE FALSE
    <3>1. c.id = sent + 1 /\ c.id <= sent
      BY <1>7, <2>1 DEF SentBefore
    <3>2. QED
      BY <1>1, <3>1
  <2>2. QED
    BY <2>1
<1>12. OnePlace' /\ SentBefore'
  <2>1. \A k \in Places \ {AtQueue} : At(k)' \subseteq At(k) \ S
    BY <1>10, <1>11, PlacesAre
  <2>2. At(AtQueue)' \subseteq At(AtQueue) \cup S
    BY <1>10
  <2>3. \A k \in Places : \A c \in At(k) : c.id \in Nat
    BY Typed
  <2>4. /\ sent \in Nat /\ sent' \in Nat /\ sent <= sent'
        /\ \A c \in S : c.id \in Nat /\ c.id <= sent'
    BY <1>1, <1>7
  <2>5. QED
    BY <2>1, <2>2, <2>3, <2>4, PlacesAre, Moved
<1>13. OnceAtPlace'
  <2>1. \A i \in DOMAIN queue : Copy(queue[i]) \in At(AtQueue)
    BY AtPlaces DEF CopiesOf, Range
  <2>2. \A i \in DOMAIN new : Copy(new[i]) \in S
    BY DEF CopiesOf, Range
  <2>3. At(AtQueue) \cap S = {} /\ Distinct(queue) /\ Distinct(new)
    BY <1>4, <1>11, PlacesAre DEF OnceAtPlace
  <2>4. ASSUME NEW i \in DOMAIN queue', NEW j \in DOMAIN queue', Copy(queue'[i]) = Copy(queue'[j])
        PROVE  i = j
    <3>1. CASE i \in DOMAIN queue /\ queue'[i] = queue[i]
      BY <1>6, <2>1, <2>2, <2>3, <2>4, <3>1 DEF Distinct
    <3>2. CASE i - Len(queue) \in DOMAIN new /\ queue'[i] = new[i - Len(queue)]
      <4>1. j - Len(queue) \in DOMAIN new /\ queue'[j] = new[j - Len(queue)]
        BY <1>6, <2>1, <2>2, <2>3, <2>4, <3>2
      <4>2. i - Len(queue) = j - Len(queue)
        BY <2>3, <2>4, <3>2, <4>1 DEF Distinct
      <4>3. QED
        BY <1>6, <4>2
    <3>3. QED
      BY <1>6, <3>1, <3>2
  <2>5. Distinct(queue')
    BY <2>4 DEF Distinct
  <2>6. QED
    BY <1>1, <1>8, <2>5 DEF OnceAtPlace
<1>14. Ordered'
  <2>1. /\ \A m \in Range(queue) \cup InFront : m.id <= sent + 1
        /\ \A s \in Streams : \A m \in Range(Wire(s)) : m.id <= sent + 1
        /\ \A p \in Peers : \A h \in Range(handled[p]) : h.id <= sent + 1
    <3>1. \A m \in Range(queue) \cup InFront : m.id \in Nat
      BY Typed
    <3>2. \A s \in Streams : \A m \in Range(Wire(s)) : m.id \in Nat
      BY Typed
    <3>3. \A p \in Peers : \A h \in Range(handled[p]) : h.id \in Nat
      BY Typed DEF Handled
    <3>4. QED
      BY <1>1, <3>1, <3>2, <3>3, IdsSent
  <2>2. \A i \in DOMAIN queue : queue[i] \in Range(queue)
    BY DEF Range
  <2>3. ASSUME NEW i \in DOMAIN queue', NEW j \in DOMAIN queue', i < j
        PROVE  NotLater(queue'[i], queue'[j])
    <3>1. CASE j \in DOMAIN queue /\ queue'[j] = queue[j]
      <4>1. i \in DOMAIN queue /\ queue'[i] = queue[i]
        BY <1>6, <2>3, <3>1
      <4>2. QED
        BY <2>3, <3>1, <4>1 DEF Ordered, InOrder
    <3>2. CASE j - Len(queue) \in DOMAIN new /\ queue'[j] = new[j - Len(queue)]
      <4>1. queue'[j].id = sent + 1
        BY <1>4, <3>2
      <4>2. queue'[i].id <= sent + 1
        BY <1>1, <1>4, <1>6, <2>1, <2>2
      <4>3. QED
        BY <4>1, <4>2 DEF NotLater
    <3>3. QED
      BY <1>6, <3>1, <3>2
  <2>4. \A n \in Range(queue') : n \in Range(queue) \/ n.id = sent + 1
    BY <1>6, <1>7
  <2>5. \A m \in InFront : \A n \in Range(queue') : NotLater(m, n)
    BY <2>1, <2>4 DEF Ordered, NotLater
  <2>6. \A s \in Streams : \A m \in Range(Wire(s)) : \A n \in Range(queue') : NotLater(m, n)
    BY <2>1, <2>4 DEF Ordered, NotLater
  <2>7. \A p \in Peers : \A h \in Range(handled[p]) : \A n \in Range(queue') : NotLater(h, n)
    BY <2>1, <2>4 DEF Ordered, NotLater
  <2>8. InOrder(queue')
    BY <2>3 DEF InOrder
  <2>9. QED
    BY <1>1, <1>8, <2>5, <2>6, <2>7, <2>8 DEF Ordered
<1>15. HandledOnce' /\ OvertakesOnlyOnRetry'
  BY <1>1 DEF HandledOnce, OvertakesOnlyOnRetry
<1>16. ChannelStep
  <2>1. OutstandingAt
    BY OutstandingIsAt
  <2>2. Outstanding' = Outstanding \cup S
    BY <1>9, <1>10, <2>1, NextOutstandingIsAt DEF OutstandingAt
  <2>3. S \cap (Outstanding \cup ReceivedCopies) = {}
    BY <1>11, <2>1, AtPlaces, PlacesAre DEF OutstandingAt
  <2>4. Channel!Send(S)
    BY <1>7, <1>8, <2>2, <2>3 DEF Channel!Send, Outstanding, ReceivedCopies
  <2>5. QED
    BY <1>7, <2>4 DEF ChannelStep, Channel!ChannelNext
<1>17. QED
  BY <1>8, <1>9, <1>12, <1>13, <1>14, <1>15, <1>16

\* The loop takes the first message of the queue.
LEMMA TakenStep ==
  ASSUME DialInv, TakeMessage PROVE DialInv' /\ ChannelStep
<1>1. /\ 1 \in DOMAIN queue /\ queue # <<>> /\ queue' = RemoveAt(queue, 1)
      /\ opening = NoMessage
      /\ IF link[queue[1].peer] # NoStream
         THEN Give(queue[1], link[queue[1].peer]) /\ UNCHANGED opening
         ELSE opening' = queue[1] /\ UNCHANGED <<routes, wire>>
      /\ UNCHANGED <<sent, timers, link, subscribed, calls, handled>>
  BY DEF TakeMessage, FirstInQueue
<1>2. queue' = Tail(queue) /\ queue[1] \in Messages
  BY <1>1, TailOf DEF DialInv, TypeOK
<1>3. Ready(queue[1])
  BY <1>1, <1>2, TakenReady
<1>4. CASE link[queue[1].peer] # NoStream
  <2> DEFINE stream == link[queue[1].peer]
  <2>1. queue[1].peer \in Peers
    BY <1>2, Typed DEF DialInv
  <2>2. stream \in Opened /\ stream \in Streams
    BY <1>4, <2>1 DEF DialInv, TypeOK
  <2>3. Give(queue[1], stream) /\ opening' = NoMessage
    BY <1>1, <1>4
  <2> HIDE DEF stream
  <2>4. Opened' = Opened
    <3>1. TypeOK
      BY DEF DialInv
    <3>2. Opened' = Opened \cup {stream}
      BY <1>2, <2>2, <2>3, <3>1, GiveEffect
    <3>3. QED
      BY <2>2, <3>2
  <2>5. link' \in [Peers -> {NoStream} \cup Opened'] /\ StreamsNumbered'
    BY <1>1, <2>4 DEF DialInv, TypeOK, StreamsNumbered
  <2>6. QED
    BY <1>1, <1>3, <2>2, <2>3, <2>5, Given
<1>5. CASE link[queue[1].peer] = NoStream
  BY <1>1, <1>3, <1>5, Passed
<1>6. QED
  BY <1>4, <1>5

\* The next stream has the next number.
LEMMA OpenedStep ==
  ASSUME DialInv, StreamOpens PROVE DialInv' /\ ChannelStep
<1> DEFINE stream == Cardinality(Opened) + 1
<1>1. /\ opening # NoMessage /\ Cardinality(Opened) < MaxStreams
      /\ Give(opening, stream) /\ link' = [link EXCEPT ![opening.peer] = stream]
      /\ opening' = NoMessage
      /\ UNCHANGED <<sent, queue, timers, subscribed, calls, handled>>
  BY DEF StreamOpens
<1>2. PICK n \in 0 .. MaxStreams : Opened = 1 .. n
  BY DEF DialInv, StreamsNumbered
<1>3. Cardinality(Opened) = n
  <2>1. n \in Nat /\ n \in Int /\ 1 \in Int
    BY Constants
  <2>2. Cardinality(1 .. n) = IF 1 > n THEN 0 ELSE n - 1 + 1
    BY <2>1, FS_Interval
  <2>3. QED
    BY <1>2, <2>1, <2>2
<1>4. stream = n + 1 /\ stream \in Streams
  BY <1>1, <1>3, Constants DEF Streams
<1> HIDE DEF stream
<1>5. Ready(opening) /\ opening \in Messages
  BY <1>1, OpenedReady DEF DialInv, TypeOK
<1>6. Opened' = Opened \cup {stream}
  BY <1>1, <1>4, <1>5, GiveEffect DEF DialInv
<1>7. StreamsNumbered'
  <2>1. Opened' = 1 .. n + 1 /\ n + 1 \in 0 .. MaxStreams
    BY <1>1, <1>2, <1>3, <1>4, <1>6, Constants
  <2>2. QED
    BY <2>1 DEF StreamsNumbered
<1>8. link' \in [Peers -> {NoStream} \cup Opened']
  BY <1>1, <1>6 DEF DialInv, TypeOK
<1>9. QED
  BY <1>1, <1>4, <1>5, <1>7, <1>8, Given

LEMMA DisconnectStep ==
  ASSUME DialInv, NEW p \in Peers, Disconnect(p) PROVE DialInv' /\ ChannelStep
<1>1. /\ link' = [link EXCEPT ![p] = NoStream]
      /\ UNCHANGED <<sent, queue, opening, timers, routes, wire, subscribed, calls, handled>>
  BY DEF Disconnect
<1>2. /\ Opened' = Opened /\ \A s : Wire(s)' = Wire(s)
      /\ InFront' = InFront /\ StreamsNumbered' /\ SubscribedOnce'
  BY <1>1 DEF Opened, Wire, InFront, DialInv, StreamsNumbered, SubscribedOnce
<1>3. TypeOK'
  BY <1>1, <1>2 DEF DialInv, TypeOK
<1>4. QED
  BY <1>1, <1>2, <1>3, Dropped

LEMMA LostStep ==
  ASSUME DialInv, NEW s \in Streams, LoseRest(s) PROVE DialInv' /\ ChannelStep
<1>1. /\ s \in Opened /\ wire' = [wire EXCEPT ![s] = <<>>]
      /\ UNCHANGED <<sent, queue, opening, timers, link, routes, subscribed, calls, handled>>
  BY DEF LoseRest
<1>2. Opened' = Opened
  BY <1>1 DEF Opened
<1>3. \A x \in Opened : wire'[x] = IF x = s THEN <<>> ELSE wire[x]
  BY <1>1 DEF Opened
<1>4. \A x \in Streams : Wire(x)' \in {Wire(x), <<>>}
  BY <1>2, <1>3 DEF Wire
<1>5. InFront' = InFront /\ StreamsNumbered' /\ SubscribedOnce'
  BY <1>1, <1>2 DEF InFront, DialInv, StreamsNumbered, SubscribedOnce
<1>6. <<>> \in Seq(Messages)
  BY EmptySeq
<1>7. TypeOK'
  BY <1>1, <1>2, <1>3, <1>6 DEF DialInv, TypeOK
<1>8. QED
  BY <1>1, <1>4, <1>5, <1>7, Dropped

LEMMA RestartStep ==
  ASSUME DialInv, Restart PROVE DialInv' /\ ChannelStep
<1>1. /\ queue' = <<>> /\ opening' = NoMessage /\ timers' = {}
      /\ link' = [p \in Peers |-> NoStream] /\ routes' = [p \in Peers |-> NoStream]
      /\ UNCHANGED <<sent, wire, subscribed, calls, handled>>
  BY DEF Restart
<1>2. /\ Opened' = Opened /\ \A s : Wire(s)' = Wire(s)
      /\ InFront' = {} /\ StreamsNumbered' /\ SubscribedOnce'
  BY <1>1 DEF Opened, Wire, InFront, DialInv, StreamsNumbered, SubscribedOnce
<1>3. <<>> \in Seq(Messages)
  BY EmptySeq
<1>4. TypeOK'
  BY <1>1, <1>2, <1>3 DEF DialInv, TypeOK
<1>5. QED
  BY <1>1, <1>2, <1>4, Dropped

LEMMA SubscribeStep ==
  ASSUME DialInv, NEW p \in Peers, NEW c \in Subscribers, subscribeChannel(p, c)
  PROVE  DialInv' /\ ChannelStep
<1>1. /\ calls[p] < MaxSubscribed /\ calls' = [calls EXCEPT ![p] = @ + 1]
      /\ subscribed' = [subscribed EXCEPT ![p] = Subscription(@, c)]
      /\ UNCHANGED <<sent, queue, opening, timers, link, routes, wire, handled>>
  BY DEF subscribeChannel
<1>2. /\ Opened' = Opened /\ \A s : Wire(s)' = Wire(s)
      /\ InFront' = InFront /\ StreamsNumbered'
  BY <1>1 DEF Opened, Wire, InFront, DialInv, StreamsNumbered
<1>3. /\ subscribed[p] \in Seq(Subscribers)
      /\ \A i, j \in DOMAIN subscribed[p] : subscribed[p][i] = subscribed[p][j] => i = j
  BY DEF DialInv, TypeOK, SubscribedOnce
<1> DEFINE subs == Subscription(subscribed[p], c)
<1>4. /\ subs \in Seq(Subscribers)
      /\ \A i, j \in DOMAIN subs : subs[i] = subs[j] => i = j
  <2>1. CASE c \in Range(subscribed[p])
    BY <1>3, <2>1 DEF Subscription
  <2>2. CASE c \notin Range(subscribed[p])
    <3>1. subs = Append(subscribed[p], c)
      BY <2>2 DEF Subscription
    <3>2. \A i \in DOMAIN subscribed[p] : subscribed[p][i] # c
      BY <2>2 DEF Range
    <3>3. /\ subs \in Seq(Subscribers) /\ Len(subs) = Len(subscribed[p]) + 1
          /\ \A i \in 1 .. Len(subscribed[p]) : subs[i] = subscribed[p][i]
          /\ subs[Len(subscribed[p]) + 1] = c
      BY <1>3, <3>1, AppendProperties
    <3>4. /\ DOMAIN subs = 1 .. Len(subscribed[p]) + 1
          /\ DOMAIN subscribed[p] = 1 .. Len(subscribed[p]) /\ Len(subscribed[p]) \in Nat
      BY <1>3, <3>3, LenProperties
    <3> HIDE DEF subs
    <3>5. QED
      BY SMTT(20), <1>3, <3>2, <3>3, <3>4
  <2>3. QED
    BY <2>1, <2>2
<1> HIDE DEF subs
<1>5. /\ subscribed' \in [Peers -> Seq(Subscribers)]
      /\ \A q \in Peers : subscribed'[q] = IF q = p THEN subs ELSE subscribed[q]
  BY <1>1, <1>4 DEF DialInv, TypeOK, subs
<1>6. SubscribedOnce'
  BY <1>4, <1>5 DEF DialInv, SubscribedOnce
<1>7. calls' \in [Peers -> 0 .. MaxSubscribed]
  BY <1>1, Constants DEF DialInv, TypeOK
<1>8. TypeOK'
  BY <1>1, <1>2, <1>5, <1>7 DEF DialInv, TypeOK
<1>9. QED
  BY <1>1, <1>2, <1>6, <1>8, Dropped

\* What one message adds to what a peer handled.
LEMMA HandledStep ==
  ASSUME DialInv, NEW s \in Streams, handleBroadcast(s)
  PROVE  \E m \in Range(Wire(s)), new \in Seq(Handled) :
           /\ Wire(s) # <<>> /\ m = Wire(s)[1]
           /\ Opened' = Opened /\ Wire(s)' = Tail(Wire(s))
           /\ \A x \in Streams \ {s} : Wire(x)' = Wire(x)
           /\ \A x \in Opened' : wire'[x] \in Seq(Messages)
           /\ handled' \in [Peers -> Seq(Handled)]
           /\ handled'[m.peer] = handled[m.peer] \o new
           /\ \A q \in Peers \ {m.peer} : handled'[q] = handled[q]
           /\ \A i \in DOMAIN new : /\ new[i].id = m.id /\ new[i].stream = s
                                    /\ new[i].retriesCount = m.retriesCount
           /\ \A i, j \in DOMAIN new : new[i].subscriber = new[j].subscriber => i = j
<1>1. /\ s \in Opened /\ wire[s] # <<>>
      /\ wire' = [wire EXCEPT ![s] = Tail(@)]
  BY DEF handleBroadcast
<1>2. Wire(s) = wire[s] /\ Wire(s) \in Seq(Messages)
  BY <1>1 DEF Wire, DialInv, TypeOK
<1> DEFINE m == Wire(s)[1]
           new == [i \in DOMAIN subscribed[m.peer] |->
                     [id |-> m.id, retriesCount |-> m.retriesCount, stream |-> s,
                      subscriber |-> subscribed[m.peer][i]]]
<1>3. /\ m \in Range(Wire(s)) /\ m \in Messages /\ m = Head(wire[s])
      /\ Tail(wire[s]) \in Seq(Messages)
  <2>1. /\ Head(Wire(s)) = m /\ m \in Messages
        /\ Range(Wire(s)) = {m} \cup Range(Tail(Wire(s)))
        /\ Tail(Wire(s)) \in Seq(Messages)
    BY <1>1, <1>2, TailOf
  <2>2. QED
    BY <1>2, <2>1
<1>4. handled' = [handled EXCEPT ![m.peer] = @ \o new]
  BY <1>3 DEF handleBroadcast
<1>5. /\ Opened' = Opened /\ Wire(s)' = Tail(Wire(s))
      /\ \A x \in Streams \ {s} : Wire(x)' = Wire(x)
      /\ \A x \in Opened' : wire'[x] \in Seq(Messages)
  <2>1. Opened' = Opened
    BY <1>1 DEF Opened
  <2>2. \A x \in Opened : wire'[x] = IF x = s THEN Tail(wire[s]) ELSE wire[x]
    BY <1>1 DEF Opened
  <2>3. QED
    BY <1>1, <1>2, <1>3, <2>1, <2>2 DEF Wire, DialInv, TypeOK
<1>6. m.peer \in Peers /\ m.id \in 1 .. MaxMessages /\ m.retriesCount \in Nat
  BY <1>3, Constants DEF Messages
<1> HIDE DEF m
<1>7. /\ subscribed[m.peer] \in Seq(Subscribers)
      /\ \A i, j \in DOMAIN subscribed[m.peer] :
           subscribed[m.peer][i] = subscribed[m.peer][j] => i = j
  BY <1>6 DEF DialInv, TypeOK, SubscribedOnce
<1>8. /\ DOMAIN new = 1 .. Len(subscribed[m.peer]) /\ Len(subscribed[m.peer]) \in Nat
      /\ \A i \in DOMAIN new : subscribed[m.peer][i] \in Subscribers
  BY <1>7, LenProperties, ElementOfSeq
<1>9. /\ \A i \in DOMAIN new : /\ new[i] \in Handled
                               /\ new[i].id = m.id /\ new[i].stream = s
                               /\ new[i].retriesCount = m.retriesCount
      /\ \A i, j \in DOMAIN new : new[i].subscriber = new[j].subscriber => i = j
  BY <1>6, <1>7, <1>8 DEF Handled
<1> HIDE DEF new
<1>10. new \in Seq(Handled)
  <2>1. new \in [1 .. Len(subscribed[m.peer]) -> Handled]
    BY <1>8, <1>9 DEF new
  <2>2. QED
    BY <1>8, <2>1, SeqDef
<1>11. /\ handled' \in [Peers -> Seq(Handled)]
       /\ handled'[m.peer] = handled[m.peer] \o new
       /\ \A q \in Peers \ {m.peer} : handled'[q] = handled[q]
  <2>1. handled \in [Peers -> Seq(Handled)]
    BY DEF DialInv, TypeOK
  <2>2. handled[m.peer] \o new \in Seq(Handled)
    BY <1>6, <1>10, <2>1, ConcatOf
  <2>3. QED
    BY <1>4, <1>6, <2>1, <2>2
<1>12. Wire(s) # <<>> /\ m = Wire(s)[1] /\ m \in Range(Wire(s))
  BY <1>1, <1>2, <1>3 DEF m
<1>13. QED
  BY <1>5, <1>9, <1>10, <1>11, <1>12

\* HandledOnce and OvertakesOnlyOnRetry for what one peer handled.
OnceIn(hs) ==
  \A i, j \in DOMAIN hs :
    hs[i].id = hs[j].id /\ hs[i].subscriber = hs[j].subscriber => i = j

OrderIn(hs) ==
  \A i, j \in DOMAIN hs :
    i < j /\ hs[i].id > hs[j].id
    => hs[j].retriesCount > 0 \/ hs[i].stream # hs[j].stream

\* The callbacks are called with a message none of them was called with, and
\* that is not sent before the others of its stream, or was retried.
LEMMA HandledMore ==
  ASSUME NEW old \in Seq(Handled), NEW new \in Seq(Handled), OnceIn(old), OrderIn(old),
         NEW m, m.id \in Nat, m.retriesCount \in Nat, NEW s,
         \A h \in Range(old) : /\ h.id # m.id /\ h.id \in Nat
                               /\ h.stream = s => NotLater(h, m),
         \A i \in DOMAIN new : /\ new[i].id = m.id /\ new[i].stream = s
                               /\ new[i].retriesCount = m.retriesCount,
         \A i, j \in DOMAIN new : new[i].subscriber = new[j].subscriber => i = j
  PROVE  OnceIn(old \o new) /\ OrderIn(old \o new)
<1> DEFINE hs == old \o new
           n == Len(old)
<1>1. /\ \A i \in DOMAIN hs : \/ i \in DOMAIN old /\ hs[i] = old[i]
                              \/ i - n \in DOMAIN new /\ i > n /\ hs[i] = new[i - n]
      /\ n \in Nat /\ DOMAIN old = 1 .. n /\ DOMAIN hs \subseteq Nat
  BY ConcatOf
<1>2. \A i \in DOMAIN old : /\ old[i].id # m.id /\ old[i].id \in Nat
                            /\ old[i].stream = s => NotLater(old[i], m)
  BY DEF Range
<1> HIDE DEF hs, n
<1>3. OnceIn(hs)
  <2>1. ASSUME NEW i \in DOMAIN hs, NEW j \in DOMAIN hs, hs[i].id = hs[j].id,
               hs[i].subscriber = hs[j].subscriber
        PROVE  i = j
    <3>1. CASE i \in DOMAIN old /\ hs[i] = old[i]
      <4>1. j \in DOMAIN old /\ hs[j] = old[j]
        BY <1>1, <1>2, <2>1, <3>1
      <4>2. QED
        BY <2>1, <3>1, <4>1 DEF OnceIn
    <3>2. CASE i - n \in DOMAIN new /\ hs[i] = new[i - n]
      <4>1. j - n \in DOMAIN new /\ hs[j] = new[j - n]
        BY <1>1, <1>2, <2>1, <3>2
      <4>2. i - n = j - n
        BY <2>1, <3>2, <4>1
      <4>3. QED
        BY <1>1, <4>2
    <3>3. QED
      BY <1>1, <3>1, <3>2
  <2>2. QED
    BY <2>1 DEF OnceIn
<1>4. OrderIn(hs)
  <2>1. ASSUME NEW i \in DOMAIN hs, NEW j \in DOMAIN hs, i < j, hs[i].id > hs[j].id
        PROVE  hs[j].retriesCount > 0 \/ hs[i].stream # hs[j].stream
    <3>1. CASE j \in DOMAIN old /\ hs[j] = old[j]
      <4>1. i \in DOMAIN old /\ hs[i] = old[i]
        BY <1>1, <2>1, <3>1
      <4>2. QED
        BY <2>1, <3>1, <4>1 DEF OrderIn
    <3>2. CASE j - n \in DOMAIN new /\ hs[j] = new[j - n]
      <4>1. hs[j].id = m.id /\ hs[j].stream = s /\ hs[j].retriesCount = m.retriesCount
        BY <3>2
      <4>2. i \in DOMAIN old /\ hs[i] = old[i]
        BY <1>1, <2>1, <4>1
      <4>3. QED
        BY <1>2, <2>1, <4>1, <4>2 DEF NotLater
    <3>3. QED
      BY <1>1, <3>1, <3>2
  <2>2. QED
    BY <2>1 DEF OrderIn
<1>5. QED
  BY <1>3, <1>4 DEF hs

\* The next message of a stream arrives.
LEMMA ReceivedStep ==
  ASSUME DialInv, NEW s \in Streams, handleBroadcast(s)
  PROVE  DialInv' /\ ChannelStep
<1> USE DEF DialInv
<1>1. UNCHANGED <<sent, queue, opening, timers, link, routes, subscribed, calls>>
  BY DEF handleBroadcast
<1>2. PICK m \in Range(Wire(s)), new \in Seq(Handled) :
        /\ Wire(s) # <<>> /\ m = Wire(s)[1]
        /\ Opened' = Opened /\ Wire(s)' = Tail(Wire(s))
        /\ \A x \in Streams \ {s} : Wire(x)' = Wire(x)
        /\ \A x \in Opened' : wire'[x] \in Seq(Messages)
        /\ handled' \in [Peers -> Seq(Handled)]
        /\ handled'[m.peer] = handled[m.peer] \o new
        /\ \A q \in Peers \ {m.peer} : handled'[q] = handled[q]
        /\ \A i \in DOMAIN new : /\ new[i].id = m.id /\ new[i].stream = s
                                 /\ new[i].retriesCount = m.retriesCount
        /\ \A i, j \in DOMAIN new : new[i].subscriber = new[j].subscriber => i = j
  BY HandledStep
<1>3. /\ m \in Messages /\ m.peer \in Peers /\ m.id \in Nat /\ m.retriesCount \in Nat
      /\ Wire(s) \in Seq(Messages) /\ Distinct(Wire(s)) /\ InOrder(Wire(s))
      /\ handled[m.peer] \in Seq(Handled)
  <2>1. m \in Messages /\ Wire(s) \in Seq(Messages)
    BY Typed
  <2>2. m.peer \in Peers /\ m.id \in Nat /\ m.retriesCount \in Nat
    BY <2>1, Constants DEF Messages
  <2>3. QED
    BY <2>1, <2>2 DEF OnceAtPlace, Ordered, TypeOK
<1>4. /\ Range(Wire(s)') \subseteq Range(Wire(s))
      /\ Distinct(Wire(s)') /\ InOrder(Wire(s)')
      /\ CopiesOf(Range(Wire(s)')) = CopiesOf(Range(Wire(s))) \ {Copy(m)}
      /\ \A n \in Range(Wire(s)') : NotLater(m, n)
  <2>1. Range(Wire(s)) = {m} \cup Range(Tail(Wire(s)))
    BY <1>2, <1>3, TailOf
  <2>2. QED
    BY <1>2, <1>3, <2>1, FirstTaken
<1>5. /\ InFront' = InFront /\ StreamsNumbered' /\ SubscribedOnce'
  BY <1>1, <1>2 DEF InFront, StreamsNumbered, SubscribedOnce
<1>6. TypeOK'
  BY <1>1, <1>2 DEF TypeOK
<1>7. /\ Copy(m) \in At(s) /\ \A k \in Places \ {s} : Copy(m) \notin At(k)
      /\ Copy(m) = [id |-> m.id, peer |-> m.peer]
  <2>1. Copy(m) \in At(s)
    BY AtPlaces DEF CopiesOf
  <2>2. QED
    BY <2>1, PlacesAre DEF OnePlace, Copy
<1>8. ReceivedCopies' \in {ReceivedCopies, ReceivedCopies \cup {Copy(m)}}
  <2>1. Range(handled'[m.peer]) = Range(handled[m.peer]) \cup Range(new)
    BY <1>2, <1>3, ConcatOf
  <2>2. \A h \in Range(new) : h.id = m.id
    BY <1>2 DEF Range
  <2>3. \A q \in Peers : \A h \in Range(handled[q]) : h \in Range(handled'[q])
    BY <1>2, <2>1
  <2>4. ReceivedCopies \subseteq ReceivedCopies'
    BY SMTT(20), <2>3 DEF ReceivedCopies
  <2>5. ASSUME NEW q \in Peers, NEW h \in Range(handled'[q])
        PROVE  [id |-> h.id, peer |-> q] \in ReceivedCopies \cup {Copy(m)}
    <3>1. CASE h \in Range(handled[q])
      BY <3>1 DEF ReceivedCopies
    <3>2. CASE h \notin Range(handled[q])
      BY <1>2, <1>7, <2>1, <2>2, <3>2
    <3>3. QED
      BY <3>1, <3>2
  <2>6. ASSUME NEW c \in ReceivedCopies' PROVE c \in ReceivedCopies \cup {Copy(m)}
    <3>1. PICK q \in Peers : \E h \in Range(handled'[q]) : c = [id |-> h.id, peer |-> q]
      BY DEF ReceivedCopies
    <3>2. QED
      BY <2>5, <3>1
  <2>7. QED
    BY <2>4, <2>6
<1>9. /\ At(AtQueue)' = At(AtQueue) /\ At(AtLoop)' = At(AtLoop) /\ At(AtTimer)' = At(AtTimer)
      /\ At(AtPeer)' \in {At(AtPeer), At(AtPeer) \cup {Copy(m)}}
      /\ At(s)' = At(s) \ {Copy(m)}
      /\ \A x \in Streams \ {s} : At(x)' = At(x)
  <2>1. /\ At(AtQueue)' = At(AtQueue) /\ At(AtLoop)' = At(AtLoop) /\ At(AtTimer)' = At(AtTimer)
    BY <1>1, <1>5, AtPlaces, NextAtPlaces
  <2>2. At(AtPeer)' \in {At(AtPeer), At(AtPeer) \cup {Copy(m)}}
    BY <1>8, AtPlaces, NextAtPlaces
  <2>3. At(s)' = At(s) \ {Copy(m)}
    BY <1>4, AtPlaces, NextAtPlaces
  <2>4. \A x \in Streams \ {s} : At(x)' = At(x)
    BY <1>2, AtPlaces, NextAtPlaces
  <2>5. QED
    BY <2>1, <2>2, <2>3, <2>4
<1>10. OnePlace' /\ SentBefore'
  <2>1. \A k \in Places \ {AtPeer} : At(k)' \subseteq At(k) \ {Copy(m)}
    BY <1>7, <1>9, PlacesAre
  <2>2. At(AtPeer)' \subseteq At(AtPeer) \cup {Copy(m)}
    BY <1>9
  <2>3. \A k \in Places : \A c \in At(k) : c.id \in Nat
    BY Typed
  <2>4. sent \in Nat /\ sent' \in Nat /\ sent <= sent' /\ AtPeer \in Places
    BY <1>1, PlacesAre, Constants DEF TypeOK
  <2>5. \A c \in {Copy(m)} : c.id \in Nat /\ c.id <= sent'
    BY <1>1, <1>7, <2>3, PlacesAre DEF SentBefore
  <2>6. QED
    BY <2>1, <2>2, <2>3, <2>4, <2>5, Moved
<1>11. OnceAtPlace'
  <2>1. \A x \in Streams : Distinct(Wire(x)')
    BY <1>2, <1>4 DEF OnceAtPlace
  <2>2. QED
    BY <1>1, <2>1 DEF OnceAtPlace
<1>12. Range(handled'[m.peer]) = Range(handled[m.peer]) \cup Range(new)
  <2>1. Range(handled[m.peer] \o new) = Range(handled[m.peer]) \cup Range(new)
    BY <1>3, ConcatOf
  <2>2. QED
    BY <1>2, <2>1
<1>13. \A h \in Range(handled[m.peer]) :
         /\ h.id # m.id /\ h.id \in Nat
         /\ h.stream = s => NotLater(h, m)
  <2>1. ASSUME NEW h \in Range(handled[m.peer]), h.id = m.id PROVE FALSE
    <3>1. Copy(m) \in At(AtPeer)
      BY <1>3, <1>7, <2>1, AtPlaces DEF ReceivedCopies
    <3>2. QED
      BY <1>7, <3>1, PlacesAre
  <2>2. \A h \in Range(handled[m.peer]) : h.id \in Nat
    BY <1>3, Typed DEF Handled
  <2>3. \A h \in Range(handled[m.peer]) : h.stream = s => NotLater(h, m)
    BY <1>3 DEF Ordered
  <2>4. QED
    BY <2>1, <2>2, <2>3
<1>14. OnceIn(handled[m.peer] \o new) /\ OrderIn(handled[m.peer] \o new)
  <2> DEFINE old == handled[m.peer]
  <2>1. OnceIn(old) /\ OrderIn(old)
    BY <1>3 DEF OnceIn, OrderIn, HandledOnce, OvertakesOnlyOnRetry
  <2>2. /\ \A i \in DOMAIN new : /\ new[i].id = m.id /\ new[i].stream = s
                                 /\ new[i].retriesCount = m.retriesCount
        /\ \A i, j \in DOMAIN new : new[i].subscriber = new[j].subscriber => i = j
    BY <1>2
  <2>3. /\ old \in Seq(Handled)
        /\ \A h \in Range(old) : /\ h.id # m.id /\ h.id \in Nat
                                 /\ h.stream = s => NotLater(h, m)
    BY <1>3, <1>13
  <2> HIDE DEF old
  <2>4. OnceIn(old \o new) /\ OrderIn(old \o new)
    BY <1>3, <2>1, <2>2, <2>3, HandledMore
  <2>5. QED
    BY <2>4 DEF old
<1>15. HandledOnce' /\ OvertakesOnlyOnRetry'
  <2>1. \A p \in Peers : OnceIn(handled[p]) /\ OrderIn(handled[p])
    BY DEF OnceIn, OrderIn, HandledOnce, OvertakesOnlyOnRetry
  <2>2. \A p \in Peers : OnceIn(handled'[p]) /\ OrderIn(handled'[p])
    BY <1>2, <1>14, <2>1
  <2>3. QED
    BY <2>2 DEF OnceIn, OrderIn, HandledOnce, OvertakesOnlyOnRetry
<1>16. Ordered'
  <2>1. /\ \A x \in Streams : Range(Wire(x)') \subseteq Range(Wire(x)) /\ InOrder(Wire(x)')
    BY <1>2, <1>4 DEF Ordered
  <2>2. ASSUME NEW p \in Peers, NEW h \in Range(handled'[p]),
               NEW n \in Range(queue) \cup InFront \cup Range(Wire(h.stream)')
        PROVE  NotLater(h, n)
    <3>1. CASE h \in Range(handled[p])
      <4>1. h.stream \in Streams
        BY <3>1, Typed DEF Handled
      <4>2. QED
        BY <2>1, <3>1, <4>1 DEF Ordered
    <3>2. CASE h \notin Range(handled[p])
      <4>1. h \in Range(new)
        BY <1>2, <1>12, <3>2
      <4>2. h.id = m.id /\ h.stream = s
        BY <1>2, <4>1 DEF Range
      <4>3. NotLater(m, n)
        BY <1>4, <4>2 DEF Ordered
      <4>4. QED
        BY <4>2, <4>3 DEF NotLater
    <3>3. QED
      BY <3>1, <3>2
  <2>3. QED
    BY <1>1, <1>5, <2>1, <2>2 DEF Ordered
<1>17. ChannelStep
  <2>1. OutstandingAt
    BY OutstandingIsAt
  <2>2. Outstanding' = Outstanding \ {Copy(m)} /\ Copy(m) \in Outstanding
    BY <1>6, <1>7, <1>9, <2>1, NextOutstandingIsAt, PlacesAre DEF OutstandingAt
  <2>3. Copy(m) \in [id : 1 .. MaxMessages, peer : Peers]
    BY <1>7, Typed, PlacesAre
  <2>4. CASE ReceivedCopies' = ReceivedCopies \cup {Copy(m)}
    <3>1. Channel!Receive(Copy(m))
      BY <2>2, <2>4 DEF Channel!Receive, Outstanding, ReceivedCopies
    <3>2. QED
      BY <2>3, <3>1 DEF ChannelStep, Channel!ChannelNext
  <2>5. CASE ReceivedCopies' = ReceivedCopies
    <3>1. Channel!Lose({Copy(m)})
      BY <2>2, <2>5 DEF Channel!Lose, Outstanding, ReceivedCopies
    <3>2. {Copy(m)} \in SUBSET [id : 1 .. MaxMessages, peer : Peers]
      BY <2>3
    <3>3. QED
      BY <3>1, <3>2 DEF ChannelStep, Channel!ChannelNext
  <2>6. QED
    BY <1>8, <2>4, <2>5
<1>18. QED
  BY <1>5, <1>6, <1>10, <1>11, <1>15, <1>16, <1>17

-----------------------------------------------------------------------------
(* Theorems *)

LEMMA InitHolds ==
  ASSUME DialerInit PROVE DialInv /\ Channel!ChannelInit
<1>1. /\ sent = 0 /\ queue = <<>> /\ opening = NoMessage /\ timers = {}
      /\ Opened = {} /\ InFront = {} /\ Range(<<>>) = {}
      /\ \A s : Wire(s) = <<>>
      /\ \A p \in Peers : handled[p] = <<>> /\ subscribed[p] = <<>>
  BY DEF DialerInit, Opened, InFront, Wire, Range
<1>2. <<>> \in Seq(Messages) /\ <<>> \in Seq(Subscribers) /\ <<>> \in Seq(Handled)
  BY EmptySeq
<1>3. TypeOK
  BY <1>1, <1>2, Constants DEF TypeOK, DialerInit
<1>4. StreamsNumbered
  <2>1. Opened = 1 .. 0 /\ 0 \in 0 .. MaxStreams
    BY <1>1, Constants
  <2>2. QED
    BY <2>1 DEF StreamsNumbered
<1>5. ReceivedCopies = {} /\ Outstanding = {}
  BY <1>1 DEF ReceivedCopies, Outstanding
<1>6. \A k \in Places : At(k) = {}
  BY <1>1, <1>5, AtPlaces, PlacesAre DEF CopiesOf
<1>7. OnePlace /\ SentBefore
  BY <1>6 DEF OnePlace, SentBefore
<1>8. Distinct(<<>>) /\ InOrder(<<>>)
  BY DEF Distinct, InOrder
<1>9. OnceAtPlace /\ SubscribedOnce /\ HandledOnce /\ OvertakesOnlyOnRetry
  BY <1>1, <1>8 DEF OnceAtPlace, SubscribedOnce, HandledOnce, OvertakesOnlyOnRetry
<1>10. Ordered
  BY <1>1, <1>8 DEF Ordered
<1>11. Channel!ChannelInit
  BY <1>5 DEF Channel!ChannelInit, Outstanding, ReceivedCopies
<1>12. QED
  BY <1>3, <1>4, <1>7, <1>9, <1>10, <1>11 DEF DialInv

LEMMA StepHolds ==
  ASSUME DialInv, [DialerNext]_vars PROVE DialInv' /\ ChannelStep
<1>1. CASE sendMessage
  BY <1>1, Sent DEF sendMessage
<1>2. CASE TakeMessage
  BY <1>2, TakenStep
<1>3. CASE StreamOpens
  BY <1>3, OpenedStep
<1>4. CASE OpenFails
  BY <1>4, Failed
<1>5. CASE \E m \in Messages : RetryTimer(m)
  BY <1>5, Retried
<1>6. CASE \E p \in Peers : Disconnect(p)
  BY <1>6, DisconnectStep
<1>7. CASE \E s \in Streams : LoseRest(s) \/ handleBroadcast(s)
  BY <1>7, LostStep, ReceivedStep
<1>8. CASE \E p \in Peers, c \in Subscribers : subscribeChannel(p, c)
  BY <1>8, SubscribeStep
<1>9. CASE Restart
  BY <1>9, RestartStep
<1>10. CASE UNCHANGED vars
  <2>1. /\ Opened' = Opened /\ \A s : Wire(s)' = Wire(s)
        /\ InFront' = InFront /\ StreamsNumbered' /\ SubscribedOnce' /\ TypeOK'
    BY <1>10 DEF vars, Opened, Wire, InFront, DialInv, StreamsNumbered, SubscribedOnce, TypeOK
  <2>2. QED
    BY <1>10, <2>1, Dropped DEF vars
<1>11. QED
  BY <1>1, <1>2, <1>3, <1>4, <1>5, <1>6, <1>7, <1>8, <1>9, <1>10 DEF DialerNext

\* A copy of a message is at one place at a time, and the orders hold.
THEOREM OnePlaceAlways == DialerSpec => []DialInv
<1>1. DialerInit => DialInv
  BY InitHolds
<1>2. DialInv /\ [DialerNext]_vars => DialInv'
  BY StepHolds
<1>3. QED
  BY <1>1, <1>2, PTL DEF DialerSpec

\* No callback is called twice with a message, however often it is retried
\* and however often a channel is subscribed.
THEOREM HandledOnceAlways == DialerSpec => []HandledOnce
<1>1. DialInv => HandledOnce
  BY DEF DialInv
<1>2. QED
  BY <1>1, OnePlaceAlways, PTL

\* A message that was not retried is handled behind what was sent before it
\* and came through the same stream.
THEOREM OrderOfAStream == DialerSpec => []OvertakesOnlyOnRetry
<1>1. DialInv => OvertakesOnlyOnRetry
  BY DEF DialInv
<1>2. QED
  BY <1>1, OnePlaceAlways, PTL

\* Every step of the dialer is a step of the lossy channel, or changes nothing
\* of it; that what is on its way does not stay there is left to TLC.
THEOREM StepsOfLossyChannel ==
  DialerSpec => /\ Channel!ChannelInit
                /\ [][Channel!ChannelNext]_<<Outstanding, ReceivedCopies>>
<1>1. DialerInit => Channel!ChannelInit
  BY InitHolds
<1>2. DialInv /\ [DialerNext]_vars
        => [Channel!ChannelNext]_<<Outstanding, ReceivedCopies>>
  BY StepHolds DEF ChannelStep
<1>3. QED
  BY <1>1, <1>2, OnePlaceAlways, PTL DEF DialerSpec
=============================================================================
