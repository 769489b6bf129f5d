--------------------------- MODULE ServicesProofs ---------------------------
(***************************************************************************)
(* Theorems about Services, for any relays and peers, any events and rows, *)
(* any requests to the tss binary, and any bounds: an invariant for each   *)
(* of the parts address book, revenue job and tss binary.                  *)
(***************************************************************************)
EXTENDS Services, SequenceTheorems, FiniteSetTheorems, TLAPS

-----------------------------------------------------------------------------
(* The address book *)

BookInv ==
  /\ trying \in [Relays -> Nat]
  /\ Book!OneIntervalWhileAway

LEMMA BookHolds ==
  ASSUME BookInv, Book!AddressBookNext PROVE BookInv'
<1> USE DEF BookInv, Book!OneIntervalWhileAway
<1>1. CASE UNCHANGED trying /\ connected' \subseteq connected
  BY <1>1
<1>2. ASSUME NEW p \in Book!Peers, Book!PeerDisconnect(p) PROVE BookInv'
  <2>1. p \in connected /\ connected' = connected \ {p}
    BY <1>2 DEF Book!PeerDisconnect
  <2>2. CASE p \in Relays
    <3>1. trying[p] = 0
      <4>1. trying[p] \in Nat /\ trying[p] <= 1 /\ trying[p] # 1
        BY <2>1, <2>2
      <4>2. QED
        BY <4>1
    <3>2. trying' = [trying EXCEPT ![p] = @ + 1]
      BY <1>2, <2>2 DEF Book!PeerDisconnect, Book!tryReconnectingRelay
    <3>3. \A r \in Relays : trying'[r] = IF r = p THEN 1 ELSE trying[r]
      BY <3>1, <3>2
    <3>4. trying' \in [Relays -> Nat]
      <4>1. trying \in [Relays -> Nat] /\ trying[p] + 1 \in Nat
        BY <3>1
      <4> HIDE DEF BookInv
      <4>2. QED
        BY <3>2, <4>1
    <3>5. \A r \in Relays : trying'[r] <= 1 /\ (trying'[r] = 1 => r \notin connected')
      BY <2>1, <3>3
    <3>6. QED
      BY <3>4, <3>5
  <2>3. CASE p \notin Relays
    BY <1>1, <1>2, <2>1, <2>3 DEF Book!PeerDisconnect
  <2>4. QED
    BY <2>2, <2>3
<1>3. ASSUME NEW p \in Book!Peers, Book!DeletionEnds(p) PROVE BookInv'
  BY <1>1, <1>3 DEF Book!DeletionEnds
<1>4. ASSUME NEW p \in Book!Peers, Book!PeerConnect(p) PROVE BookInv'
  <2>1. /\ connected' = connected \cup {p}
        /\ trying' = [r \in Relays |-> IF r = p THEN 0 ELSE trying[r]]
    BY <1>4 DEF Book!PeerConnect, Book!Cleared
  <2>2. QED
    BY <2>1
<1>5. ASSUME NEW p \in Book!Peers, Book!PeerDiscovery(p) PROVE BookInv'
  BY <1>1, <1>5 DEF Book!PeerDiscovery
<1>6. ASSUME NEW p \in Book!Peers, Book!ReachabilityChanges(p) PROVE BookInv'
  BY <1>1, <1>6 DEF Book!ReachabilityChanges
<1>7. ASSUME NEW r \in Relays, Book!ReconnectionTick(r) PROVE BookInv'
  BY <1>1, <1>7 DEF Book!ReconnectionTick, Book!KeepTrying
<1>8. CASE Book!healthCheckUpdateJob
  <2>1. CASE Book!Exit
    <3>1. trying' = [r \in Relays |-> 0]
      BY <2>1 DEF Book!Exit, Book!StartDialer
    <3>2. QED
      BY <3>1
  <2>2. CASE ~Book!Exit
    BY <1>1, <1>8, <2>2 DEF Book!healthCheckUpdateJob
  <2>3. QED
    BY <2>1, <2>2
<1>9. QED
  BY <1>2, <1>3, <1>4, <1>5, <1>6, <1>7, <1>8
     DEF Book!AddressBookNext, Book!AutoDial, Book!DialedBy

-----------------------------------------------------------------------------
(* The revenue job *)

\* Whoever is confirmed stays so.
JobTypes ==
  /\ height \in Nat
  /\ spent \in [Events -> Nat]
  /\ revenue \in [Rows -> Nat]
  /\ job \in Seq(Events) /\ inserting \in Seq(Rows)
  /\ ~running => job = <<>> /\ inserting = <<>>

NoRowOf(e) == \A r \in Range(rowsOf[e]) : revenue[r] = 0

\* The events the job has not come to: each once, confirmed, and without a row.
ToCome ==
  /\ IsInjective(job)
  /\ \A e \in Range(job) : Job!IsConfirmed(e) /\ NoRowOf(e)

\* The rows it is to insert: each once, of one event that is not to come.
ToInsert ==
  inserting # <<>> =>
    /\ IsInjective(inserting)
    /\ \A r \in Range(inserting) : revenue[r] = 0
    /\ \E e \in Events \ Range(job) :
         Job!IsConfirmed(e) /\ Range(inserting) \subseteq Range(rowsOf[e])

JobInv == JobTypes /\ ToCome /\ ToInsert /\ Job!CountedOnce

LEMMA Rowed ==
  /\ \A e \in Events : rowsOf[e] \in Seq(Rows) /\ IsInjective(rowsOf[e])
  /\ \A e \in Events : Range(rowsOf[e]) \subseteq Rows
  /\ \A e, f \in Events : \A r \in Range(rowsOf[e]) : r \in Range(rowsOf[f]) => e = f
  /\ requiredConfirmation \in Nat /\ IsFiniteSet(Events)
<1>1. /\ \A e \in Events : rowsOf[e] \in Seq(Rows) /\ IsInjective(rowsOf[e])
      /\ \A e, f \in Events : e # f => Range(rowsOf[e]) \cap Range(rowsOf[f]) = {}
      /\ requiredConfirmation \in Nat /\ IsFiniteSet(Events)
  BY ServicesAssumption DEF Job!RevenueAssumption, Range, Job!Range, IsInjective, Job!IsInjective,
                             IsFiniteSet, Job!IsFiniteSet
<1>2. \A e \in Events : Range(rowsOf[e]) \subseteq Rows
  BY <1>1, RangeOfSeq
<1>3. QED
  BY <1>1, <1>2

\* What is left when the first of a sequence is taken.
LEMMA FirstOut ==
  ASSUME NEW S, NEW s \in Seq(S), s # <<>>, IsInjective(s)
  PROVE  /\ Tail(s) \in Seq(S) /\ IsInjective(Tail(s))
         /\ Head(s) \in Range(s) /\ Head(s) \in S
         /\ Range(Tail(s)) \subseteq Range(s) \ {Head(s)}
<1>1. /\ Len(s) \in Nat \ {0} /\ DOMAIN s = 1 .. Len(s)
  BY EmptySeq, LenProperties
<1>2. /\ Tail(s) \in Seq(S) /\ Len(Tail(s)) = Len(s) - 1
      /\ \A i \in 1 .. Len(Tail(s)) : Tail(s)[i] = s[i + 1]
  BY HeadTailProperties
<1>3. DOMAIN Tail(s) = 1 .. Len(s) - 1
  BY <1>2, LenProperties
<1>4. Head(s) = s[1] /\ s[1] \in S /\ 1 \in DOMAIN s
  BY <1>1, ElementOfSeq, HeadTailProperties
<1>5. \A i \in DOMAIN Tail(s) :
        /\ i + 1 \in DOMAIN s /\ Tail(s)[i] = s[i + 1]
        /\ i \in Nat /\ i + 1 # 1
  BY <1>1, <1>2, <1>3
<1>6. IsInjective(Tail(s))
  BY <1>5 DEF IsInjective
<1>7. \A i \in DOMAIN Tail(s) : Tail(s)[i] \in Range(s) /\ Tail(s)[i] # Head(s)
  BY <1>4, <1>5 DEF IsInjective, Range
<1>8. QED
  BY <1>2, <1>4, <1>6, <1>7 DEF Range

-----------------------------------------------------------------------------
(* The steps of the job *)

\* Confirmation, by the height of the event's spending.
LEMMA ConfirmedIs ==
  /\ \A e : Job!IsConfirmed(e) <=> spent[e] # 0 /\ spent[e] < height - requiredConfirmation
  /\ \A e : Job!IsConfirmed(e)' <=> spent'[e] # 0 /\ spent'[e] < height' - requiredConfirmation
BY DEF Job!IsConfirmed, Job!NotSpent

LEMMA CountedIs ==
  /\ Job!CountedOnce <=> \A e \in Events : \A r \in Range(rowsOf[e]) :
       revenue[r] <= 1 /\ (revenue[r] = 1 => Job!IsConfirmed(e))
  /\ Job!CountedOnce' <=> \A e \in Events : \A r \in Range(rowsOf[e]) :
       revenue'[r] <= 1 /\ (revenue'[r] = 1 => Job!IsConfirmed(e)')
BY DEF Job!CountedOnce, Range, Job!Range

\* Nothing but the chain moves, and who was confirmed is.
LEMMA ChainStep ==
  ASSUME JobInv, height' \in Nat, spent' \in [Events -> Nat],
         \A e \in Events : Job!IsConfirmed(e) => Job!IsConfirmed(e)',
         UNCHANGED <<revenue, running, job, inserting>>
  PROVE  JobInv'
<1> USE DEF JobInv
<1>1. Range(job) \subseteq Events
  BY RangeOfSeq DEF JobTypes
<1>2. JobTypes'
  BY DEF JobTypes
<1>3. ToCome'
  BY <1>1 DEF ToCome, NoRowOf
<1>4. ToInsert'
  BY DEF ToInsert
<1>5. Job!CountedOnce'
  BY CountedIs
<1>6. QED
  BY <1>2, <1>3, <1>4, <1>5

\* The job ends, or has ended.
LEMMA JobEnds ==
  ASSUME JobInv, job' = <<>>, inserting' = <<>>, UNCHANGED <<height, spent, revenue>>
  PROVE  JobInv'
<1> USE DEF JobInv
<1>1. /\ <<>> \in Seq(Events) /\ <<>> \in Seq(Rows) /\ Range(<<>>) = {} /\ IsInjective(<<>>)
  BY EmptySeq DEF Range, IsInjective
<1>2. JobTypes' /\ ToCome' /\ ToInsert'
  BY <1>1 DEF JobTypes, ToCome, ToInsert
<1>3. Job!CountedOnce'
  BY CountedIs, ConfirmedIs
<1>4. QED
  BY <1>2, <1>3

LEMMA SpendStep ==
  ASSUME JobInv, NEW e \in Events, Job!Spend(e) PROVE JobInv'
<1>1. /\ spent[e] = 0 /\ spent' = [spent EXCEPT ![e] = height]
      /\ UNCHANGED <<height, revenue, running, job, inserting>>
  BY DEF Job!Spend, Job!NotSpent
<1>2. height \in Nat /\ spent \in [Events -> Nat]
  BY DEF JobInv, JobTypes
<1>3. \A f \in Events : Job!IsConfirmed(f) => Job!IsConfirmed(f)'
  BY <1>1, <1>2, ConfirmedIs
<1>4. QED
  BY <1>1, <1>2, <1>3, ChainStep

LEMMA BlockStep ==
  ASSUME JobInv, Job!Block PROVE JobInv'
<1>1. height' = height + 1 /\ UNCHANGED <<spent, revenue, running, job, inserting>>
  BY DEF Job!Block
<1>2. height \in Nat /\ spent \in [Events -> Nat]
  BY DEF JobInv, JobTypes
<1>3. \A f \in Events : Job!IsConfirmed(f) => Job!IsConfirmed(f)'
  BY <1>1, <1>2, ConfirmedIs, Rowed
<1>4. QED
  BY <1>1, <1>2, <1>3, ChainStep

LEMMA StartStep ==
  ASSUME JobInv, Job!StartJob PROVE JobInv'
<1> USE DEF JobInv
<1> DEFINE unsaved == Job!getConfirmedUnsavedRevenueEvents
<1>1. /\ running' = TRUE /\ job' \in Job!SetToSeqs(unsaved)
      /\ inserting = <<>> /\ inserting' = <<>>
      /\ UNCHANGED <<height, spent, revenue>>
  BY DEF Job!StartJob, JobTypes
<1>2. /\ unsaved \subseteq Events
      /\ \A e \in unsaved : Job!IsConfirmed(e) /\ NoRowOf(e)
  <2>1. unsaved \subseteq Events
    BY DEF Job!getConfirmedUnsavedRevenueEvents
  <2>2. ASSUME NEW e \in unsaved PROVE Job!IsConfirmed(e) /\ NoRowOf(e)
    <3>1. e \in Events /\ Job!IsConfirmed(e) /\ ~Job!Saved(e)
      BY DEF Job!getConfirmedUnsavedRevenueEvents
    <3>2. \A r \in Range(rowsOf[e]) : revenue[r] \in Nat /\ ~(revenue[r] > 0)
      BY <3>1, Rowed DEF Job!Saved, Range, Job!Range, JobTypes
    <3>3. QED
      BY <3>1, <3>2 DEF NoRowOf
  <2>3. QED
    BY <2>1, <2>2
<1> HIDE DEF unsaved
<1>3. /\ job' \in Seq(unsaved) /\ IsInjective(job')
  <2>1. Cardinality(unsaved) \in Nat
    BY <1>2, Rowed, FS_Subset, FS_CardinalityType
  <2>2. /\ job' \in [1 .. Cardinality(unsaved) -> unsaved]
        /\ \A i, j \in 1 .. Cardinality(unsaved) : i # j => job'[i] # job'[j]
    BY <1>1 DEF Job!SetToSeqs, Cardinality, Job!Cardinality
  <2>3. job' \in Seq(unsaved)
    BY <2>1, <2>2, SeqDef
  <2>4. IsInjective(job')
    BY <2>2 DEF IsInjective
  <2>5. QED
    BY <2>3, <2>4
<1>4. job' \in Seq(Events) /\ Range(job') \subseteq unsaved
  <2>1. Range(job') \subseteq unsaved
    BY <1>3, RangeOfSeq
  <2>2. job' \in Seq(Events)
    BY <1>2, <1>3, SeqDef
  <2>3. QED
    BY <2>1, <2>2
<1>5. JobTypes'
  BY <1>1, <1>4 DEF JobTypes
<1>6. ToCome' /\ ToInsert'
  BY <1>1, <1>2, <1>3, <1>4, ConfirmedIs DEF ToCome, ToInsert, NoRowOf
<1>7. Job!CountedOnce'
  BY <1>1, CountedIs, ConfirmedIs
<1>8. QED
  BY <1>5, <1>6, <1>7

LEMMA TakeStep ==
  ASSUME JobInv, Job!TakeEvent PROVE JobInv'
<1> USE DEF JobInv
<1>1. /\ running /\ inserting = <<>>
      /\ IF job = <<>>
         THEN UNCHANGED <<job, inserting>>
         ELSE /\ inserting' = rowsOf[Head(job)] /\ job' = Tail(job)
              /\ UNCHANGED running
      /\ UNCHANGED <<height, spent, revenue>>
  BY DEF Job!TakeEvent
<1>2. CASE job = <<>>
  BY <1>1, <1>2, JobEnds
<1>3. CASE job # <<>>
  <2>1. /\ Tail(job) \in Seq(Events) /\ IsInjective(Tail(job))
        /\ Head(job) \in Range(job) /\ Head(job) \in Events
        /\ Range(Tail(job)) \subseteq Range(job) \ {Head(job)}
    BY <1>3, FirstOut DEF JobTypes, ToCome
  <2>2. inserting' = rowsOf[Head(job)] /\ job' = Tail(job) /\ running' = running
    BY <1>1, <1>3
  <2>3. JobTypes'
    BY <1>1, <2>1, <2>2, Rowed DEF JobTypes
  <2>4. ToCome'
    BY <1>1, <2>1, <2>2, ConfirmedIs DEF ToCome, NoRowOf
  <2>5. ToInsert'
    <3>1. PICK e \in Events \ Range(Tail(job)) : e = Head(job)
      BY <2>1
    <3>2. Job!IsConfirmed(e)' /\ NoRowOf(e)
      BY <1>1, <2>1, <3>1, ConfirmedIs DEF ToCome
    <3>3. /\ inserting' = rowsOf[e] /\ IsInjective(inserting')
          /\ \A r \in Range(inserting') : revenue'[r] = 0
          /\ e \in Events \ Range(job')
      BY <1>1, <2>2, <3>1, <3>2, Rowed DEF NoRowOf
    <3>4. QED
      BY <3>2, <3>3 DEF ToInsert
  <2>6. Job!CountedOnce'
    BY <1>1, CountedIs, ConfirmedIs
  <2>7. QED
    BY <2>3, <2>4, <2>5, <2>6
<1>4. QED
  BY <1>2, <1>3

LEMMA InsertStep ==
  ASSUME JobInv, Job!insertRevenue PROVE JobInv'
<1> USE DEF JobInv
<1> DEFINE row == Head(inserting)
<1>1. /\ inserting # <<>> /\ inserting' = Tail(inserting)
      /\ revenue' = [revenue EXCEPT ![row] = @ + 1]
      /\ UNCHANGED <<height, spent, running, job>>
  BY DEF Job!insertRevenue
<1>2. PICK e \in Events \ Range(job) :
        Job!IsConfirmed(e) /\ Range(inserting) \subseteq Range(rowsOf[e])
  BY <1>1 DEF ToInsert
<1>3. /\ Tail(inserting) \in Seq(Rows) /\ IsInjective(Tail(inserting))
      /\ row \in Range(inserting) /\ row \in Rows
      /\ Range(Tail(inserting)) \subseteq Range(inserting) \ {row}
  BY <1>1, FirstOut DEF JobTypes, ToInsert
<1>4. revenue[row] = 0 /\ row \in Range(rowsOf[e])
  BY <1>1, <1>2, <1>3 DEF ToInsert
<1> HIDE DEF row
<1>5. \A r \in Rows : revenue'[r] = IF r = row THEN 1 ELSE revenue[r]
  BY <1>1, <1>3, <1>4 DEF JobTypes
<1>6. JobTypes'
  BY <1>1, <1>3, <1>5 DEF JobTypes
<1>7. ToCome'
  <2>1. Range(job) \subseteq Events
    BY RangeOfSeq DEF JobTypes
  <2>2. ASSUME NEW f \in Range(job) PROVE NoRowOf(f)'
    <3>1. \A r \in Range(rowsOf[f]) : r # row /\ r \in Rows
      BY <1>2, <1>4, <2>1, Rowed
    <3>2. NoRowOf(f)
      BY DEF ToCome
    <3>3. QED
      BY <1>5, <3>1, <3>2 DEF NoRowOf
  <2>3. QED
    BY <1>1, <2>2, ConfirmedIs DEF ToCome
<1>8. ToInsert'
  <2>1. \A r \in Range(inserting') : revenue'[r] = 0
    <3>1. \A r \in Range(inserting') : r \in Range(inserting) /\ r # row /\ r \in Rows
      BY <1>1, <1>2, <1>3, Rowed
    <3>2. QED
      BY <1>1, <1>5, <3>1 DEF ToInsert
  <2>2. Range(inserting') \subseteq Range(rowsOf[e]) /\ Job!IsConfirmed(e)'
    BY <1>1, <1>2, <1>3, ConfirmedIs
  <2>3. QED
    BY <1>1, <1>3, <2>1, <2>2 DEF ToInsert
<1>9. Job!CountedOnce'
  <2>1. ASSUME NEW f \in Events, NEW r \in Range(rowsOf[f])
        PROVE  revenue'[r] <= 1 /\ (revenue'[r] = 1 => Job!IsConfirmed(f)')
    <3>1. r \in Rows /\ revenue'[r] = IF r = row THEN 1 ELSE revenue[r]
      BY <1>5, Rowed
    <3>2. r = row => f = e
      BY <1>4, Rowed
    <3>3. Job!IsConfirmed(e)' /\ (Job!IsConfirmed(f) => Job!IsConfirmed(f)')
      BY <1>1, <1>2, ConfirmedIs
    <3>4. revenue[r] <= 1 /\ (revenue[r] = 1 => Job!IsConfirmed(f))
      BY CountedIs
    <3>5. QED
      BY <3>1, <3>2, <3>3, <3>4
  <2>2. QED
    BY <2>1, CountedIs
<1>10. QED
  BY <1>6, <1>7, <1>8, <1>9

LEMMA JobHolds ==
  ASSUME JobInv, Job!RevenueNext PROVE JobInv'
<1>1. ASSUME Job!Fail PROVE JobInv'
  BY <1>1, JobEnds DEF Job!Fail, Job!Abort
<1>2. QED
  BY <1>1, SpendStep, BlockStep, StartStep, TakeStep, InsertStep DEF Job!RevenueNext

-----------------------------------------------------------------------------
(* The tss binary *)

TssInv ==
  /\ trustKey \in Nat
  /\ \/ processes = {} /\ timers = 1
     \/ processes = {trustKey} /\ timers = 0

LEMMA TssIs ==
  ASSUME TssInv PROVE Tss!OneBinary
<1>1. Cardinality({}) = 0 /\ Cardinality({trustKey}) = 1
  BY FS_EmptySet, FS_Singleton
<1>2. Tss!Cardinality(processes) = Cardinality(processes)
  BY DEF Tss!Cardinality, Cardinality
<1>3. QED
  BY <1>1, <1>2 DEF TssInv, Tss!OneBinary

LEMMA TssHolds ==
  ASSUME TssInv, Tss!TssNext PROVE TssInv'
<1> USE DEF TssInv
<1>1. ASSUME NEW k \in Tss!Keys, Tss!Close(k) PROVE TssInv'
  BY <1>1 DEF Tss!Close, Tss!RestartAfterGap
<1>2. ASSUME Tss!runBinary PROVE TssInv'
  BY <1>2 DEF Tss!runBinary
<1>3. CASE UNCHANGED <<trustKey, processes, timers>>
  BY <1>3
<1>4. QED
  BY <1>1, <1>2, <1>3
     DEF Tss!TssNext, Tss!sign, Tss!GiveUp, Tss!Answer, Tss!signRoute

-----------------------------------------------------------------------------
(* Theorems *)

ServicesInv == BookInv /\ JobInv /\ TssInv

LEMMA InitHolds ==
  ASSUME ServicesInit PROVE ServicesInv
<1>1. BookInv
  BY DEF ServicesInit, Book!AddressBookInit, Book!StartDialer, BookInv, Book!OneIntervalWhileAway
<1>2. /\ height = 1 /\ spent = [e \in Events |-> 0] /\ revenue = [r \in Rows |-> 0]
      /\ running = FALSE /\ job = <<>> /\ inserting = <<>>
  BY DEF ServicesInit, Job!RevenueInit, Job!NotSpent
<1>3. /\ <<>> \in Seq(Events) /\ <<>> \in Seq(Rows) /\ Range(<<>>) = {} /\ IsInjective(<<>>)
  BY EmptySeq DEF Range, IsInjective
<1>4. JobTypes /\ ToCome /\ ToInsert
  BY <1>2, <1>3 DEF JobTypes, ToCome, ToInsert
<1>5. Job!CountedOnce
  BY <1>2, CountedIs, Rowed
<1>6. TssInv
  BY DEF ServicesInit, Tss!TssInit, TssInv
<1>7. QED
  BY <1>1, <1>4, <1>5, <1>6 DEF ServicesInv, JobInv

LEMMA BookStays ==
  ASSUME BookInv, UNCHANGED bookVars PROVE BookInv'
BY DEF BookInv, bookVars, Book!OneIntervalWhileAway

LEMMA JobStays ==
  ASSUME JobInv, UNCHANGED jobVars PROVE JobInv'
<1>1. UNCHANGED <<height, spent, revenue, running, job, inserting>>
  BY DEF jobVars
<1>2. \A e : Job!IsConfirmed(e) => Job!IsConfirmed(e)'
  BY <1>1, ConfirmedIs
<1>3. height' \in Nat /\ spent' \in [Events -> Nat]
  BY <1>1 DEF JobInv, JobTypes
<1>4. QED
  BY <1>1, <1>2, <1>3, ChainStep

LEMMA TssStays ==
  ASSUME TssInv, UNCHANGED tssVars PROVE TssInv'
BY DEF TssInv, tssVars

\* The invariants of the parts: no interval of a relay that is connected and
\* one at most; every row the job is to insert is of one confirmed event and
\* not in the table; one binary, or one restart.
THEOREM PartsInvariant == ServicesSpec => []ServicesInv
<1>1. ServicesInit => ServicesInv
  BY InitHolds
<1>2. ServicesInv /\ [ServicesNext]_vars => ServicesInv'
  <2> SUFFICES ASSUME ServicesInv, [ServicesNext]_vars PROVE ServicesInv'
    OBVIOUS
  <2>1. BookInv'
    BY BookHolds, BookStays DEF ServicesInv, ServicesNext, Runs, vars
  <2>2. JobInv'
    BY JobHolds, JobStays DEF ServicesInv, ServicesNext, Runs, vars
  <2>3. TssInv'
    BY TssHolds, TssStays DEF ServicesInv, ServicesNext, Runs, vars
  <2>4. QED
    BY <2>1, <2>2, <2>3 DEF ServicesInv
<1>3. QED
  BY <1>1, <1>2, PTL DEF ServicesSpec

\* One interval at most adds a relay, and none while it is connected, for any
\* relays and however they come and go.
THEOREM OneIntervalAlways == ServicesSpec => []OneIntervalWhileAway
<1>1. ServicesInv => OneIntervalWhileAway
  BY DEF ServicesInv, BookInv, OneIntervalWhileAway
<1>2. QED
  BY <1>1, PartsInvariant, PTL

\* No row is inserted twice, however often the job fails, for any events whose
\* rows are their own.
THEOREM CountedOnceAlways == ServicesSpec => []CountedOnce
<1>1. ServicesInv => CountedOnce
  BY DEF ServicesInv, JobInv, CountedOnce
<1>2. QED
  BY <1>1, PartsInvariant, PTL

\* There is one binary or one restart that waits, however often it ends.
THEOREM OneBinaryAlways == ServicesSpec => []OneBinary
<1>1. ServicesInv => OneBinary
  BY TssIs DEF ServicesInv, OneBinary
<1>2. QED
  BY <1>1, PartsInvariant, PTL
=============================================================================
