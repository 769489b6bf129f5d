-------------------------- MODULE EventOrderProofs --------------------------
(***************************************************************************)
(* Theorems about EventOrder, for any guards and watchers, any fees and    *)
(* percentages, and any numbers of commitments and blocks.                 *)
(***************************************************************************)
EXTENDS EventOrder, NaturalsInduction, SequenceTheorems, FiniteSetTheorems, TLAPS

-----------------------------------------------------------------------------
(* Sums *)

\* Induction over a set of numbers.
LEMMA AllNumbers ==
  ASSUME NEW T \in SUBSET Nat, 0 \in T, \A n \in T : n + 1 \in T
  PROVE  T = Nat
<1> DEFINE R == {ss \in Nat \X Nat : ss[1] < ss[2]}
<1>1. SUFFICES ASSUME Nat \ T # {} PROVE FALSE
  OBVIOUS
<1>2. PICK n \in Nat \ T : \A m \in Nat \ T : ~(<<m, n>> \in R)
  <2>1. IsWellFoundedOn(R, Nat)
    BY NatLessThanWellFounded DEF OpToRel
  <2> HIDE DEF R
  <2>2. QED
    BY <1>1, <2>1, WFMin
<1>3. \A m \in Nat \ T : ~(m < n)
  BY <1>2
<1>4. n # 0 /\ n - 1 \in Nat
  OBVIOUS
<1>5. n - 1 \in T
  BY <1>3, <1>4
<1>6. (n - 1) + 1 = n
  OBVIOUS
<1>7. QED
  BY <1>5, <1>6

\* The sums of the first members of a sequence.
PartialSums(s, k, F) ==
  /\ F = [n \in 0 .. k |-> F[n]]
  /\ F[0] = 0
  /\ \A n \in 1 .. k : F[n] = F[n - 1] + s[n]

LEMMA PartialSumsUnique ==
  ASSUME NEW s, NEW k \in Nat, NEW F, NEW G,
         PartialSums(s, k, F), PartialSums(s, k, G)
  PROVE  \A n \in 0 .. k : G[n] = F[n]
<1> DEFINE T == {n \in Nat : n <= k => G[n] = F[n]}
<1>1. 0 \in T
  BY DEF PartialSums
<1>2. ASSUME NEW n \in T PROVE n + 1 \in T
  <2>1. CASE n + 1 <= k
    <3>1. n + 1 \in 1 .. k /\ (n + 1) - 1 = n /\ n <= k /\ n + 1 \in Nat
      BY <2>1
    <3>2. G[n + 1] = G[n] + s[n + 1] /\ F[n + 1] = F[n] + s[n + 1]
      BY <3>1 DEF PartialSums
    <3>3. QED
      BY <3>1, <3>2
  <2>2. QED
    BY <2>1
<1> HIDE DEF T
<1>3. T = Nat
  BY <1>1, <1>2, AllNumbers DEF T
<1>4. QED
  BY <1>3 DEF T

LEMMA PartialSumsExist ==
  ASSUME NEW s \in Seq(Int)
  PROVE  \E F \in [0 .. Len(s) -> Int] : PartialSums(s, Len(s), F)
<1> DEFINE T == {k \in Nat : k <= Len(s) =>
                    \E F \in [0 .. k -> Int] : PartialSums(s, k, F)}
<1>1. 0 \in T
  <2> DEFINE F == [n \in 0 .. 0 |-> 0]
  <2>1. F \in [0 .. 0 -> Int] /\ PartialSums(s, 0, F)
    BY DEF PartialSums
  <2>2. QED
    BY <2>1
<1>2. ASSUME NEW k \in T PROVE k + 1 \in T
  <2>1. SUFFICES ASSUME k + 1 <= Len(s) 
               PROVE \E F \in [0 .. k + 1 -> Int] : PartialSums(s, k + 1, F)
    OBVIOUS
  <2>2. PICK F \in [0 .. k -> Int] : PartialSums(s, k, F)
    BY <2>1
  <2> DEFINE G == [n \in 0 .. k + 1 |-> IF n = k + 1 THEN F[k] + s[k + 1] ELSE F[n]]
  <2>3. s[k + 1] \in Int /\ k \in Nat /\ F[k] \in Int
    BY <2>1, <2>2 DEF PartialSums
  <2>4. G \in [0 .. k + 1 -> Int]
    BY <2>2, <2>3 DEF PartialSums
  <2>5. G[0] = 0
    BY <2>2, <2>3 DEF PartialSums
  <2>6. ASSUME NEW n \in 1 .. k + 1 PROVE G[n] = G[n - 1] + s[n]
    <3>1. CASE n = k + 1
      <4>1. n - 1 = k /\ n - 1 # k + 1 /\ n - 1 \in 0 .. k + 1
        BY <2>3, <3>1
      <4>2. G[n] = F[k] + s[k + 1] /\ G[n - 1] = F[k]
        BY <3>1, <4>1
      <4>3. QED
        BY <3>1, <4>2
    <3>2. CASE n # k + 1
      <4>1. n \in 1 .. k /\ n - 1 \in 0 .. k + 1 /\ n - 1 # k + 1
        BY <2>3, <3>2
      <4>2. G[n] = F[n] /\ G[n - 1] = F[n - 1]
        BY <3>2, <4>1
      <4>3. QED
        BY <2>2, <4>1, <4>2 DEF PartialSums
    <3>3. QED
      BY <3>1, <3>2
  <2> HIDE DEF G
  <2>7. PartialSums(s, k + 1, G)
    BY <2>4, <2>5, <2>6 DEF PartialSums
  <2>8. QED
    BY <2>4, <2>7
<1> HIDE DEF T
<1>3. T = Nat
  BY <1>1, <1>2, AllNumbers DEF T
<1>4. Len(s) \in Nat /\ Len(s) \in T /\ Len(s) <= Len(s)
  BY <1>3
<1>5. QED
  BY <1>4 DEF T

\* The recursive definition computes the last of them.
LEMMA SumIs ==
  ASSUME NEW s \in Seq(Int), NEW F \in [0 .. Len(s) -> Int],
         PartialSums(s, Len(s), F)
  PROVE  Sum(s) = F[Len(s)] /\ Sum(s) \in Int
<1> DEFINE Def(f) == [n \in 0 .. Len(s) |-> IF n = 0 THEN 0 ELSE f[n - 1] + s[n]]
           G == CHOOSE f : f = Def(f)
<1>1. F = Def(F)
  <2>1. Len(s) \in Nat /\ F = [n \in 0 .. Len(s) |-> F[n]]
    BY LenProperties DEF PartialSums
  <2>2. ASSUME NEW n \in 0 .. Len(s)
        PROVE  F[n] = IF n = 0 THEN 0 ELSE F[n - 1] + s[n]
    <3>1. n = 0 \/ n \in 1 .. Len(s)
      BY <2>1
    <3>2. F[0] = 0 /\ \A m \in 1 .. Len(s) : F[m] = F[m - 1] + s[m]
      BY DEF PartialSums
    <3>3. CASE n = 0
      BY <3>2, <3>3
    <3>4. CASE n \in 1 .. Len(s)
      BY <2>1, <3>2, <3>4
    <3>5. QED
      BY <3>1, <3>3, <3>4
  <2>3. QED
    BY <2>1, <2>2
<1>2. G = Def(G)
  BY <1>1
<1>3. Sum(s) = G[Len(s)]
  BY DEF Sum
<1> HIDE DEF G
<1>4. Len(s) \in Nat /\ DOMAIN G = 0 .. Len(s)
  BY <1>2, LenProperties
<1>5. G[0] = 0 /\ \A n \in 1 .. Len(s) : G[n] = G[n - 1] + s[n]
  <2>1. \A n \in 0 .. Len(s) : G[n] = IF n = 0 THEN 0 ELSE G[n - 1] + s[n]
    BY <1>2
  <2>2. QED
    BY <1>4, <2>1
<1>6. G[Len(s)] = F[Len(s)]
  <2> DEFINE k == Len(s)
  <2>1. k \in Nat /\ k \in 0 .. k
    BY <1>4
  <2>2. PartialSums(s, k, F) /\ PartialSums(s, k, G)
    BY <1>2, <1>4, <1>5 DEF PartialSums
  <2> HIDE DEF k
  <2>3. \A n \in 0 .. k : G[n] = F[n]
    BY <2>1, <2>2, PartialSumsUnique
  <2>4. QED
    BY <2>1, <2>3 DEF k
<1>7. QED
  BY <1>3, <1>4, <1>6 DEF PartialSums

\* A sequence has partial sums, and the last of them is its sum.
LEMMA SumHas ==
  ASSUME NEW s \in Seq(Int)
  PROVE  \E F \in [0 .. Len(s) -> Int] :
           /\ F[0] = 0 /\ \A n \in 1 .. Len(s) : F[n] = F[n - 1] + s[n]
           /\ Sum(s) = F[Len(s)] /\ Sum(s) \in Int
<1>1. PICK F \in [0 .. Len(s) -> Int] : PartialSums(s, Len(s), F)
  BY PartialSumsExist
<1>2. Sum(s) = F[Len(s)] /\ Sum(s) \in Int
  BY <1>1, SumIs
<1>3. F[0] = 0 /\ \A n \in 1 .. Len(s) : F[n] = F[n - 1] + s[n]
  BY <1>1 DEF PartialSums
<1>4. QED
  BY <1>2, <1>3

LEMMA SumBy ==
  ASSUME NEW s \in Seq(Int), NEW F \in [0 .. Len(s) -> Int],
         F[0] = 0, \A n \in 1 .. Len(s) : F[n] = F[n - 1] + s[n]
  PROVE  Sum(s) = F[Len(s)]
<1>1. F = [n \in 0 .. Len(s) |-> F[n]]
  OBVIOUS
<1>2. PartialSums(s, Len(s), F)
  BY <1>1 DEF PartialSums
<1>3. QED
  BY <1>2, SumIs

\* The sum of a sequence whose members are all the same.
LEMMA SumOfSame ==
  ASSUME NEW s \in Seq(Int), NEW c \in Int, \A i \in 1 .. Len(s) : s[i] = c
  PROVE  Sum(s) = Len(s) * c
<1> DEFINE F == [n \in 0 .. Len(s) |-> n * c]
<1>1. Len(s) \in Nat
  BY LenProperties
<1>2. F \in [0 .. Len(s) -> Int] /\ F[0] = 0 /\ F[Len(s)] = Len(s) * c
  BY <1>1
<1>3. ASSUME NEW n \in 1 .. Len(s) PROVE F[n] = F[n - 1] + s[n]
  <2>1. n \in Int /\ n - 1 \in 0 .. Len(s) /\ n \in 0 .. Len(s) /\ s[n] = c
    BY <1>1
  <2>2. F[n] = n * c /\ F[n - 1] = (n - 1) * c
    BY <2>1
  <2>3. n * c = (n - 1) * c + c
    BY <2>1
  <2>4. QED
    BY <2>1, <2>2, <2>3
<1> HIDE DEF F
<1>4. QED
  BY <1>2, <1>3, SumBy

\* Sums add up, member by member.
LEMMA SumOfPlus ==
  ASSUME NEW s \in Seq(Int), NEW t \in Seq(Int), NEW u \in Seq(Int),
         Len(s) = Len(u), Len(t) = Len(u),
         \A i \in 1 .. Len(u) : u[i] = s[i] + t[i]
  PROVE  Sum(u) = Sum(s) + Sum(t)
<1>1. PICK F \in [0 .. Len(s) -> Int] :
        /\ F[0] = 0 /\ \A n \in 1 .. Len(s) : F[n] = F[n - 1] + s[n]
        /\ Sum(s) = F[Len(s)] /\ Sum(s) \in Int
  BY SumHas
<1>2. PICK G \in [0 .. Len(t) -> Int] :
        /\ G[0] = 0 /\ \A n \in 1 .. Len(t) : G[n] = G[n - 1] + t[n]
        /\ Sum(t) = G[Len(t)] /\ Sum(t) \in Int
  BY SumHas
<1> DEFINE H == [n \in 0 .. Len(u) |-> F[n] + G[n]]
<1>3. Len(u) \in Nat
  BY LenProperties
<1>4. /\ H \in [0 .. Len(u) -> Int] /\ H[0] = 0
      /\ H[Len(u)] = Sum(s) + Sum(t)
  BY <1>1, <1>2, <1>3
<1>5. ASSUME NEW n \in 1 .. Len(u) PROVE H[n] = H[n - 1] + u[n]
  <2>1. /\ n - 1 \in 0 .. Len(u) /\ n \in 0 .. Len(u)
        /\ s[n] \in Int /\ t[n] \in Int /\ u[n] = s[n] + t[n]
    BY <1>3
  <2>2. /\ F[n] = F[n - 1] + s[n] /\ G[n] = G[n - 1] + t[n]
        /\ F[n - 1] \in Int /\ G[n - 1] \in Int
    BY <1>1, <1>2, <2>1
  <2>3. H[n] = F[n] + G[n] /\ H[n - 1] = F[n - 1] + G[n - 1]
    BY <2>1
  <2> DEFINE a == F[n - 1]
             b == G[n - 1]
             x == s[n]
             y == t[n]
  <2>4. /\ a \in Int /\ b \in Int /\ x \in Int /\ y \in Int
        /\ H[n] = (a + x) + (b + y) /\ H[n - 1] = a + b /\ u[n] = x + y
    BY <2>1, <2>2, <2>3
  <2> HIDE DEF a, b, x, y
  <2>5. (a + x) + (b + y) = (a + b) + (x + y)
    BY <2>4
  <2>6. QED
    BY <2>4, <2>5
<1> HIDE DEF H
<1>6. QED
  BY <1>4, <1>5, SumBy

\* The sum of two sequences in a row.
LEMMA SumOfConcat ==
  ASSUME NEW s \in Seq(Int), NEW t \in Seq(Int)
  PROVE  Sum(s \o t) = Sum(s) + Sum(t)
<1>1. PICK F \in [0 .. Len(s) -> Int] :
        /\ F[0] = 0 /\ \A n \in 1 .. Len(s) : F[n] = F[n - 1] + s[n]
        /\ Sum(s) = F[Len(s)] /\ Sum(s) \in Int
  BY SumHas
<1>2. PICK G \in [0 .. Len(t) -> Int] :
        /\ G[0] = 0 /\ \A n \in 1 .. Len(t) : G[n] = G[n - 1] + t[n]
        /\ Sum(t) = G[Len(t)] /\ Sum(t) \in Int
  BY SumHas
<1> DEFINE u == s \o t
           m == Len(s)
           k == Len(t)
           H == [n \in 0 .. m + k |-> IF n <= m THEN F[n] ELSE F[m] + G[n - m]]
<1>3. /\ m \in Nat /\ k \in Nat /\ u \in Seq(Int) /\ Len(u) = m + k
      /\ \A i \in 1 .. m + k : u[i] = IF i <= m THEN s[i] ELSE t[i - m]
  BY LenProperties, ConcatProperties
<1>4. /\ F[m] \in Int /\ F[m] = Sum(s) /\ G[k] = Sum(t) /\ G[0] = 0 /\ F[0] = 0
      /\ \A n \in 0 .. m : F[n] \in Int
      /\ \A n \in 0 .. k : G[n] \in Int
      /\ \A n \in 1 .. m : F[n] = F[n - 1] + s[n]
      /\ \A n \in 1 .. k : G[n] = G[n - 1] + t[n]
  BY <1>1, <1>2, <1>3
<1> HIDE DEF u, m, k
<1>5. H \in [0 .. m + k -> Int] /\ H[0] = 0
  <2>1. ASSUME NEW n \in 0 .. m + k
        PROVE  (IF n <= m THEN F[n] ELSE F[m] + G[n - m]) \in Int
    <3>1. CASE n <= m
      BY <1>3, <1>4, <3>1
    <3>2. CASE ~(n <= m)
      <4>1. n - m \in 0 .. k
        BY <1>3, <3>2
      <4>2. QED
        BY <1>4, <3>2, <4>1
    <3>3. QED
      BY <3>1, <3>2
  <2>2. 0 \in 0 .. m + k /\ 0 <= m
    BY <1>3
  <2>3. QED
    BY <1>4, <2>1, <2>2
<1>6. H[m + k] = Sum(s) + Sum(t)
  <2>1. CASE k = 0
    BY <1>3, <1>4, <1>2, <2>1
  <2>2. CASE k # 0
    BY <1>3, <1>4, <1>2, <2>2
  <2>3. QED
    BY <2>1, <2>2
<1>7. ASSUME NEW n \in 1 .. m + k PROVE H[n] = H[n - 1] + u[n]
  <2>1. CASE n <= m
    <3>1. n \in 1 .. m /\ n - 1 \in 0 .. m + k /\ n \in 0 .. m + k /\ n - 1 <= m
      BY <1>3, <2>1
    <3>2. H[n] = F[n] /\ H[n - 1] = F[n - 1] /\ u[n] = s[n]
      BY <1>3, <2>1, <3>1
    <3>3. QED
      BY <1>4, <3>1, <3>2
  <2>2. CASE n = m + 1
    <3>1. /\ n - 1 = m /\ n - m = 1 /\ 1 \in 1 .. k /\ ~(n <= m)
          /\ n \in 0 .. m + k /\ n - 1 \in 0 .. m + k
      BY <1>3, <2>2
    <3>2. H[n] = F[m] + G[n - m] /\ H[n - 1] = F[n - 1] /\ u[n] = t[n - m]
      <4>1. n - 1 <= m
        BY <1>3, <3>1
      <4>2. QED
        BY <1>3, <3>1, <4>1
    <3>3. G[1] = t[1] /\ G[1] \in Int
      <4>1. G[1] = G[1 - 1] + t[1] /\ 1 - 1 = 0 /\ 1 \in 0 .. k
        BY <1>3, <1>4, <3>1
      <4>2. t[1] \in Int
        BY <3>1 DEF k
      <4>3. QED
        BY <1>4, <4>1, <4>2
    <3>4. QED
      BY <1>4, <3>1, <3>2, <3>3
  <2>3. CASE n > m + 1
    <3>1. /\ n - m \in 1 .. k /\ ~(n <= m) /\ ~(n - 1 <= m)
          /\ n \in 0 .. m + k /\ n - 1 \in 0 .. m + k
          /\ (n - m) - 1 \in 0 .. k /\ (n - 1) - m = (n - m) - 1
      BY <1>3, <2>3
    <3>2. H[n] = F[m] + G[n - m] /\ H[n - 1] = F[m] + G[(n - m) - 1]
          /\ u[n] = t[n - m]
      BY <1>3, <3>1
    <3>3. G[n - m] = G[(n - m) - 1] + t[n - m] /\ G[(n - m) - 1] \in Int
      BY <1>4, <3>1
    <3>4. t[n - m] \in Int
      BY <3>1 DEF k
    <3>5. QED
      BY <1>4, <3>2, <3>3, <3>4, SMTT(20)
  <2>4. QED
    BY <1>3, <2>1, <2>2, <2>3
<1> HIDE DEF H
<1>8. Sum(u) = H[m + k]
  BY <1>3, <1>5, <1>7, SumBy
<1>9. QED
  BY <1>6, <1>8 DEF u

\* The members of two sequences in a row.
LEMMA InARow ==
  ASSUME NEW S, NEW s \in Seq(S), NEW t \in Seq(S)
  PROVE  /\ s \o t \in Seq(S) /\ Len(s \o t) = Len(s) + Len(t)
         /\ Len(s) \in Nat /\ Len(t) \in Nat
         /\ \A k \in 1 .. Len(s) : (s \o t)[k] = s[k]
         /\ \A k \in 1 .. Len(t) : (s \o t)[Len(s) + k] = t[k]
<1> DEFINE u == s \o t
           m == Len(s)
           v == Len(t)
<1>1. /\ u \in Seq(S) /\ Len(u) = m + v /\ m \in Nat /\ v \in Nat
      /\ \A i \in 1 .. m + v : u[i] = IF i <= m THEN s[i] ELSE t[i - m]
  BY ConcatProperties, LenProperties
<1> HIDE DEF u, m, v
<1>2. ASSUME NEW k \in 1 .. m PROVE u[k] = s[k]
  BY <1>1
<1>3. ASSUME NEW k \in 1 .. v PROVE u[m + k] = t[k]
  <2>1. m + k \in 1 .. m + v /\ ~(m + k <= m) /\ (m + k) - m = k
    BY <1>1
  <2>2. QED
    BY <1>1, <2>1
<1>4. QED
  BY <1>1, <1>2, <1>3 DEF u, m, v

-----------------------------------------------------------------------------
(* The order of a table *)

Increasing(s, n) == \A i, j \in 1 .. n : i < j => s[i] < s[j]

\* A set of places that is not empty has a last one.
LEMMA LastExists ==
  ASSUME NEW L \in Nat, NEW I \in SUBSET (1 .. L), I # {}
  PROVE  \E x \in I : \A y \in I : y <= x
<1> DEFINE T == {k \in Nat : \A J \in SUBSET (1 .. k) :
                   J # {} => \E x \in J : \A y \in J : y <= x}
<1>1. 0 \in T
  <2>1. 1 .. 0 = {}
    OBVIOUS
  <2>2. QED
    BY <2>1
<1>2. ASSUME NEW k \in T PROVE k + 1 \in T
  <2>1. SUFFICES ASSUME NEW J \in SUBSET (1 .. k + 1), J # {}
                 PROVE  \E x \in J : \A y \in J : y <= x
    OBVIOUS
  <2>2. CASE k + 1 \in J
    BY <2>2
  <2>3. CASE k + 1 \notin J
    <3>1. J \subseteq 1 .. k
      BY <2>3
    <3>2. QED
      BY <2>1, <3>1
  <2>4. QED
    BY <2>2, <2>3
<1> HIDE DEF T
<1>3. T = Nat
  BY <1>1, <1>2, AllNumbers DEF T
<1>4. L \in T
  BY <1>3
<1>5. QED
  BY <1>4 DEF T

\* Places can be put in order.
LEMMA OrderExists ==
  ASSUME NEW L \in Nat, NEW I \in SUBSET (1 .. L)
  PROVE  /\ IsFiniteSet(I) /\ Cardinality(I) \in Nat
         /\ \E s \in Bijection(1 .. Cardinality(I), I) :
              Increasing(s, Cardinality(I))
<1>f. ASSUME NEW J \in SUBSET (1 .. L)
      PROVE  IsFiniteSet(J) /\ Cardinality(J) \in Nat
  <2>1. IsFiniteSet(1 .. L)
    BY FS_Interval
  <2>2. IsFiniteSet(J)
    BY <2>1, FS_Subset
  <2>3. QED
    BY <2>2, FS_CardinalityType
<1> DEFINE T == {n \in Nat : \A J \in SUBSET (1 .. L) : Cardinality(J) = n =>
                   \E s \in Bijection(1 .. n, J) : Increasing(s, n)}
<1>1. 0 \in T
  <2>1. SUFFICES ASSUME NEW J \in SUBSET (1 .. L), Cardinality(J) = 0
                 PROVE  \E s \in Bijection(1 .. 0, J) : Increasing(s, 0)
    OBVIOUS
  <2>2. J = {}
    BY <1>f, <2>1, FS_EmptySet
  <2> DEFINE s == [i \in 1 .. 0 |-> i]
  <2>3. s \in Bijection(1 .. 0, J)
    BY <2>2 DEF Bijection, Injection, Surjection, IsInjective
  <2>4. Increasing(s, 0)
    BY DEF Increasing
  <2>5. QED
    BY <2>3, <2>4
<1>2. ASSUME NEW n \in T PROVE n + 1 \in T
  <2>1. SUFFICES ASSUME NEW J \in SUBSET (1 .. L), Cardinality(J) = n + 1
                 PROVE  \E s \in Bijection(1 .. n + 1, J) : Increasing(s, n + 1)
    OBVIOUS
  <2>2. n \in Nat /\ J # {}
    BY <2>1, FS_EmptySet
  <2>3. PICK x \in J : \A y \in J : y <= x
    BY <2>2, LastExists
  <2> DEFINE K == J \ {x}
  <2>4. K \in SUBSET (1 .. L) /\ Cardinality(K) = n
    BY <1>f, <2>1, <2>2, FS_RemoveElement
  <2>5. PICK s \in Bijection(1 .. n, K) : Increasing(s, n)
    BY <2>4
  <2>6. /\ s \in [1 .. n -> K]
        /\ \A i, j \in 1 .. n : s[i] = s[j] => i = j
        /\ \A y \in K : \E i \in 1 .. n : s[i] = y
    BY DEF Bijection, Injection, Surjection, IsInjective
  <2> DEFINE G == [i \in 1 .. n + 1 |-> IF i = n + 1 THEN x ELSE s[i]]
  <2>7. \A i \in 1 .. n + 1 : i = n + 1 \/ (i \in 1 .. n /\ i # n + 1)
    BY <2>2
  <2>8. \A i \in 1 .. n : G[i] = s[i] /\ s[i] \in J /\ s[i] # x /\ i \in 1 .. n + 1
    BY <2>2, <2>6
  <2>9. G[n + 1] = x /\ n + 1 \in 1 .. n + 1
    BY <2>2
  <2>10. G \in [1 .. n + 1 -> J]
    BY <2>7, <2>8
  <2> HIDE DEF G
  <2>11. \A i, j \in 1 .. n + 1 : G[i] = G[j] => i = j
    BY <2>6, <2>7, <2>8, <2>9
  <2>12. \A y \in J : \E i \in 1 .. n + 1 : G[i] = y
    <3>1. SUFFICES ASSUME NEW y \in J PROVE \E i \in 1 .. n + 1 : G[i] = y
      OBVIOUS
    <3>2. CASE y = x
      BY <2>9, <3>2
    <3>3. CASE y # x
      <4>1. PICK i \in 1 .. n : s[i] = y
        BY <2>6, <3>3
      <4>2. QED
        BY <2>8, <4>1
    <3>4. QED
      BY <3>2, <3>3
  <2>13. G \in Bijection(1 .. n + 1, J)
    BY <2>10, <2>11, <2>12 DEF Bijection, Injection, Surjection, IsInjective
  <2>14. Increasing(G, n + 1)
    <3>1. SUFFICES ASSUME NEW i \in 1 .. n + 1, NEW j \in 1 .. n + 1, i < j
                   PROVE  G[i] < G[j]
      BY DEF Increasing
    <3>2. i \in 1 .. n /\ G[i] = s[i] /\ s[i] \in J /\ s[i] # x
      BY <2>2, <2>8, <3>1
    <3>3. CASE j = n + 1
      <4>1. s[i] <= x
        BY <2>3, <3>2
      <4>2. s[i] \in 1 .. L /\ x \in 1 .. L
        BY <2>1, <3>2
      <4>3. QED
        BY <2>9, <3>2, <3>3, <4>1, <4>2
    <3>4. CASE j \in 1 .. n
      BY <2>5, <2>8, <3>1, <3>2, <3>4 DEF Increasing
    <3>5. QED
      BY <2>7, <3>3, <3>4
  <2>15. QED
    BY <2>13, <2>14
<1> HIDE DEF T
<1>3. T = Nat
  BY <1>1, <1>2, AllNumbers DEF T
<1>4. Cardinality(I) \in T
  BY <1>3, <1>f
<1>5. QED
  BY <1>f, <1>4 DEF T

\* InOrder has each place once.
LEMMA InOrderIs ==
  ASSUME NEW L \in Nat, NEW I \in SUBSET (1 .. L)
  PROVE  /\ IsFiniteSet(I) /\ Cardinality(I) \in Nat
         /\ InOrder(I) \in [1 .. Cardinality(I) -> I]
         /\ \A i, j \in 1 .. Cardinality(I) :
              InOrder(I)[i] = InOrder(I)[j] => i = j
         /\ \A x \in I : \E i \in 1 .. Cardinality(I) : InOrder(I)[i] = x
<1>1. /\ IsFiniteSet(I) /\ Cardinality(I) \in Nat
      /\ \E s \in Bijection(1 .. Cardinality(I), I) : Increasing(s, Cardinality(I))
  BY OrderExists
<1>2. InOrder(I) \in Bijection(1 .. Cardinality(I), I)
  BY <1>1 DEF InOrder, Increasing
<1>3. QED
  BY <1>1, <1>2 DEF Bijection, Injection, Surjection, IsInjective

-----------------------------------------------------------------------------
(* The invariant *)

Commitment ==
  [WID : Watchers, rwtCount : RwtCounts, boxValue : Nat, height : Nat,
   spendBlock : Nat, merged : BOOLEAN]

OrderTypes ==
  /\ event \in [height : Nat, rwt : Int, value : Int, data : Events]
  /\ chain \in Seq(Commitment)
  /\ height \in Nat \ {0} /\ height <= MaxHeight
  /\ scanned \in [Guards -> Nat]
  /\ \A g \in Guards : scanned[g] < height

\* The merged commitments are those of the trigger, one of each watcher, and
\* the event holds what they held.
MergedInv ==
  /\ \A i \in Merged : chain[i].spendBlock = event.height
  /\ event.height = NotTriggered => Merged = {}
  /\ event.height # NotTriggered =>
       /\ event.height <= height
       /\ Merged # {}
       /\ event.rwt = SumOf(Merged, "rwtCount")
       /\ event.value = SumOf(Merged, "boxValue")
  /\ \A i, j \in Merged : chain[i].WID = chain[j].WID => i = j
  /\ \A i, j \in Merged : chain[i].rwtCount = chain[j].rwtCount

\* A guard read the boxes and made the order after the trigger, from blocks it
\* had scanned: it would find the same there now.
TxMade(g) ==
  tx[g] # NoTx =>
    /\ tx[g].readAt \in Nat
    /\ event.height <= tx[g].readAt /\ tx[g].readAt <= scanned[g]
    /\ tx[g].boxes = getEventValidCommitments(tx[g].readAt)
    /\ tx[g].built \in BOOLEAN
    /\ tx[g].built =>
         /\ tx[g].builtAt \in Nat
         /\ event.height <= tx[g].builtAt /\ tx[g].builtAt <= scanned[g]
         /\ tx[g].order = DistributingOrder(tx[g].builtAt)

OrderInv ==
  /\ OrderTypes
  /\ MergedInv
  /\ tx = [g \in Guards |-> tx[g]]
  /\ \A g \in Guards : TxMade(g)

LEMMA InitOrder == EventOrderInit => OrderInv
<1> SUFFICES ASSUME EventOrderInit PROVE OrderInv
  OBVIOUS
<1> USE EventOrderAssumption
<1>1. OrderTypes
  BY DEF EventOrderInit, OrderTypes, NotTriggered, Never
<1>2. MergedInv
  BY DEF EventOrderInit, MergedInv, Merged
<1>3. tx = [g \in Guards |-> tx[g]] /\ \A g \in Guards : TxMade(g)
  BY DEF EventOrderInit, TxMade
<1>4. QED
  BY <1>1, <1>2, <1>3 DEF OrderInv

-----------------------------------------------------------------------------
(* What was scanned stays *)

\* A table of another block is the same up to the block b.
TableStays(b) ==
  /\ event' = event /\ Merged' = Merged
  /\ DOMAIN chain \subseteq DOMAIN chain'
  /\ \A i \in DOMAIN chain :
       /\ chain'[i].WID = chain[i].WID
       /\ chain'[i].rwtCount = chain[i].rwtCount
       /\ chain'[i].boxValue = chain[i].boxValue
       /\ chain'[i].height = chain[i].height
       /\ chain'[i].spendBlock <= b <=> chain[i].spendBlock <= b
  /\ \A i \in DOMAIN chain' \ DOMAIN chain : ~(chain'[i].height <= b)

LEMMA RowsStay ==
  ASSUME NEW b, TableStays(b)
  PROVE  /\ getValidCommitments(b)' = getValidCommitments(b)
         /\ getEventCommitments(b)' = getEventCommitments(b)
         /\ getEventWIDs(b)' = getEventWIDs(b)
<1>1. getValidCommitments(b)' = getValidCommitments(b)
  BY DEF TableStays, getValidCommitments, BeforeEvent, IsSpent
<1>2. Merged \subseteq DOMAIN chain
  BY DEF Merged
<1>3. getEventCommitments(b)' = getEventCommitments(b)
  BY <1>2 DEF TableStays, getEventCommitments, IsSpent
<1>4. getEventCommitments(b) \subseteq DOMAIN chain
  BY <1>2 DEF getEventCommitments
<1>5. getEventWIDs(b)' = getEventWIDs(b)
  BY <1>3, <1>4 DEF TableStays, getEventWIDs
<1>6. QED
  BY <1>1, <1>3, <1>5

LEMMA BoxesStay ==
  ASSUME NEW b, TableStays(b)
  PROVE  getEventValidCommitments(b)' = getEventValidCommitments(b)
<1>1. /\ getValidCommitments(b)' = getValidCommitments(b)
      /\ getEventWIDs(b)' = getEventWIDs(b)
  BY RowsStay
<1>2. getValidCommitments(b) \subseteq DOMAIN chain
  BY DEF getValidCommitments
<1>3. uniqByWID(getValidCommitments(b))' = uniqByWID(getValidCommitments(b))
  BY <1>1, <1>2 DEF TableStays, uniqByWID
<1>4. uniqByWID(getValidCommitments(b)) \subseteq DOMAIN chain
  BY <1>2 DEF uniqByWID
<1>5. eventRwtCount' = eventRwtCount
  BY DEF TableStays, eventRwtCount, WIDsCount
<1>6. QED
  BY <1>1, <1>3, <1>4, <1>5
     DEF TableStays, getEventValidCommitments, IsValidCommitment

\* The places of a table.
LEMMA Places ==
  ASSUME OrderTypes
  PROVE  /\ Len(chain) \in Nat /\ DOMAIN chain = 1 .. Len(chain)
         /\ \A i \in DOMAIN chain : chain[i] \in Commitment
BY LenProperties DEF OrderTypes

LEMMA OrderOfPlaces ==
  ASSUME OrderTypes, NEW I \in SUBSET DOMAIN chain
  PROVE  /\ IsFiniteSet(I) /\ Cardinality(I) \in Nat
         /\ InOrder(I) \in [1 .. Cardinality(I) -> I]
         /\ \A i, j \in 1 .. Cardinality(I) :
              InOrder(I)[i] = InOrder(I)[j] => i = j
         /\ \A x \in I : \E i \in 1 .. Cardinality(I) : InOrder(I)[i] = x
BY Places, InOrderIs

LEMMA SumsStay ==
  ASSUME OrderTypes, NEW b, TableStays(b), NEW I \in SUBSET DOMAIN chain
  PROVE  /\ SumOf(I, "rwtCount")' = SumOf(I, "rwtCount")
         /\ SumOf(I, "boxValue")' = SumOf(I, "boxValue")
<1>1. \A k \in 1 .. Cardinality(I) : InOrder(I)[k] \in DOMAIN chain
  BY OrderOfPlaces
<1>2. QED
  BY <1>1 DEF TableStays, SumOf

LEMMA OrderStays ==
  ASSUME OrderTypes, NEW b, TableStays(b)
  PROVE  DistributingOrder(b)' = DistributingOrder(b)
<1> DEFINE M == getEventCommitments(b)
           V == getEventValidCommitments(b)
<1>1. M' = M /\ V' = V /\ M \subseteq DOMAIN chain /\ V \subseteq DOMAIN chain
  BY RowsStay, BoxesStay DEF getEventCommitments, Merged, getEventValidCommitments,
     uniqByWID, getValidCommitments
<1>2. /\ \A k \in 1 .. Cardinality(M) : InOrder(M)[k] \in DOMAIN chain
      /\ \A k \in 1 .. Cardinality(V) : InOrder(V)[k] \in DOMAIN chain
  BY <1>1, OrderOfPlaces
<1>3. /\ eventRwtCount' = eventRwtCount /\ permitValue' = permitValue
      /\ event' = event
  BY DEF TableStays, eventRwtCount, permitValue, WIDsCount
<1>4. outPermits(b)' = outPermits(b)
  <2> DEFINE P == [i \in DOMAIN chain |-> permitValue]
             Q == [i \in DOMAIN chain |-> chain[i].boxValue]
  <2>1. Permits(M, P)' = Permits(M, P)
    BY <1>1, <1>2, <1>3 DEF Permits, TableStays
  <2>2. Permits(V, Q)' = Permits(V, Q)
    BY <1>1, <1>2, <1>3 DEF Permits, TableStays
  <2>3. QED
    BY <2>1, <2>2 DEF outPermits
<1>5. QED
  BY <1>3, <1>4 DEF DistributingOrder, createEventPaymentOrder,
     createEventRewardOrder, eventRewardOrder, watchersOrder, guardsOrder,
     bridgeFee, networkFee, emissionFee, Fee, eventSinglePayment

-----------------------------------------------------------------------------
(* The steps *)

\* A step but the trigger writes about the block of the chain at most.
Quiet ==
  \/ \E w \in Watchers, n \in RwtCounts : CreateCommitment(w, n)
  \/ \E i \in DOMAIN chain : Redeem(i)
  \/ NextBlock
  \/ \E g \in Guards : Scan(g) \/ ReadBoxes(g) \/ CreateOrder(g)
  \/ UNCHANGED vars

LEMMA QuietTypes ==
  ASSUME OrderTypes, Quiet
  PROVE  OrderTypes'
<1> USE EventOrderAssumption
<1>1. ASSUME NEW w \in Watchers, NEW n \in RwtCounts, CreateCommitment(w, n)
      PROVE  OrderTypes'
  <2> DEFINE c == [WID |-> w, rwtCount |-> n, boxValue |-> 10 + Len(chain),
                   height |-> height, spendBlock |-> Never, merged |-> FALSE]
  <2>1. Len(chain) \in Nat
    BY Places
  <2>2. c \in Commitment
    BY <2>1 DEF Commitment, OrderTypes, Never
  <2>3. chain' = Append(chain, c)
    BY <1>1 DEF CreateCommitment
  <2> HIDE DEF c
  <2>4. chain' \in Seq(Commitment)
    BY <2>2, <2>3, AppendProperties DEF OrderTypes
  <2>5. UNCHANGED <<event, height, scanned, tx>>
    BY <1>1 DEF CreateCommitment
  <2>6. QED
    BY <2>4, <2>5 DEF OrderTypes
<1>2. ASSUME NEW i \in DOMAIN chain, Redeem(i)
      PROVE  OrderTypes'
  <2> DEFINE c == [chain[i] EXCEPT !.spendBlock = height]
  <2>1. chain[i] \in Commitment /\ height \in Nat
    BY Places DEF OrderTypes
  <2>2. c \in Commitment
    BY <2>1 DEF Commitment
  <2>3. chain' = [chain EXCEPT ![i] = c]
    BY <1>2 DEF Redeem
  <2> HIDE DEF c
  <2>4. chain' \in Seq(Commitment)
    BY <2>2, <2>3, Places, ExceptSeq DEF OrderTypes
  <2>5. UNCHANGED <<event, height, scanned, tx>>
    BY <1>2 DEF Redeem
  <2>6. QED
    BY <2>4, <2>5 DEF OrderTypes
<1>3. CASE NextBlock
  BY <1>3 DEF NextBlock, OrderTypes
<1>4. ASSUME NEW g \in Guards, Scan(g)
      PROVE  OrderTypes'
  <2>1. /\ scanned \in [Guards -> Nat] /\ height \in Nat
        /\ \A h \in Guards : scanned[h] < height
    BY DEF OrderTypes
  <2>2. /\ scanned' = [scanned EXCEPT ![g] = scanned[g] + 1]
        /\ scanned[g] < height - 1 /\ UNCHANGED <<event, chain, height>>
    BY <1>4 DEF Scan
  <2>3. /\ scanned' \in [Guards -> Nat]
        /\ \A h \in Guards : scanned'[h] < height
    BY <2>1, <2>2
  <2>4. QED
    BY <2>2, <2>3 DEF OrderTypes
<1>5. ASSUME NEW g \in Guards, ReadBoxes(g) \/ CreateOrder(g)
      PROVE  OrderTypes'
  BY <1>5 DEF ReadBoxes, CreateOrder, OrderTypes
<1>6. CASE UNCHANGED vars
  BY <1>6 DEF vars, OrderTypes
<1>7. QED
  BY <1>1, <1>2, <1>3, <1>4, <1>5, <1>6 DEF Quiet

LEMMA QuietStays ==
  ASSUME OrderTypes, Quiet, NEW b \in Nat, b < height
  PROVE  TableStays(b)
<1> USE EventOrderAssumption
<1>1. /\ height \in Nat /\ height <= MaxHeight /\ b < Never /\ MaxHeight \in Nat
  BY DEF OrderTypes, Never
<1>2. ASSUME NEW w \in Watchers, NEW n \in RwtCounts, CreateCommitment(w, n)
      PROVE  TableStays(b)
  <2> DEFINE c == [WID |-> w, rwtCount |-> n, boxValue |-> 10 + Len(chain),
                   height |-> height, spendBlock |-> Never, merged |-> FALSE]
  <2>1. chain' = Append(chain, c) /\ event' = event
    BY <1>2 DEF CreateCommitment
  <2>2. c.height = height /\ c.merged = FALSE
    OBVIOUS
  <2> HIDE DEF c
  <2>3. /\ Len(chain) \in Nat /\ DOMAIN chain = 1 .. Len(chain)
        /\ DOMAIN chain' = 1 .. Len(chain) + 1
        /\ \A i \in DOMAIN chain : chain'[i] = chain[i]
        /\ chain'[Len(chain) + 1] = c
    BY <2>1, Places, AppendProperties, SMTT(20) DEF OrderTypes
  <2>4. DOMAIN chain' = DOMAIN chain \cup {Len(chain) + 1}
    BY <2>3
  <2>5. Merged' = Merged
    BY <2>2, <2>3, <2>4 DEF Merged
  <2>6. \A i \in DOMAIN chain' \ DOMAIN chain : ~(chain'[i].height <= b)
    BY <1>1, <2>2, <2>3, <2>4
  <2>7. QED
    BY <2>1, <2>3, <2>4, <2>5, <2>6 DEF TableStays
<1>3. ASSUME NEW i \in DOMAIN chain, Redeem(i)
      PROVE  TableStays(b)
  <2>1. /\ event' = event /\ chain[i].spendBlock = Never
        /\ chain' = [chain EXCEPT ![i].spendBlock = height]
    BY <1>3 DEF Redeem
  <2>2. chain[i] \in Commitment
    BY Places
  <2>3. /\ DOMAIN chain' = DOMAIN chain
        /\ \A j \in DOMAIN chain : j # i => chain'[j] = chain[j]
        /\ chain'[i] = [chain[i] EXCEPT !.spendBlock = height]
    BY <2>1
  <2>4. /\ chain'[i].WID = chain[i].WID /\ chain'[i].rwtCount = chain[i].rwtCount
        /\ chain'[i].boxValue = chain[i].boxValue
        /\ chain'[i].height = chain[i].height /\ chain'[i].merged = chain[i].merged
        /\ chain'[i].spendBlock = height
    BY <2>2, <2>3 DEF Commitment
  <2>5. ~(chain'[i].spendBlock <= b) /\ ~(chain[i].spendBlock <= b)
    BY <1>1, <2>1, <2>4 DEF Never
  <2>6. \A j \in DOMAIN chain : chain'[j].merged = chain[j].merged
    BY <2>3, <2>4
  <2>7. Merged' = Merged
    BY <2>3, <2>6 DEF Merged
  <2>8. QED
    BY <2>1, <2>3, <2>4, <2>5, <2>7 DEF TableStays
<1>4. ASSUME UNCHANGED <<event, chain>>
      PROVE  TableStays(b)
  BY <1>4 DEF TableStays, Merged
<1>5. QED
  BY <1>2, <1>3, <1>4
     DEF Quiet, NextBlock, Scan, ReadBoxes, CreateOrder, vars

\* Merged commitments are not redeemed.
LEMMA QuietMerged ==
  ASSUME OrderInv, Quiet
  PROVE  MergedInv'
<1> USE EventOrderAssumption
<1>1. OrderTypes /\ MergedInv
  BY DEF OrderInv
<1>2. 0 \in Nat /\ 0 < height /\ height \in Nat /\ height <= MaxHeight
  BY <1>1 DEF OrderTypes
<1>3. TableStays(0)
  BY <1>1, <1>2, QuietStays
<1>4. Merged' = Merged /\ event' = event /\ Merged \subseteq DOMAIN chain
  BY <1>3 DEF TableStays, Merged
<1>5. \A i \in Merged : /\ chain'[i].WID = chain[i].WID
                        /\ chain'[i].rwtCount = chain[i].rwtCount
  BY <1>3, <1>4 DEF TableStays
<1>6. /\ SumOf(Merged, "rwtCount")' = SumOf(Merged, "rwtCount")
      /\ SumOf(Merged, "boxValue")' = SumOf(Merged, "boxValue")
  <2> DEFINE I == Merged
  <2>1. I \in SUBSET DOMAIN chain
    BY <1>4
  <2>2. \A k \in 1 .. Cardinality(I) : InOrder(I)[k] \in DOMAIN chain
    BY <1>1, <2>1, OrderOfPlaces
  <2>3. \A k \in 1 .. Cardinality(I) :
          /\ chain'[InOrder(I)[k]].rwtCount = chain[InOrder(I)[k]].rwtCount
          /\ chain'[InOrder(I)[k]].boxValue = chain[InOrder(I)[k]].boxValue
    BY <1>3, <2>2 DEF TableStays
  <2>4. QED
    BY <1>4, <2>3 DEF SumOf
<1>7. \A i \in Merged : chain'[i].spendBlock = chain[i].spendBlock
  <2>1. ASSUME NEW i \in DOMAIN chain, Redeem(i), NEW j \in Merged
        PROVE  chain'[j].spendBlock = chain[j].spendBlock
    <3>1. chain[i].spendBlock = Never /\ chain' = [chain EXCEPT ![i].spendBlock = height]
      BY <2>1 DEF Redeem
    <3>2. chain[j].spendBlock = event.height /\ event.height # NotTriggered
      BY <1>1 DEF MergedInv
    <3>3. i # j
      BY <3>1, <3>2 DEF NotTriggered
    <3>4. QED
      BY <1>4, <3>1, <3>3
  <2>2. ASSUME NEW w \in Watchers, NEW n \in RwtCounts, CreateCommitment(w, n),
               NEW j \in Merged
        PROVE  chain'[j].spendBlock = chain[j].spendBlock
    <3>1. j \in 1 .. Len(chain) /\ Len(chain) \in Nat
      BY <1>1, <1>4, Places
    <3>2. chain'[j] = chain[j]
      BY <1>1, <2>2, <3>1, AppendProperties DEF CreateCommitment, OrderTypes
    <3>3. QED
      BY <3>2
  <2>3. CASE chain' = chain
    BY <2>3
  <2>4. QED
    BY <2>1, <2>2, <2>3
       DEF Quiet, NextBlock, Scan, ReadBoxes, CreateOrder, vars
<1>8. height' >= height /\ height' \in Nat
  <2>1. height' = height \/ height' = height + 1
    BY DEF Quiet, NextBlock, Scan, ReadBoxes, CreateOrder, vars,
       CreateCommitment, Redeem
  <2>2. QED
    BY <1>2, <2>1
<1>9. event.height \in Nat
  BY <1>1 DEF OrderTypes
<1>10. QED
  BY <1>1, <1>2, <1>4, <1>5, <1>6, <1>7, <1>8, <1>9 DEF MergedInv, NotTriggered, Never

\* A guard does not go back behind what it has scanned.
LEMMA QuietScans ==
  ASSUME OrderInv, Quiet, NEW g \in Guards
  PROVE  scanned'[g] \in Nat /\ scanned[g] <= scanned'[g] /\ scanned[g] < height
<1>1. /\ scanned \in [Guards -> Nat] /\ scanned[g] < height
      /\ scanned[g] \in Nat
  BY DEF OrderInv, OrderTypes
<1>2. CASE scanned' = scanned
  BY <1>1, <1>2
<1>3. ASSUME NEW h \in Guards, Scan(h)
      PROVE  scanned'[g] \in Nat /\ scanned[g] <= scanned'[g]
  BY <1>1, <1>3 DEF Scan
<1>4. QED
  BY <1>1, <1>2, <1>3 DEF Quiet, CreateCommitment, Redeem, NextBlock,
     ReadBoxes, CreateOrder, vars

\* What a guard has made stays right.
LEMMA KeptTx ==
  ASSUME OrderInv, Quiet, NEW g \in Guards, tx'[g] = tx[g]
  PROVE  TxMade(g)'
<1>1. OrderTypes /\ TxMade(g)
  BY DEF OrderInv
<1>2. scanned'[g] \in Nat /\ scanned[g] <= scanned'[g] /\ scanned[g] < height
      /\ scanned[g] \in Nat /\ height \in Nat
  BY <1>1, QuietScans DEF OrderTypes
<1>3. \A b \in Nat : b <= scanned[g] => TableStays(b)
  BY <1>1, <1>2, QuietStays
<1>4. CASE tx[g] = NoTx
  BY <1>4 DEF TxMade
<1>5. CASE tx[g] # NoTx
  <2> DEFINE r == tx[g].readAt
  <2>1. /\ r \in Nat /\ event.height <= r /\ r <= scanned[g]
        /\ tx[g].boxes = getEventValidCommitments(r) /\ tx[g].built \in BOOLEAN
    BY <1>1, <1>5 DEF TxMade
  <2>2. TableStays(r)
    BY <1>3, <2>1
  <2>3. event' = event /\ getEventValidCommitments(r)' = getEventValidCommitments(r)
    BY <2>2, BoxesStay DEF TableStays
  <2>4. event.height \in Nat
    BY <1>1 DEF OrderTypes
  <2>5. /\ tx'[g].readAt \in Nat /\ event'.height <= tx'[g].readAt
        /\ tx'[g].readAt <= scanned'[g] /\ tx'[g].built \in BOOLEAN
    BY <1>2, <2>1, <2>3, <2>4
  <2>6. tx'[g].boxes = getEventValidCommitments(tx[g].readAt)'
    BY <2>1, <2>3
  <2>7. ASSUME tx[g].built
        PROVE  /\ tx'[g].builtAt \in Nat /\ event'.height <= tx'[g].builtAt
               /\ tx'[g].builtAt <= scanned'[g]
               /\ tx'[g].order = DistributingOrder(tx[g].builtAt)'
    <3> DEFINE b == tx[g].builtAt
    <3>1. /\ b \in Nat /\ event.height <= b /\ b <= scanned[g]
          /\ tx[g].order = DistributingOrder(b)
      BY <1>1, <1>5, <2>7 DEF TxMade
    <3>2. TableStays(b)
      BY <1>3, <3>1
    <3>3. DistributingOrder(b)' = DistributingOrder(b)
      BY <1>1, <3>2, OrderStays
    <3>4. QED
      BY <1>2, <2>3, <2>4, <3>1, <3>3
  <2>8. QED
    BY <2>5, <2>6, <2>7 DEF TxMade
<1>6. QED
  BY <1>4, <1>5

LEMMA QuietTxs ==
  ASSUME OrderInv, Quiet
  PROVE  tx' = [g \in Guards |-> tx'[g]] /\ \A g \in Guards : TxMade(g)'
<1>1. /\ OrderTypes /\ tx = [g \in Guards |-> tx[g]]
      /\ \A g \in Guards : TxMade(g)
  BY DEF OrderInv
<1>2. ASSUME NEW g \in Guards
      PROVE  /\ scanned[g] \in Nat /\ scanned[g] < height /\ TableStays(scanned[g])
             /\ event.height \in Nat
  <2>1. scanned[g] \in Nat /\ scanned[g] < height /\ event.height \in Nat
    BY <1>1 DEF OrderTypes
  <2>2. QED
    BY <1>1, <2>1, QuietStays
<1>3. ASSUME NEW g \in Guards, ReadBoxes(g)
      PROVE  tx' = [h \in Guards |-> tx'[h]] /\ \A h \in Guards : TxMade(h)'
  <2>1. PICK b \in Nat : b = scanned[g]
    BY <1>2
  <2> DEFINE t == [built |-> FALSE, boxes |-> getEventValidCommitments(b),
                   readAt |-> b]
  <2>2. /\ event.height <= b /\ tx' = [tx EXCEPT ![g] = t]
        /\ event' = event /\ scanned' = scanned
    BY <1>3, <2>1 DEF ReadBoxes, Ready
  <2>3. /\ tx' = [h \in Guards |-> tx'[h]] /\ tx'[g] = t
        /\ \A h \in Guards \ {g} : tx'[h] = tx[h]
    BY <1>1, <2>2
  <2>4. getEventValidCommitments(b)' = getEventValidCommitments(b)
    BY <1>2, <2>1, BoxesStay
  <2>5. /\ tx'[g].readAt = b /\ tx'[g].built = FALSE
        /\ tx'[g].boxes = getEventValidCommitments(b)
    BY <2>3
  <2>6. event'.height <= b /\ b <= scanned'[g]
    BY <2>1, <2>2
  <2>7. TxMade(g)'
    BY <2>4, <2>5, <2>6 DEF TxMade
  <2>8. QED
    BY <2>3, <2>7, KeptTx
<1>4. ASSUME NEW g \in Guards, CreateOrder(g)
      PROVE  tx' = [h \in Guards |-> tx'[h]] /\ \A h \in Guards : TxMade(h)'
  <2>1. PICK b \in Nat : b = scanned[g]
    BY <1>2
  <2>2. /\ tx[g] # NoTx /\ event' = event /\ scanned' = scanned
        /\ tx' = [tx EXCEPT ![g] =
             [built |-> TRUE, boxes |-> tx[g].boxes, readAt |-> tx[g].readAt,
              order |-> DistributingOrder(b), builtAt |-> b]]
    BY <1>4, <2>1 DEF CreateOrder
  <2>3. /\ tx[g].readAt \in Nat /\ event.height <= tx[g].readAt
        /\ tx[g].readAt <= scanned[g]
        /\ tx[g].boxes = getEventValidCommitments(tx[g].readAt)
    BY <1>1, <2>2 DEF TxMade
  <2>4. PICK r \in Nat : r = tx[g].readAt
    BY <2>3
  <2> DEFINE t == [built |-> TRUE, boxes |-> tx[g].boxes, readAt |-> tx[g].readAt,
                   order |-> DistributingOrder(b), builtAt |-> b]
  <2>5. /\ tx' = [h \in Guards |-> tx'[h]] /\ tx'[g] = t
        /\ \A h \in Guards \ {g} : tx'[h] = tx[h]
    BY <1>1, <2>2
  <2>6. r <= b /\ b < height /\ height \in Nat
    BY <1>1, <1>2, <2>1, <2>3, <2>4 DEF OrderTypes
  <2>7. TableStays(r) /\ TableStays(b)
    BY <1>1, <1>2, <2>1, <2>6, QuietStays
  <2>8. /\ getEventValidCommitments(r)' = getEventValidCommitments(r)
        /\ DistributingOrder(b)' = DistributingOrder(b)
    BY <1>1, <2>7, BoxesStay, OrderStays
  <2>9. /\ tx'[g].readAt = r /\ tx'[g].built = TRUE /\ tx'[g].builtAt = b
        /\ tx'[g].boxes = getEventValidCommitments(r)
        /\ tx'[g].order = DistributingOrder(b)
    BY <2>3, <2>4, <2>5
  <2>10. /\ event'.height <= r /\ r <= scanned'[g]
         /\ event'.height <= b /\ b <= scanned'[g]
    BY <1>2, <2>1, <2>2, <2>3, <2>4, <2>6
  <2>11. TxMade(g)'
    BY <2>8, <2>9, <2>10 DEF TxMade
  <2>12. QED
    BY <2>5, <2>11, KeptTx
<1>5. CASE tx' = tx
  BY <1>1, <1>5, KeptTx
<1>6. QED
  BY <1>3, <1>4, <1>5
     DEF Quiet, CreateCommitment, Redeem, NextBlock, Scan, vars

\* What commitments hold, one after another.
Holdings(I, field) ==
  [k \in 1 .. Cardinality(I) |-> chain[InOrder(I)[k]][field]]

LEMMA HoldingsAreNumbers ==
  ASSUME OrderTypes, NEW I \in SUBSET DOMAIN chain,
         NEW field \in {"rwtCount", "boxValue"}
  PROVE  /\ Holdings(I, field) \in Seq(Int)
         /\ Len(Holdings(I, field)) = Cardinality(I)
         /\ SumOf(I, field) = Sum(Holdings(I, field))
         /\ SumOf(I, field) \in Int
<1>1. /\ Cardinality(I) \in Nat
      /\ \A k \in 1 .. Cardinality(I) : InOrder(I)[k] \in DOMAIN chain
  BY OrderOfPlaces
<1>2. \A i \in DOMAIN chain : chain[i].rwtCount \in Nat /\ chain[i].boxValue \in Nat
  BY Places, EventOrderAssumption DEF Commitment
<1>3. \A i \in DOMAIN chain : chain[i][field] \in Int
  BY <1>2
<1>4. /\ Holdings(I, field) \in [1 .. Cardinality(I) -> Int]
  BY <1>1, <1>3 DEF Holdings
<1>5. Holdings(I, field) \in Seq(Int) /\ Len(Holdings(I, field)) = Cardinality(I)
  <2> DEFINE s == Holdings(I, field)
             n == Cardinality(I)
  <2>1. s \in [1 .. n -> Int] /\ n \in Nat
    BY <1>1, <1>4
  <2> HIDE DEF s, n
  <2>2. s \in Seq(Int) /\ Len(s) = n
    BY <2>1, LenProperties
  <2>3. QED
    BY <2>2 DEF s, n
<1>6. SumOf(I, field) = Sum(Holdings(I, field))
  BY DEF SumOf, Holdings
<1>7. Sum(Holdings(I, field)) \in Int
  BY <1>5, SumHas
<1>8. QED
  BY <1>5, <1>6, <1>7

LEMMA TriggerKeeps ==
  ASSUME OrderInv, NEW I \in SUBSET DOMAIN chain, TriggerEvent(I)
  PROVE  OrderInv'
<1> USE EventOrderAssumption
<1>1. /\ OrderTypes /\ MergedInv /\ tx = [g \in Guards |-> tx[g]]
      /\ \A g \in Guards : TxMade(g)
  BY DEF OrderInv
<1>2. /\ event.height = NotTriggered /\ I # {}
      /\ \A i \in I : chain[i].spendBlock = Never
      /\ Cardinality({chain[i].WID : i \in I}) = Cardinality(I)
      /\ \A i, j \in I : chain[i].rwtCount = chain[j].rwtCount
      /\ event' = [event EXCEPT !.height = height,
                     !.rwt = SumOf(I, "rwtCount"), !.value = SumOf(I, "boxValue")]
      /\ chain' = [i \in DOMAIN chain |->
           IF i \in I
           THEN [chain[i] EXCEPT !.spendBlock = height, !.merged = TRUE]
           ELSE chain[i]]
      /\ height' = height /\ scanned' = scanned /\ tx' = tx
  BY DEF TriggerEvent
<1>e. /\ I # {} /\ height' = height
      /\ \A i, j \in I : chain[i].rwtCount = chain[j].rwtCount
  BY <1>2
<1>3. height \in Nat /\ height <= MaxHeight /\ height # NotTriggered
  BY <1>1 DEF OrderTypes, NotTriggered, Never
<1>4. Merged = {}
  BY <1>1, <1>2 DEF MergedInv
<1>5. /\ Len(chain) \in Nat /\ DOMAIN chain = 1 .. Len(chain)
      /\ \A i \in DOMAIN chain : chain[i] \in Commitment
  BY <1>1, Places
<1>6. \A i \in DOMAIN chain :
        /\ chain'[i] \in Commitment
        /\ chain'[i].WID = chain[i].WID /\ chain'[i].rwtCount = chain[i].rwtCount
        /\ chain'[i].boxValue = chain[i].boxValue
        /\ i \in I => chain'[i].spendBlock = height /\ chain'[i].merged
        /\ i \notin I => chain'[i].merged = chain[i].merged
  <2> SUFFICES ASSUME NEW i \in DOMAIN chain
               PROVE  /\ chain'[i] \in Commitment
                      /\ chain'[i].WID = chain[i].WID
                      /\ chain'[i].rwtCount = chain[i].rwtCount
                      /\ chain'[i].boxValue = chain[i].boxValue
                      /\ i \in I => chain'[i].spendBlock = height /\ chain'[i].merged
                      /\ i \notin I => chain'[i].merged = chain[i].merged
    OBVIOUS
  <2> DEFINE c == chain[i]
  <2>1. c \in Commitment
    BY <1>5
  <2>2. CASE i \in I
    <3>1. chain'[i] = [c EXCEPT !.spendBlock = height, !.merged = TRUE]
      BY <1>2, <2>2
    <3> HIDE DEF c
    <3>2. /\ chain'[i] \in Commitment
          /\ chain'[i].WID = c.WID /\ chain'[i].rwtCount = c.rwtCount
          /\ chain'[i].boxValue = c.boxValue
          /\ chain'[i].spendBlock = height /\ chain'[i].merged
      BY <1>3, <2>1, <3>1 DEF Commitment
    <3>3. QED
      BY <2>2, <3>2 DEF c
  <2>3. CASE i \notin I
    <3>1. chain'[i] = chain[i]
      BY <1>2, <2>3
    <3>2. QED
      BY <2>1, <2>3, <3>1
  <2>4. QED
    BY <2>2, <2>3
<1>7. DOMAIN chain' = DOMAIN chain
  BY <1>2
<1>8. Merged' = I
  BY <1>4, <1>6, <1>7 DEF Merged
<1>9. /\ SumOf(I, "rwtCount") \in Int /\ SumOf(I, "boxValue") \in Int
  BY <1>1, HoldingsAreNumbers
<1>10. OrderTypes'
  <2>1. chain' \in [1 .. Len(chain) -> Commitment]
    BY <1>2, <1>5, <1>6
  <2>2. chain' \in Seq(Commitment)
    BY <1>5, <2>1, IsASeq
  <2>3. event' \in [height : Nat, rwt : Int, value : Int, data : Events]
    BY <1>1, <1>2, <1>3, <1>9 DEF OrderTypes
  <2>4. QED
    BY <1>1, <1>2, <2>2, <2>3 DEF OrderTypes
<1>11. /\ event'.height = height /\ event'.rwt = SumOf(I, "rwtCount")
       /\ event'.value = SumOf(I, "boxValue")
  BY <1>1, <1>2 DEF OrderTypes
<1>12. /\ SumOf(I, "rwtCount")' = SumOf(I, "rwtCount")
       /\ SumOf(I, "boxValue")' = SumOf(I, "boxValue")
  <2>1. \A k \in 1 .. Cardinality(I) : InOrder(I)[k] \in DOMAIN chain
    BY <1>1, OrderOfPlaces
  <2>2. \A k \in 1 .. Cardinality(I) :
          /\ chain'[InOrder(I)[k]].rwtCount = chain[InOrder(I)[k]].rwtCount
          /\ chain'[InOrder(I)[k]].boxValue = chain[InOrder(I)[k]].boxValue
    BY <1>6, <2>1
  <2>3. QED
    BY <2>2 DEF SumOf
<1>13. \A i, j \in I : chain[i].WID = chain[j].WID => i = j
  <2> DEFINE W == {chain[i].WID : i \in I}
             f == [i \in I |-> chain[i].WID]
  <2>1. IsFiniteSet(I) /\ Cardinality(I) = Cardinality(W)
    BY <1>1, <1>2, OrderOfPlaces
  <2>2. f \in Surjection(I, W)
    BY DEF Surjection
  <2> HIDE DEF W
  <2>3. f \in Injection(I, W)
    BY <2>1, <2>2, FS_SurjSameCardinalityImpliesInj
  <2>4. QED
    BY <2>3 DEF Injection, IsInjective
<1>14. MergedInv'
  <2>i. \A i \in I : /\ chain'[i].spendBlock = height
                     /\ chain'[i].WID = chain[i].WID
                     /\ chain'[i].rwtCount = chain[i].rwtCount
    BY <1>6
  <2>1. \A i \in Merged' : chain'[i].spendBlock = event'.height
    BY <1>8, <1>11, <2>i
  <2>2. \A i, j \in Merged' : /\ chain'[i].WID = chain'[j].WID => i = j
                              /\ chain'[i].rwtCount = chain'[j].rwtCount
    BY <1>e, <1>8, <1>13, <2>i
  <2>3. event'.height # NotTriggered /\ event'.height <= height' /\ Merged' # {}
    BY <1>e, <1>3, <1>8, <1>11
  <2>4. /\ event'.rwt = SumOf(Merged, "rwtCount")'
        /\ event'.value = SumOf(Merged, "boxValue")'
    <3>1. SumOf(I, "rwtCount")' = SumOf(Merged, "rwtCount")'
          /\ SumOf(I, "boxValue")' = SumOf(Merged, "boxValue")'
      BY <1>8 DEF SumOf
    <3>2. QED
      BY <1>11, <1>12, <3>1
  <2>5. QED
    BY <2>1, <2>2, <2>3, <2>4 DEF MergedInv, NotTriggered, Never
<1>15. \A g \in Guards : tx[g] = NoTx
  <2>1. SUFFICES ASSUME NEW g \in Guards, tx[g] # NoTx PROVE FALSE
    OBVIOUS
  <2>2. /\ tx[g].readAt \in Nat /\ event.height <= tx[g].readAt
        /\ tx[g].readAt <= scanned[g]
    BY <1>1, <2>1 DEF TxMade
  <2>3. scanned[g] \in Nat /\ scanned[g] < height
    BY <1>1 DEF OrderTypes
  <2>4. MaxHeight \in Nat /\ event.height = MaxHeight + 1
    BY <1>2 DEF NotTriggered, Never
  <2>5. QED
    BY <1>3, <2>2, <2>3, <2>4
<1>16. tx' = [g \in Guards |-> tx'[g]] /\ \A g \in Guards : TxMade(g)'
  BY <1>1, <1>2, <1>15 DEF TxMade
<1>17. QED
  BY <1>10, <1>14, <1>16 DEF OrderInv

\* Every step keeps the invariant.
THEOREM OrderInvariant == EventOrderSpec => []OrderInv
<1>1. OrderInv /\ [EventOrderNext]_vars => OrderInv'
  <2> SUFFICES ASSUME OrderInv, [EventOrderNext]_vars PROVE OrderInv'
    OBVIOUS
  <2>1. CASE Quiet
    BY <2>1, QuietTypes, QuietMerged, QuietTxs DEF OrderInv
  <2>2. ASSUME NEW I \in SUBSET DOMAIN chain, TriggerEvent(I)
        PROVE  OrderInv'
    BY <2>2, TriggerKeeps
  <2>3. QED
    BY <2>1, <2>2 DEF EventOrderNext, Quiet
<1>2. QED
  BY <1>1, InitOrder, PTL DEF EventOrderSpec

-----------------------------------------------------------------------------
(* What two guards find *)

\* After the trigger the merged commitments are found, whatever was scanned.
LEMMA MergedAreFound ==
  ASSUME OrderInv, NEW b \in Nat, event.height <= b
  PROVE  getEventCommitments(b) = Merged
BY DEF OrderInv, MergedInv, getEventCommitments, IsSpent

\* Without a redeemed commitment between them two readings are the same.
LEMMA SameFound ==
  ASSUME OrderInv, NEW a \in Nat, NEW b \in Nat,
         event.height <= a, event.height <= b, ~RedeemedBetween(a, b)
  PROVE  /\ getEventValidCommitments(a) = getEventValidCommitments(b)
         /\ DistributingOrder(a) = DistributingOrder(b)
<1>1. /\ OrderTypes /\ event.height \in Nat
      /\ \A i \in DOMAIN chain : chain[i].height \in Nat /\ chain[i].spendBlock \in Nat
      /\ \A i \in Merged : chain[i].spendBlock = event.height
  BY Places DEF OrderInv, OrderTypes, MergedInv, Commitment
<1>2. getEventCommitments(a) = getEventCommitments(b)
  BY MergedAreFound
<1>3. ASSUME NEW i \in DOMAIN chain, BeforeEvent(chain[i])
      PROVE  /\ chain[i].height <= a /\ chain[i].height <= b
             /\ IsSpent(a, chain[i]) <=> IsSpent(b, chain[i])
  <2>0. chain[i].height \in Nat /\ chain[i].spendBlock \in Nat
    BY <1>1
  <2>h. chain[i].height < event.height
    BY <1>3 DEF BeforeEvent
  <2>1. chain[i].height <= a /\ chain[i].height <= b
    BY <1>1, <2>0, <2>h
  <2>2. CASE chain[i].merged
    BY <1>1, <2>1, <2>2 DEF Merged, IsSpent
  <2>3. CASE ~chain[i].merged
    <3>1. /\ ~(a < chain[i].spendBlock /\ chain[i].spendBlock <= b)
          /\ ~(b < chain[i].spendBlock /\ chain[i].spendBlock <= a)
      BY <1>3, <2>3 DEF RedeemedBetween
    <3>2. QED
      BY <2>0, <2>1, <3>1 DEF IsSpent
  <2>4. QED
    BY <2>1, <2>2, <2>3
<1>4. getValidCommitments(a) = getValidCommitments(b)
  BY <1>3 DEF getValidCommitments
<1>5. getEventWIDs(a) = getEventWIDs(b)
  BY <1>2 DEF getEventWIDs
<1>6. getEventValidCommitments(a) = getEventValidCommitments(b)
  BY <1>4, <1>5 DEF getEventValidCommitments, IsValidCommitment
<1>7. outPermits(a) = outPermits(b)
  BY <1>2, <1>6 DEF outPermits
<1>8. eventRewardOrder(a) = eventRewardOrder(b)
  BY <1>7 DEF eventRewardOrder
<1>9. QED
  BY <1>6, <1>8
     DEF DistributingOrder, createEventPaymentOrder, createEventRewardOrder

LEMMA RejectedThen == OrderInv => RejectedOnlyOnRedeem
<1> SUFFICES ASSUME OrderInv, NEW g \in Guards, NEW h \in Guards,
                    tx[g].built, Ready(h),
                    ~RedeemedBetween(tx[g].builtAt, scanned[h])
             PROVE  verifyEventTransaction(h, tx[g])
  BY DEF RejectedOnlyOnRedeem
<1>1. tx[g] # NoTx
  BY DEF NoTx
<1>2. /\ tx[g].builtAt \in Nat /\ event.height <= tx[g].builtAt
      /\ tx[g].order = DistributingOrder(tx[g].builtAt)
  BY <1>1 DEF OrderInv, TxMade
<1>3. scanned[h] \in Nat /\ event.height <= scanned[h]
  BY DEF OrderInv, OrderTypes, Ready
<1>4. DistributingOrder(tx[g].builtAt) = DistributingOrder(scanned[h])
  BY <1>2, <1>3, SameFound
<1>5. QED
  BY <1>2, <1>4 DEF verifyEventTransaction

\* A guard rejects the tx of another one only when an unmerged commitment was
\* redeemed between what the two have scanned, for any numbers of guards,
\* watchers, commitments and blocks.
THEOREM RejectedOnlyOnRedeemAlways == EventOrderSpec => []RejectedOnlyOnRedeem
BY OrderInvariant, RejectedThen, PTL

-----------------------------------------------------------------------------
(* Fees and numbers *)

\* The quotient and the remainder of a number are what their names say.
LEMMA Quotient ==
  ASSUME NEW a \in Int, NEW b \in Nat \ {0}
  PROVE  /\ a \div b \in Int /\ a - b * (a \div b) \in 0 .. b - 1
         /\ a \in Nat => a \div b \in Nat
<1>1. /\ a \div b \in Int /\ a % b \in 0 .. b - 1
      /\ a = b * (a \div b) + (a % b)
  OBVIOUS
<1> DEFINE q == a \div b
           r == a % b
<1>2. q \in Int /\ r \in 0 .. b - 1 /\ a = b * q + r
  BY <1>1
<1> HIDE DEF q, r
<1>3. a - b * q = r
  BY <1>2
<1>4. a \in Nat => q >= 0
  <2>1. ASSUME q <= -1 PROVE b * q <= - b
    BY <1>2, <2>1
  <2>2. QED
    BY <1>2, <2>1
<1>5. QED
  BY <1>2, <1>3, <1>4 DEF q

\* A multiple is divided without a rest.
LEMMA QuotientOfMultiple ==
  ASSUME NEW b \in Nat \ {0}, NEW q \in Int
  PROVE  (b * q) \div b = q
<1> DEFINE a == b * q
           k == a \div b
<1>1. a \in Int
  OBVIOUS
<1>2. k \in Int /\ a - b * k \in 0 .. b - 1
  <2> HIDE DEF a
  <2>1. QED
    BY <1>1, Quotient
<1> HIDE DEF k
<1>3. b * (q - k) \in 0 .. b - 1
  BY <1>2
<1>4. ~(q - k >= 1)
  <2>1. ASSUME q - k >= 1 PROVE b * (q - k) >= b
    BY <1>2, <2>1
  <2>2. QED
    BY <1>2, <1>3, <2>1
<1>5. ~(q - k <= -1)
  <2>1. ASSUME q - k <= -1 PROVE b * (q - k) <= - b
    BY <1>2, <2>1
  <2>2. QED
    BY <1>2, <1>3, <2>1
<1>6. k = q
  BY <1>2, <1>4, <1>5
<1>7. QED
  BY <1>6 DEF k

LEMMA FeesAreNumbers ==
  ASSUME OrderTypes
  PROVE  /\ bridgeFee \in Nat /\ networkFee \in Nat /\ emissionFee \in Nat
         /\ event.data \in Events /\ event.value \in Int /\ event.rwt \in Int
         /\ event.data.tokenOnErgo \in Tokens \ {"rwt"}
         /\ event.data.toErgo \in BOOLEAN
<1> DEFINE e == event.data
<1>1. /\ e \in Events /\ event.value \in Int /\ event.rwt \in Int
  BY DEF OrderTypes
<1>2. /\ e.amount \in Nat /\ e.bridgeFee \in Nat /\ e.networkFee \in Nat
      /\ e.tokenOnErgo \in Tokens \ {"rwt"} /\ e.toErgo \in BOOLEAN
  BY <1>1, EventOrderAssumption
<1>3. /\ feeConfig.bridgeFee \in Nat /\ feeConfig.networkFee \in Nat
      /\ feeConfig.feeRatio \in Nat /\ feeConfig.feeRatioDivisor \in Nat \ {0}
      /\ feeConfig.rsnRatio \in Nat /\ feeConfig.rsnRatioDivisor \in Nat \ {0}
  BY EventOrderAssumption
<1>4. networkFee \in Nat
  BY <1>2, <1>3 DEF networkFee, MaxOf
<1>5. (e.amount * feeConfig.feeRatio) \div feeConfig.feeRatioDivisor \in Nat
  <2> DEFINE x == e.amount * feeConfig.feeRatio
             d == feeConfig.feeRatioDivisor
  <2>1. x \in Nat /\ d \in Nat \ {0}
    BY <1>2, <1>3
  <2> HIDE DEF x, d
  <2>2. x \div d \in Nat
    BY <2>1, Quotient
  <2>3. QED
    BY <2>2 DEF x, d
<1>6. bridgeFee \in Nat
  BY <1>2, <1>3, <1>5 DEF bridgeFee, MaxOf
<1>7. emissionFee \in Nat
  <2> DEFINE x == bridgeFee * feeConfig.rsnRatio
             d == feeConfig.rsnRatioDivisor
  <2>1. x \in Nat /\ d \in Nat \ {0} /\ emissionFee = x \div d
    BY <1>3, <1>6 DEF emissionFee
  <2> HIDE DEF x, d
  <2>2. QED
    BY <2>1, Quotient
<1>8. QED
  BY <1>1, <1>2, <1>4, <1>6, <1>7

\* The event box holds the same for each of the merged commitments, up to a
\* rest in ERGs.
LEMMA EventBoxHolds ==
  ASSUME OrderInv, event.height # NotTriggered
  PROVE  /\ WIDsCount \in Nat \ {0} /\ WIDsCount = Cardinality(Merged)
         /\ eventRwtCount \in Int /\ event.rwt = WIDsCount * eventRwtCount
         /\ permitValue \in Int
         /\ event.value - WIDsCount * permitValue \in 0 .. WIDsCount - 1
<1> DEFINE n == WIDsCount
<1>1. /\ OrderTypes /\ Merged # {} /\ Merged \in SUBSET DOMAIN chain
      /\ event.rwt = SumOf(Merged, "rwtCount")
      /\ \A i, j \in Merged : chain[i].rwtCount = chain[j].rwtCount
      /\ event.value \in Int /\ event.rwt \in Int
  BY DEF OrderInv, MergedInv, OrderTypes, Merged
<1>2. n \in Nat \ {0} /\ n = Cardinality(Merged)
  BY <1>1, OrderOfPlaces, FS_EmptySet DEF WIDsCount
<1>3. PICK i \in Merged : TRUE
  BY <1>1
<1> DEFINE c == chain[i].rwtCount
           s == Holdings(Merged, "rwtCount")
<1>4. c \in Int
  <2>1. chain[i] \in Commitment
    BY <1>1, Places
  <2>2. chain[i].rwtCount \in RwtCounts
    BY <2>1 DEF Commitment
  <2>3. chain[i].rwtCount \in Nat
    <3>1. RwtCounts \subseteq Nat
      BY EventOrderAssumption
    <3>2. QED
      BY <2>2, <3>1
  <2>4. \A x \in Nat : x \in Int
    OBVIOUS
  <2>5. QED
    BY <2>3, <2>4
<1>5. s \in Seq(Int) /\ Len(s) = n /\ event.rwt = Sum(s)
  BY <1>1, <1>2, HoldingsAreNumbers
<1>6. \A k \in 1 .. Len(s) : s[k] = c
  <2>1. \A k \in 1 .. n : InOrder(Merged)[k] \in Merged
    BY <1>1, <1>2, OrderOfPlaces
  <2>2. QED
    BY <1>1, <1>2, <1>5, <2>1 DEF Holdings
<1> HIDE DEF s, c, n
<1>7. event.rwt = n * c
  BY <1>4, <1>5, <1>6, SumOfSame
<1>8. eventRwtCount = c
  BY <1>2, <1>4, <1>7, QuotientOfMultiple DEF eventRwtCount, n
<1>9. permitValue \in Int /\ event.value - n * permitValue \in 0 .. n - 1
  <2>1. permitValue = event.value \div n
    BY DEF permitValue, n
  <2>2. QED
    BY <1>1, <1>2, <2>1, Quotient
<1>10. QED
  BY <1>2, <1>4, <1>7, <1>8, <1>9 DEF n

-----------------------------------------------------------------------------
(* The watchers that are paid *)

Permit == [wid : Watchers, boxValue : Int]

\* What Permits makes of a table.
LEMMA PermitsOfTable ==
  ASSUME OrderTypes, NEW I \in SUBSET DOMAIN chain, NEW value \in [DOMAIN chain -> Int]
  PROVE  /\ Permits(I, value) \in Seq(Permit)
         /\ Len(Permits(I, value)) = Cardinality(I) /\ Cardinality(I) \in Nat
         /\ \A k \in 1 .. Cardinality(I) :
              /\ InOrder(I)[k] \in I
              /\ Permits(I, value)[k].wid = chain[InOrder(I)[k]].WID
              /\ Permits(I, value)[k].boxValue = value[InOrder(I)[k]]
<1> DEFINE s == Permits(I, value)
           n == Cardinality(I)
<1>1. n \in Nat /\ \A k \in 1 .. n : InOrder(I)[k] \in I
  BY OrderOfPlaces
<1>2. \A k \in 1 .. n : chain[InOrder(I)[k]].WID \in Watchers
  <2>1. \A i \in DOMAIN chain : chain[i].WID \in Watchers
    BY Places DEF Commitment
  <2>2. QED
    BY <1>1, <2>1
<1>3. \A k \in 1 .. n : value[InOrder(I)[k]] \in Int
  BY <1>1
<1>4. s = [k \in 1 .. n |-> [wid |-> chain[InOrder(I)[k]].WID,
                             boxValue |-> value[InOrder(I)[k]]]]
  BY DEF Permits
<1>5. s \in [1 .. n -> Permit]
  BY <1>2, <1>3, <1>4 DEF Permit
<1>6. \A k \in 1 .. n : /\ s[k].wid = chain[InOrder(I)[k]].WID
                        /\ s[k].boxValue = value[InOrder(I)[k]]
  BY <1>4
<1> HIDE DEF s, n
<1>7. s \in Seq(Permit) /\ Len(s) = n
  BY <1>1, <1>5, LenProperties
<1>8. QED
  BY <1>1, <1>6, <1>7 DEF s, n

\* The merged watchers come first, then the late ones.
Found(b) ==
  LET M == Merged
      V == getEventValidCommitments(b)
      m == Cardinality(M)
      v == Cardinality(V)
      p == outPermits(b)
  IN  /\ p \in Seq(Permit) /\ Len(p) = m + v /\ m \in Nat \ {0} /\ v \in Nat
      /\ V \subseteq DOMAIN chain
      /\ \A k \in 1 .. m : /\ InOrder(M)[k] \in M
                           /\ p[k].wid = chain[InOrder(M)[k]].WID
                           /\ p[k].boxValue = permitValue
      /\ \A k \in 1 .. v : /\ InOrder(V)[k] \in V
                           /\ p[m + k].wid = chain[InOrder(V)[k]].WID
                           /\ p[m + k].boxValue = chain[InOrder(V)[k]].boxValue

LEMMA WatchersFound ==
  ASSUME OrderInv, NEW b \in Nat, event.height <= b, event.height # NotTriggered
  PROVE  Found(b)
<1> DEFINE M == Merged
           V == getEventValidCommitments(b)
           m == Cardinality(M)
           v == Cardinality(V)
           P == [i \in DOMAIN chain |-> permitValue]
           Q == [i \in DOMAIN chain |-> chain[i].boxValue]
           s == Permits(M, P)
           t == Permits(V, Q)
<1>1. /\ OrderTypes /\ permitValue \in Int /\ m \in Nat \ {0}
      /\ M \in SUBSET DOMAIN chain
  BY EventBoxHolds DEF OrderInv, Merged
<1>2. V \in SUBSET DOMAIN chain
  BY DEF getEventValidCommitments, uniqByWID, getValidCommitments
<1>3. outPermits(b) = s \o t
  BY MergedAreFound DEF outPermits
<1>4. P \in [DOMAIN chain -> Int]
  BY <1>1
<1>5. Q \in [DOMAIN chain -> Int]
  BY <1>1, Places DEF Commitment
<1>6. /\ s \in Seq(Permit) /\ Len(s) = m
      /\ \A k \in 1 .. m : /\ InOrder(M)[k] \in M
                           /\ s[k].wid = chain[InOrder(M)[k]].WID
                           /\ s[k].boxValue = P[InOrder(M)[k]]
  <2> HIDE DEF P
  <2>1. QED
    BY <1>1, <1>4, PermitsOfTable
<1>7. /\ t \in Seq(Permit) /\ Len(t) = v /\ v \in Nat
      /\ \A k \in 1 .. v : /\ InOrder(V)[k] \in V
                           /\ t[k].wid = chain[InOrder(V)[k]].WID
                           /\ t[k].boxValue = Q[InOrder(V)[k]]
  <2> HIDE DEF Q, V
  <2>1. QED
    BY <1>1, <1>2, <1>5, PermitsOfTable
<1>8. \A k \in 1 .. m : P[InOrder(M)[k]] = permitValue
  BY <1>1, <1>6
<1>9. \A k \in 1 .. v : Q[InOrder(V)[k]] = chain[InOrder(V)[k]].boxValue
  BY <1>2, <1>7
<1> HIDE DEF s, t, P, Q, M, V, m, v
<1>10. /\ s \o t \in Seq(Permit) /\ Len(s \o t) = m + v
       /\ \A k \in 1 .. m : (s \o t)[k] = s[k]
       /\ \A k \in 1 .. v : (s \o t)[m + k] = t[k]
  <2>1. /\ s \o t \in Seq(Permit) /\ Len(s \o t) = Len(s) + Len(t)
        /\ \A k \in 1 .. Len(s) : (s \o t)[k] = s[k]
        /\ \A k \in 1 .. Len(t) : (s \o t)[Len(s) + k] = t[k]
    <3>1. s \in Seq(Permit) /\ t \in Seq(Permit)
      BY <1>6, <1>7
    <3>2. QED
      BY <3>1, InARow
  <2>2. Len(s) = m /\ Len(t) = v
    BY <1>6, <1>7
  <2>3. QED
    BY <2>1, <2>2
<1>11. \A k \in 1 .. m : /\ InOrder(M)[k] \in M
                         /\ outPermits(b)[k].wid = chain[InOrder(M)[k]].WID
                         /\ outPermits(b)[k].boxValue = permitValue
  BY <1>3, <1>6, <1>8, <1>10
<1>12. \A k \in 1 .. v : /\ InOrder(V)[k] \in V
                         /\ outPermits(b)[m + k].wid = chain[InOrder(V)[k]].WID
                         /\ outPermits(b)[m + k].boxValue
                              = chain[InOrder(V)[k]].boxValue
  <2>1. SUFFICES ASSUME NEW k \in 1 .. v
                 PROVE  /\ InOrder(V)[k] \in V
                        /\ outPermits(b)[m + k].wid = chain[InOrder(V)[k]].WID
                        /\ outPermits(b)[m + k].boxValue
                             = chain[InOrder(V)[k]].boxValue
    OBVIOUS
  <2>2. outPermits(b)[m + k] = t[k]
    BY <1>3, <1>10
  <2>3. QED
    BY <1>7, <1>9, <2>2
<1>13. /\ outPermits(b) \in Seq(Permit) /\ Len(outPermits(b)) = m + v
       /\ m \in Nat \ {0} /\ v \in Nat /\ V \subseteq DOMAIN chain
  BY <1>1, <1>2, <1>3, <1>7, <1>10
<1>14. QED
  BY <1>11, <1>12, <1>13 DEF Found, M, V, m, v

\* Each of them once.
LEMMA OnePermitEach ==
  ASSUME OrderInv, NEW b \in Nat, event.height <= b, event.height # NotTriggered
  PROVE  LET p == outPermits(b)
         IN  /\ \A k, l \in 1 .. Len(p) : p[k].wid = p[l].wid => k = l
             /\ \A i \in Merged : \E k \in 1 .. Len(p) : p[k].wid = chain[i].WID
<1> DEFINE M == Merged
           V == getEventValidCommitments(b)
           m == Cardinality(M)
           v == Cardinality(V)
           p == outPermits(b)
<1>1. /\ Len(p) = m + v /\ m \in Nat /\ v \in Nat
      /\ \A k \in 1 .. m : InOrder(M)[k] \in M /\ p[k].wid = chain[InOrder(M)[k]].WID
      /\ \A k \in 1 .. v : /\ InOrder(V)[k] \in V
                           /\ p[m + k].wid = chain[InOrder(V)[k]].WID
  BY WatchersFound DEF Found
<1>2. /\ \A i, j \in M : chain[i].WID = chain[j].WID => i = j
      /\ OrderTypes /\ M \in SUBSET DOMAIN chain
  BY DEF OrderInv, MergedInv, Merged
<1>3. \A i \in M, j \in V : chain[i].WID # chain[j].WID
  BY MergedAreFound DEF getEventValidCommitments, IsValidCommitment, getEventWIDs
<1>4. \A i, j \in V : chain[i].WID = chain[j].WID => i = j
  <2>1. /\ V \in SUBSET DOMAIN chain
        /\ \A i, j \in V : j < i => chain[j].WID # chain[i].WID
    BY DEF getEventValidCommitments, uniqByWID, getValidCommitments
  <2>2. \A i \in V : i \in Nat
    BY <1>2, <2>1, Places
  <2>3. QED
    BY <2>1, <2>2
<1>5. /\ \A k, l \in 1 .. m : InOrder(M)[k] = InOrder(M)[l] => k = l
      /\ \A x \in M : \E k \in 1 .. m : InOrder(M)[k] = x
  BY <1>2, OrderOfPlaces
<1>6. \A k, l \in 1 .. v : InOrder(V)[k] = InOrder(V)[l] => k = l
  <2>1. V \in SUBSET DOMAIN chain
    BY DEF getEventValidCommitments, uniqByWID, getValidCommitments
  <2> HIDE DEF V
  <2>2. QED
    BY <1>2, <2>1, OrderOfPlaces
<1> HIDE DEF M, V, m, v, p
<1>7. ASSUME NEW k \in 1 .. Len(p), NEW l \in 1 .. Len(p), p[k].wid = p[l].wid
      PROVE  k = l
  <2>1. k \in 1 .. m \/ (k - m \in 1 .. v /\ k = m + (k - m))
    BY <1>1
  <2>2. l \in 1 .. m \/ (l - m \in 1 .. v /\ l = m + (l - m))
    BY <1>1
  <2>m. \A n \in 1 .. m : InOrder(M)[n] \in M /\ p[n].wid = chain[InOrder(M)[n]].WID
    BY <1>1
  <2>v. \A n \in 1 .. v : InOrder(V)[n] \in V /\ p[m + n].wid = chain[InOrder(V)[n]].WID
    BY <1>1
  <2>3. CASE k \in 1 .. m /\ l \in 1 .. m
    <3>1. InOrder(M)[k] = InOrder(M)[l]
      BY <1>2, <1>7, <2>m, <2>3
    <3>2. QED
      BY <1>5, <2>3, <3>1
  <2>4. CASE k \in 1 .. m /\ l - m \in 1 .. v /\ l = m + (l - m)
    <3>1. p[k].wid = chain[InOrder(M)[k]].WID /\ InOrder(M)[k] \in M
      BY <2>m, <2>4
    <3>2. p[m + (l - m)].wid = chain[InOrder(V)[l - m]].WID /\ InOrder(V)[l - m] \in V
      BY <2>v, <2>4
    <3>3. QED
      BY <1>3, <1>7, <2>4, <3>1, <3>2
  <2>5. CASE l \in 1 .. m /\ k - m \in 1 .. v /\ k = m + (k - m)
    <3>1. p[l].wid = chain[InOrder(M)[l]].WID /\ InOrder(M)[l] \in M
      BY <2>m, <2>5
    <3>2. p[m + (k - m)].wid = chain[InOrder(V)[k - m]].WID /\ InOrder(V)[k - m] \in V
      BY <2>v, <2>5
    <3>3. QED
      BY <1>3, <1>7, <2>5, <3>1, <3>2
  <2>6. CASE /\ k - m \in 1 .. v /\ k = m + (k - m)
             /\ l - m \in 1 .. v /\ l = m + (l - m)
    <3>1. p[m + (l - m)].wid = chain[InOrder(V)[l - m]].WID /\ InOrder(V)[l - m] \in V
      BY <2>v, <2>6
    <3>2. p[m + (k - m)].wid = chain[InOrder(V)[k - m]].WID /\ InOrder(V)[k - m] \in V
      BY <2>v, <2>6
    <3>3. InOrder(V)[k - m] = InOrder(V)[l - m]
      BY <1>4, <1>7, <2>6, <3>1, <3>2
    <3>4. k - m = l - m
      BY <1>6, <2>6, <3>3
    <3>5. QED
      BY <2>6, <3>4
  <2>7. QED
    BY <2>1, <2>2, <2>3, <2>4, <2>5, <2>6
<1>8. ASSUME NEW i \in M
      PROVE  \E k \in 1 .. Len(p) : p[k].wid = chain[i].WID
  <2>1. PICK k \in 1 .. m : InOrder(M)[k] = i
    BY <1>5
  <2>2. k \in 1 .. Len(p)
    BY <1>1
  <2>3. QED
    BY <1>1, <2>1, <2>2
<1>9. QED
  BY <1>7, <1>8 DEF p, M
-----------------------------------------------------------------------------
(* The payments of an order *)

PaymentType ==
  [address : {"permit", "user", "bridgeFeeRepo", "emission", "networkFeeRepo"},
   extra : Watchers \cup {"none"}, assets : Assets]

LEMMA AssetIs ==
  ASSUME NEW id, NEW value \in Int
  PROVE  /\ Asset(id, value) \in Assets
         /\ \A t \in Tokens : Asset(id, value)[t] = IF t = id THEN value ELSE 0
BY DEF Asset, Assets

LEMMA PlusIs ==
  ASSUME NEW a \in Assets, NEW c \in Assets
  PROVE  /\ Plus(a, c) \in Assets
         /\ \A t \in Tokens : Plus(a, c)[t] = a[t] + c[t]
BY DEF Plus, Assets

\* What each payment of an order has of a token.
Amounts(order, t) == [i \in 1 .. Len(order) |-> order[i].assets[t]]

LEMMA AmountsAreNumbers ==
  ASSUME NEW order \in Seq(PaymentType), NEW t \in Tokens
  PROVE  /\ Amounts(order, t) \in Seq(Int) /\ Len(Amounts(order, t)) = Len(order)
         /\ Len(order) \in Nat
         /\ Total(order, t) = Sum(Amounts(order, t)) /\ Total(order, t) \in Int
         /\ \A i \in 1 .. Len(order) : Amounts(order, t)[i] = order[i].assets[t]
<1> DEFINE s == Amounts(order, t)
           n == Len(order)
<1>1. n \in Nat /\ \A i \in 1 .. n : order[i] \in PaymentType
  BY LenProperties, ElementOfSeq
<1>2. \A i \in 1 .. n : order[i].assets[t] \in Int
  BY <1>1 DEF PaymentType, Assets
<1>3. s \in [1 .. n -> Int] /\ \A i \in 1 .. n : s[i] = order[i].assets[t]
  BY <1>2 DEF Amounts
<1>4. Total(order, t) = Sum(s)
  BY DEF Total, Amounts
<1> HIDE DEF s, n
<1>5. s \in Seq(Int) /\ Len(s) = n
  BY <1>1, <1>3, LenProperties
<1>6. Sum(s) \in Int
  BY <1>5, SumHas
<1>7. QED
  BY <1>1, <1>3, <1>4, <1>5, <1>6 DEF s, n

LEMMA TotalOfConcat ==
  ASSUME NEW o \in Seq(PaymentType), NEW q \in Seq(PaymentType), NEW t \in Tokens
  PROVE  Total(o \o q, t) = Total(o, t) + Total(q, t)
<1> DEFINE r == o \o q
           s == Amounts(o, t)
           u == Amounts(q, t)
           z == Amounts(r, t)
           m == Len(o)
           v == Len(q)
<1>1. /\ r \in Seq(PaymentType) /\ Len(r) = m + v /\ m \in Nat /\ v \in Nat
      /\ \A k \in 1 .. m : r[k] = o[k]
      /\ \A k \in 1 .. v : r[m + k] = q[k]
  BY InARow
<1>2. /\ s \in Seq(Int) /\ Len(s) = m /\ Total(o, t) = Sum(s)
      /\ \A i \in 1 .. m : s[i] = o[i].assets[t]
  BY AmountsAreNumbers
<1>3. /\ u \in Seq(Int) /\ Len(u) = v /\ Total(q, t) = Sum(u)
      /\ \A i \in 1 .. v : u[i] = q[i].assets[t]
  BY AmountsAreNumbers
<1>4. /\ z \in Seq(Int) /\ Len(z) = m + v /\ Total(r, t) = Sum(z)
      /\ \A i \in 1 .. m + v : z[i] = r[i].assets[t]
  <2> HIDE DEF r, m, v
  <2>1. /\ z \in Seq(Int) /\ Len(z) = Len(r) /\ Total(r, t) = Sum(z)
        /\ \A i \in 1 .. Len(r) : z[i] = r[i].assets[t]
    BY <1>1, AmountsAreNumbers
  <2>2. QED
    BY <1>1, <2>1
<1> HIDE DEF r, s, u, z, m, v
<1>5. /\ s \o u \in Seq(Int) /\ Len(s \o u) = m + v
      /\ \A k \in 1 .. m : (s \o u)[k] = s[k]
      /\ \A k \in 1 .. v : (s \o u)[m + k] = u[k]
  <2>0. s \in Seq(Int) /\ u \in Seq(Int) /\ Len(s) = m /\ Len(u) = v
    BY <1>2, <1>3
  <2>1. /\ s \o u \in Seq(Int) /\ Len(s \o u) = Len(s) + Len(u)
        /\ \A k \in 1 .. Len(s) : (s \o u)[k] = s[k]
        /\ \A k \in 1 .. Len(u) : (s \o u)[Len(s) + k] = u[k]
    <3>1. s \in Seq(Int) /\ u \in Seq(Int)
      BY <2>0
    <3>2. QED
      BY <3>1, InARow
  <2>2. QED
    BY <2>0, <2>1
<1>6. ASSUME NEW i \in 1 .. m + v PROVE (s \o u)[i] = z[i]
  <2>0. i \in 1 .. m \/ (i - m \in 1 .. v /\ i = m + (i - m))
    BY <1>1
  <2>1. CASE i \in 1 .. m
    <3>1. (s \o u)[i] = s[i] /\ r[i] = o[i] /\ s[i] = o[i].assets[t]
      BY <1>1, <1>2, <1>5, <2>1
    <3>2. QED
      BY <1>4, <3>1
  <2>2. CASE i - m \in 1 .. v /\ i = m + (i - m)
    <3>1. (s \o u)[m + (i - m)] = u[i - m] /\ r[m + (i - m)] = q[i - m]
      BY <1>1, <1>5, <2>2
    <3>2. u[i - m] = q[i - m].assets[t]
      BY <1>3, <2>2
    <3>3. QED
      BY <1>4, <2>2, <3>1, <3>2
  <2>3. QED
    BY <2>0, <2>1, <2>2
<1>7. s \o u = z
  BY <1>4, <1>5, <1>6, SeqEqual
<1>8. Sum(s \o u) = Sum(s) + Sum(u)
  BY <1>2, <1>3, SumOfConcat
<1>9. QED
  BY <1>2, <1>3, <1>4, <1>7, <1>8 DEF r

LEMMA TotalOfOne ==
  ASSUME NEW p \in PaymentType, NEW t \in Tokens
  PROVE  /\ <<p>> \in Seq(PaymentType) /\ Len(<<p>>) = 1 /\ <<p>>[1] = p
         /\ Total(<<p>>, t) = p.assets[t] /\ p.assets[t] \in Int
<1> DEFINE o == <<p>>
           c == p.assets[t]
           s == Amounts(o, t)
<1>1. o \in Seq(PaymentType) /\ Len(o) = 1 /\ o[1] = p
  OBVIOUS
<1>2. c \in Int
  BY DEF PaymentType, Assets
<1>3. /\ s \in Seq(Int) /\ Len(s) = Len(o) /\ Total(o, t) = Sum(s)
      /\ \A i \in 1 .. Len(o) : s[i] = o[i].assets[t]
  <2> HIDE DEF o
  <2>1. QED
    BY <1>1, AmountsAreNumbers
<1>4. \A i \in 1 .. Len(s) : s[i] = c
  <2>1. \A i \in 1 .. 1 : i = 1
    OBVIOUS
  <2>2. QED
    BY <1>1, <1>3, <2>1
<1> HIDE DEF o, c, s
<1>5. Sum(s) = Len(s) * c
  BY <1>2, <1>3, <1>4, SumOfSame
<1>6. QED
  BY <1>1, <1>2, <1>3, <1>5 DEF o, c

LEMMA TotalOfNone ==
  ASSUME NEW t \in Tokens
  PROVE  <<>> \in Seq(PaymentType) /\ Len(<<>>) = 0 /\ Total(<<>>, t) = 0
<1> DEFINE s == Amounts(<<>>, t)
<1>1. <<>> \in Seq(PaymentType) /\ Len(<<>>) = 0
  OBVIOUS
<1>2. s \in Seq(Int) /\ Len(s) = 0 /\ Total(<<>>, t) = Sum(s)
  BY <1>1, AmountsAreNumbers
<1> HIDE DEF s
<1>3. Sum(s) = Len(s) * 0
  <2>1. \A i \in 1 .. Len(s) : s[i] = 0
    BY <1>2
  <2>2. s \in Seq(Int) /\ 0 \in Int
    BY <1>2
  <2>3. QED
    BY <2>1, <2>2, SumOfSame
<1>4. QED
  BY <1>1, <1>2, <1>3
\* What one watcher gets of an amount is a number, and so is the rest.
LEMMA ShareIs ==
  ASSUME NEW amount \in Nat, NEW percent \in Nat, NEW n \in Nat \ {0}
  PROVE  /\ Share(amount, percent, n) \in Int /\ Rest(amount, percent, n) \in Int
         /\ n * Share(amount, percent, n) + Rest(amount, percent, n) = amount
         /\ percent <= 100 => Rest(amount, percent, n) >= 0
<1> DEFINE x == amount * percent
           y == x \div 100
           z == y \div n
<1>1. x \in Nat
  OBVIOUS
<1>2. y \in Nat /\ x - 100 * y \in 0 .. 99
  <2> HIDE DEF x
  <2>1. QED
    BY <1>1, Quotient
<1>3. z \in Nat /\ y - n * z \in 0 .. n - 1
  <2> HIDE DEF y
  <2>1. y \in Int /\ y \in Nat
    BY <1>2
  <2>2. /\ y - n * (y \div n) \in 0 .. n - 1
        /\ y \in Nat => y \div n \in Nat
    BY <2>1, Quotient
  <2>3. QED
    BY <2>1, <2>2
<1>4. Share(amount, percent, n) = z
  BY DEF Share
<1>5. percent <= 100 => x <= amount * 100
  OBVIOUS
<1> HIDE DEF x, y, z
<1> DEFINE w == n * z
<1>6. w \in Int /\ Rest(amount, percent, n) = amount - w
  BY <1>3, <1>4 DEF Rest
<1>7. y - w \in 0 .. n - 1
  BY <1>3
<1> HIDE DEF w
<1>8. percent <= 100 => amount - w >= 0
  BY <1>1, <1>2, <1>5, <1>6, <1>7
<1>9. QED
  BY <1>3, <1>4, <1>6, <1>8 DEF w

\* What a watcher gets beside its box.
WatcherPart(t, n) ==
  (IF t = "rwt" THEN eventRwtCount ELSE 0)
  + ((IF t = "rsn"
      THEN Share(emissionFee, watchersEmissionSharePercent, n) ELSE 0)
     + (IF t = event.data.tokenOnErgo
        THEN Share(bridgeFee, watchersSharePercent, n) ELSE 0))

LEMMA WatchersOrderIs ==
  ASSUME OrderTypes, eventRwtCount \in Int, NEW p \in Seq(Permit), Len(p) # 0
  PROVE  LET W == watchersOrder(p)
         IN  /\ W \in Seq(PaymentType) /\ Len(W) = Len(p)
             /\ \A k \in 1 .. Len(p) :
                  /\ W[k].address = "permit" /\ W[k].extra = p[k].wid
                  /\ \A t \in Tokens :
                       W[k].assets[t] = (IF t = "erg" THEN p[k].boxValue ELSE 0)
                                        + WatcherPart(t, Len(p))
             /\ \A t \in Tokens : WatcherPart(t, Len(p)) \in Int
<1> DEFINE n == Len(p)
           W == watchersOrder(p)
           e == Share(emissionFee, watchersEmissionSharePercent, n)
           f == Share(bridgeFee, watchersSharePercent, n)
           tokens == Plus(Asset("rwt", eventRwtCount), Asset("rsn", e))
           rest == Plus(tokens, Fee(f))
           box(k) == Plus(Asset("erg", p[k].boxValue), rest)
<1>1. n \in Nat \ {0} /\ \A k \in 1 .. n : p[k] \in Permit
  BY LenProperties, ElementOfSeq
<1>2. e \in Int /\ f \in Int
  <2>1. /\ bridgeFee \in Nat /\ emissionFee \in Nat
        /\ watchersSharePercent \in Nat /\ watchersEmissionSharePercent \in Nat
    BY FeesAreNumbers, EventOrderAssumption
  <2> HIDE DEF n
  <2>2. QED
    BY <1>1, <2>1, ShareIs
<1>3. W = [k \in 1 .. n |-> Payment("permit", p[k].wid, box(k))]
  BY DEF watchersOrder
<1> HIDE DEF e, f
<1>4. /\ Asset("rwt", eventRwtCount) \in Assets /\ Asset("rsn", e) \in Assets
      /\ Fee(f) \in Assets
      /\ \A t \in Tokens :
           /\ Asset("rwt", eventRwtCount)[t] = IF t = "rwt" THEN eventRwtCount ELSE 0
           /\ Asset("rsn", e)[t] = IF t = "rsn" THEN e ELSE 0
           /\ Fee(f)[t] = IF t = event.data.tokenOnErgo THEN f ELSE 0
  BY <1>2, AssetIs DEF Fee
<1>5. /\ tokens \in Assets
      /\ \A t \in Tokens : tokens[t] =
           (IF t = "rwt" THEN eventRwtCount ELSE 0) + (IF t = "rsn" THEN e ELSE 0)
  <2>1. /\ tokens \in Assets
        /\ \A t \in Tokens :
             tokens[t] = Asset("rwt", eventRwtCount)[t] + Asset("rsn", e)[t]
    BY <1>4, PlusIs
  <2> HIDE DEF tokens
  <2>2. QED
    BY <1>4, <2>1
<1> HIDE DEF tokens
<1>6. rest \in Assets /\ \A t \in Tokens : rest[t] = tokens[t] + Fee(f)[t]
  BY <1>4, <1>5, PlusIs
<1> HIDE DEF rest
<1>7. \A t \in Tokens : WatcherPart(t, n) \in Int /\ rest[t] = WatcherPart(t, n)
  <2>1. SUFFICES ASSUME NEW t \in Tokens
                 PROVE  WatcherPart(t, n) \in Int /\ rest[t] = WatcherPart(t, n)
    OBVIOUS
  <2>2. WatcherPart(t, n) = (IF t = "rwt" THEN eventRwtCount ELSE 0)
          + ((IF t = "rsn" THEN e ELSE 0)
             + (IF t = event.data.tokenOnErgo THEN f ELSE 0))
    BY DEF WatcherPart, e, f
  <2>3. rest[t] = ((IF t = "rwt" THEN eventRwtCount ELSE 0)
                    + (IF t = "rsn" THEN e ELSE 0))
                  + (IF t = event.data.tokenOnErgo THEN f ELSE 0)
    BY <1>4, <1>5, <1>6
  <2>4. QED
    BY <1>2, <2>2, <2>3
<1>8. ASSUME NEW k \in 1 .. n
      PROVE  /\ box(k) \in Assets /\ p[k].wid \in Watchers
             /\ \A t \in Tokens : box(k)[t] =
                  (IF t = "erg" THEN p[k].boxValue ELSE 0) + WatcherPart(t, n)
  <2>1. p[k].boxValue \in Int /\ p[k].wid \in Watchers
    BY <1>1 DEF Permit
  <2> DEFINE a == Asset("erg", p[k].boxValue)
  <2>2. /\ a \in Assets
        /\ \A t \in Tokens : a[t] = IF t = "erg" THEN p[k].boxValue ELSE 0
    BY <2>1, AssetIs
  <2> HIDE DEF a
  <2>3. Plus(a, rest) \in Assets /\ \A t \in Tokens : Plus(a, rest)[t] = a[t] + rest[t]
    BY <1>6, <2>2, PlusIs
  <2>4. box(k) = Plus(a, rest)
    BY DEF a
  <2>5. QED
    BY <1>7, <2>1, <2>2, <2>3, <2>4
<1> HIDE DEF n, box
<1>9. \A k \in 1 .. n : /\ W[k] \in PaymentType
                        /\ W[k].address = "permit" /\ W[k].extra = p[k].wid
                        /\ W[k].assets = box(k)
  <2>1. SUFFICES ASSUME NEW k \in 1 .. n
                 PROVE  /\ W[k] \in PaymentType
                        /\ W[k].address = "permit" /\ W[k].extra = p[k].wid
                        /\ W[k].assets = box(k)
    OBVIOUS
  <2>2. W[k] = Payment("permit", p[k].wid, box(k))
    BY <1>3
  <2>3. box(k) \in Assets /\ p[k].wid \in Watchers \cup {"none"}
    BY <1>8
  <2> HIDE DEF W
  <2>4. QED
    BY <2>2, <2>3 DEF Payment, PaymentType
<1>10. W \in Seq(PaymentType) /\ Len(W) = n
  <2>1. W \in [1 .. n -> PaymentType]
    BY <1>3, <1>9
  <2> HIDE DEF W
  <2>2. QED
    BY <1>1, <2>1, LenProperties
<1>11. QED
  BY <1>7, <1>8, <1>9, <1>10 DEF n

\* The watchers get what their boxes hold, and each its part.
LEMMA WatchersTotal ==
  ASSUME OrderTypes, eventRwtCount \in Int, NEW p \in Seq(Permit), Len(p) # 0,
         NEW t \in Tokens
  PROVE  Total(watchersOrder(p), t) =
           (IF t = "erg" THEN Sum([k \in 1 .. Len(p) |-> p[k].boxValue]) ELSE 0)
           + Len(p) * WatcherPart(t, Len(p))
<1> DEFINE n == Len(p)
           W == watchersOrder(p)
           c == WatcherPart(t, n)
           u == Amounts(W, t)
           s == [k \in 1 .. n |-> IF t = "erg" THEN p[k].boxValue ELSE 0]
           z == [k \in 1 .. n |-> c]
<1>1. /\ W \in Seq(PaymentType) /\ Len(W) = n /\ c \in Int
      /\ \A k \in 1 .. n :
           W[k].assets[t] = (IF t = "erg" THEN p[k].boxValue ELSE 0) + c
  BY WatchersOrderIs
<1>2. n \in Nat /\ \A k \in 1 .. n : p[k].boxValue \in Int
  <2>1. n \in Nat /\ \A k \in 1 .. n : p[k] \in Permit
    BY LenProperties, ElementOfSeq
  <2>2. QED
    BY <2>1 DEF Permit
<1> HIDE DEF W, c, n
<1>3. /\ u \in Seq(Int) /\ Len(u) = n /\ Total(W, t) = Sum(u)
      /\ \A k \in 1 .. n : u[k] = W[k].assets[t]
  <2>1. /\ u \in Seq(Int) /\ Len(u) = Len(W) /\ Total(W, t) = Sum(u)
        /\ \A k \in 1 .. Len(W) : u[k] = W[k].assets[t]
    BY <1>1, AmountsAreNumbers
  <2>2. QED
    BY <1>1, <2>1
<1>4. /\ s \in [1 .. n -> Int]
      /\ \A k \in 1 .. n : s[k] = IF t = "erg" THEN p[k].boxValue ELSE 0
  BY <1>2
<1>5. z \in [1 .. n -> Int] /\ \A k \in 1 .. n : z[k] = c
  BY <1>1
<1>e. t = "erg" => s = [k \in 1 .. n |-> p[k].boxValue]
  OBVIOUS
<1> HIDE DEF u, s, z
<1>6. s \in Seq(Int) /\ Len(s) = n /\ z \in Seq(Int) /\ Len(z) = n
  BY <1>2, <1>4, <1>5, LenProperties
<1>7. \A k \in 1 .. Len(u) : u[k] = s[k] + z[k]
  BY <1>1, <1>3, <1>4, <1>5
<1>8. Sum(u) = Sum(s) + Sum(z)
  <2>1. /\ u \in Seq(Int) /\ s \in Seq(Int) /\ z \in Seq(Int)
        /\ Len(s) = Len(u) /\ Len(z) = Len(u)
    BY <1>3, <1>6
  <2>2. QED
    BY <1>7, <2>1, SumOfPlus
<1>9. Sum(z) = n * c
  <2>1. /\ z \in Seq(Int) /\ c \in Int /\ \A k \in 1 .. Len(z) : z[k] = c
    BY <1>1, <1>5, <1>6
  <2>2. Sum(z) = Len(z) * c
    BY <2>1, SumOfSame
  <2>3. QED
    BY <1>6, <2>2
<1>10. t # "erg" => Sum(s) = 0
  <2>1. SUFFICES ASSUME t # "erg" PROVE Sum(s) = 0
    OBVIOUS
  <2>2. /\ s \in Seq(Int) /\ 0 \in Int /\ \A k \in 1 .. Len(s) : s[k] = 0
    BY <1>4, <1>6, <2>1
  <2>3. Sum(s) = Len(s) * 0
    BY <2>2, SumOfSame
  <2>4. QED
    BY <1>2, <1>6, <2>3
<1>11. Total(W, t) = (IF t = "erg" THEN Sum([k \in 1 .. n |-> p[k].boxValue]) ELSE 0)
                     + n * c
  <2>1. CASE t = "erg"
    BY <1>3, <1>8, <1>9, <1>e, <2>1
  <2>2. CASE t # "erg"
    BY <1>3, <1>8, <1>9, <1>10, <2>2
  <2>3. QED
    BY <2>1, <2>2
<1>12. QED
  BY <1>11 DEF W, n, c
\* What the guards get.
GuardPart(t, n) ==
  (IF t = event.data.tokenOnErgo
   THEN Rest(bridgeFee, watchersSharePercent, n) + networkFee ELSE 0)
  + (IF t = "rsn" THEN Rest(emissionFee, watchersEmissionSharePercent, n) ELSE 0)

\* Payments to the guards, one after another.
ToGuards(o) ==
  o \in Seq(PaymentType) /\ \A i \in 1 .. Len(o) : o[i].address \notin {"permit", "user"}

\* A box of the guards.
LEMMA GuardBoxIs ==
  ASSUME NEW address \in {"bridgeFeeRepo", "emission", "networkFeeRepo"},
         NEW id, NEW value \in Int, NEW t \in Tokens,
         NEW x, x = Payment(address, "none", Plus(Asset("erg", minimumErg), Asset(id, value)))
  PROVE  /\ <<x>> \in Seq(PaymentType) /\ ToGuards(<<x>>) /\ Len(<<x>>) = 1
         /\ Total(<<x>>, t) = (IF t = "erg" THEN minimumErg ELSE 0)
                              + (IF t = id THEN value ELSE 0)
<1> DEFINE a == Asset("erg", minimumErg)
           c == Asset(id, value)
           d == Plus(a, c)
<1>1. /\ a \in Assets /\ c \in Assets
      /\ a[t] = (IF t = "erg" THEN minimumErg ELSE 0)
      /\ c[t] = (IF t = id THEN value ELSE 0)
  <2>0. minimumErg \in Nat
    BY EventOrderAssumption
  <2>1. minimumErg \in Int
    BY <2>0
  <2>2. a \in Assets /\ a[t] = (IF t = "erg" THEN minimumErg ELSE 0)
    BY <2>1, AssetIs
  <2>3. c \in Assets /\ c[t] = (IF t = id THEN value ELSE 0)
    BY AssetIs
  <2>4. QED
    BY <2>2, <2>3
<1> HIDE DEF a, c
<1>2. d \in Assets /\ d[t] = a[t] + c[t]
  BY <1>1, PlusIs
<1>3. x = Payment(address, "none", d)
  BY DEF a, c
<1> HIDE DEF d
<1>4. x \in PaymentType /\ x.address = address /\ x.assets = d
  BY <1>2, <1>3 DEF Payment, PaymentType
<1>5. /\ <<x>> \in Seq(PaymentType) /\ Len(<<x>>) = 1 /\ <<x>>[1] = x
      /\ Total(<<x>>, t) = x.assets[t]
  BY <1>4, TotalOfOne
<1>6. ToGuards(<<x>>)
  <2>1. x.address \notin {"permit", "user"}
    BY <1>4
  <2>2. \A i \in 1 .. 1 : i = 1
    OBVIOUS
  <2>3. QED
    BY <1>5, <2>1, <2>2 DEF ToGuards
<1>7. QED
  BY <1>1, <1>2, <1>4, <1>5, <1>6

LEMMA ToGuardsConcat ==
  ASSUME NEW o, NEW q, ToGuards(o), ToGuards(q)
  PROVE  ToGuards(o \o q) /\ Len(o \o q) = Len(o) + Len(q)
<1>1. /\ o \in Seq(PaymentType) /\ q \in Seq(PaymentType)
      /\ \A i \in 1 .. Len(o) : o[i].address \notin {"permit", "user"}
      /\ \A i \in 1 .. Len(q) : q[i].address \notin {"permit", "user"}
  BY DEF ToGuards
<1> DEFINE r == o \o q
           m == Len(o)
           v == Len(q)
<1>2. /\ r \in Seq(PaymentType) /\ Len(r) = m + v /\ m \in Nat /\ v \in Nat
      /\ \A k \in 1 .. m : r[k] = o[k]
      /\ \A k \in 1 .. v : r[m + k] = q[k]
  BY <1>1, InARow
<1> HIDE DEF r, m, v
<1>3. ASSUME NEW i \in 1 .. m + v PROVE r[i].address \notin {"permit", "user"}
  <2>1. CASE i \in 1 .. m
    <3>1. r[i] = o[i] /\ o[i].address \notin {"permit", "user"}
      BY <1>1, <1>2, <2>1 DEF m
    <3>2. QED
      BY <3>1
  <2>2. CASE i - m \in 1 .. v /\ i = m + (i - m)
    <3>1. r[m + (i - m)] = q[i - m] /\ q[i - m].address \notin {"permit", "user"}
      BY <1>1, <1>2, <2>2 DEF v
    <3>2. QED
      BY <2>2, <3>1
  <2>3. i \in 1 .. m \/ (i - m \in 1 .. v /\ i = m + (i - m))
    BY <1>2
  <2>4. QED
    BY <2>1, <2>2, <2>3
<1>4. ToGuards(r)
  BY <1>2, <1>3 DEF ToGuards
<1>5. QED
  BY <1>2, <1>4 DEF r, m, v

LEMMA GuardsOrderIs ==
  ASSUME OrderTypes, NEW n \in Nat \ {0}, NEW t \in Tokens
  PROVE  LET G == guardsOrder(n)
         IN  /\ ToGuards(G) /\ Len(G) \in Nat
             /\ Total(G, t) = (IF t = "erg" THEN Len(G) * minimumErg ELSE 0)
                              + GuardPart(t, n)
<1> DEFINE rest == Rest(bridgeFee, watchersSharePercent, n)
           emission == Rest(emissionFee, watchersEmissionSharePercent, n)
           id == event.data.tokenOnErgo
           box(address, assets) ==
             Payment(address, "none", Plus(Asset("erg", minimumErg), assets))
           G == guardsOrder(n)
<1>1. rest \in Int /\ emission \in Int /\ emission >= 0 /\ networkFee \in Int
  <2>1. /\ bridgeFee \in Nat /\ emissionFee \in Nat /\ networkFee \in Nat
        /\ watchersSharePercent \in Nat /\ watchersEmissionSharePercent \in Nat
        /\ watchersEmissionSharePercent <= 100
    BY FeesAreNumbers, EventOrderAssumption
  <2>2. QED
    BY <2>1, ShareIs
<1>2. PICK x, y, z : /\ x = box("bridgeFeeRepo", Asset(id, rest))
                     /\ y = box("emission", Asset("rsn", emission))
                     /\ z = box("networkFeeRepo", Asset(id, networkFee))
  OBVIOUS
<1> DEFINE E == IF emission > 0 THEN <<y>> ELSE <<>>
           e == IF emission > 0 THEN 1 ELSE 0
           min == IF t = "erg" THEN minimumErg ELSE 0
<1>3. G = (<<x>> \o E) \o <<z>>
  BY <1>2 DEF guardsOrder, Fee
<1>m. minimumErg \in Int
  BY EventOrderAssumption
<1> HIDE DEF rest, emission, id
<1>4. /\ <<x>> \in Seq(PaymentType) /\ ToGuards(<<x>>) /\ Len(<<x>>) = 1
      /\ Total(<<x>>, t) = min + (IF t = id THEN rest ELSE 0)
  BY <1>1, <1>2, GuardBoxIs
<1>5. /\ <<z>> \in Seq(PaymentType) /\ ToGuards(<<z>>) /\ Len(<<z>>) = 1
      /\ Total(<<z>>, t) = min + (IF t = id THEN networkFee ELSE 0)
  BY <1>1, <1>2, GuardBoxIs
<1>6. /\ E \in Seq(PaymentType) /\ ToGuards(E) /\ Len(E) = e
      /\ Total(E, t) = (IF emission > 0 THEN min ELSE 0)
                       + (IF t = "rsn" THEN emission ELSE 0)
  <2>1. CASE emission > 0
    <3>1. /\ <<y>> \in Seq(PaymentType) /\ ToGuards(<<y>>) /\ Len(<<y>>) = 1
          /\ Total(<<y>>, t) = min + (IF t = "rsn" THEN emission ELSE 0)
      BY <1>1, <1>2, GuardBoxIs
    <3>4. E = <<y>> /\ e = 1
      BY <2>1
    <3> HIDE DEF E, e
    <3>5. QED
      BY <2>1, <3>1, <3>4
  <2>2. CASE ~(emission > 0)
    <3>1. emission = 0 /\ E = <<>> /\ e = 0
      BY <1>1, <2>2
    <3>2. <<>> \in Seq(PaymentType) /\ Len(<<>>) = 0 /\ Total(<<>>, t) = 0
      BY TotalOfNone
    <3>3. ToGuards(<<>>)
      BY <3>2 DEF ToGuards
    <3> HIDE DEF E, e
    <3>4. QED
      BY <2>2, <3>1, <3>2, <3>3
  <2>3. QED
    BY <2>1, <2>2
<1> HIDE DEF E, G
<1>7. /\ ToGuards(<<x>> \o E) /\ Len(<<x>> \o E) = 1 + e
      /\ Total(<<x>> \o E, t) = Total(<<x>>, t) + Total(E, t)
  <2>1. ToGuards(<<x>> \o E) /\ Len(<<x>> \o E) = Len(<<x>>) + Len(E)
    BY <1>4, <1>6, ToGuardsConcat
  <2>2. Total(<<x>> \o E, t) = Total(<<x>>, t) + Total(E, t)
    BY <1>4, <1>6, TotalOfConcat
  <2>3. QED
    BY <1>4, <1>6, <2>1, <2>2
<1> DEFINE q == <<x>> \o E
<1> HIDE DEF q
<1>8. /\ ToGuards(q \o <<z>>) /\ Len(q \o <<z>>) = Len(q) + 1
      /\ Total(q \o <<z>>, t) = Total(q, t) + Total(<<z>>, t)
  <2>1. q \in Seq(PaymentType) /\ ToGuards(q)
    BY <1>7 DEF ToGuards, q
  <2>2. <<z>> \in Seq(PaymentType) /\ ToGuards(<<z>>) /\ Len(<<z>>) = 1
    BY <1>5
  <2>3. ToGuards(q \o <<z>>) /\ Len(q \o <<z>>) = Len(q) + Len(<<z>>)
    BY <2>1, <2>2, ToGuardsConcat
  <2>4. Total(q \o <<z>>, t) = Total(q, t) + Total(<<z>>, t)
    BY <2>1, <2>2, TotalOfConcat
  <2>5. QED
    BY <2>2, <2>3, <2>4
<1>9. /\ ToGuards(G) /\ Len(G) = 2 + e
      /\ Total(G, t) = (Total(<<x>>, t) + Total(E, t)) + Total(<<z>>, t)
  <2>1. G = q \o <<z>>
    BY <1>3 DEF q
  <2>2. Len(q) = 1 + e /\ Total(q, t) = Total(<<x>>, t) + Total(E, t) /\ e \in Nat
    BY <1>7 DEF q
  <2> HIDE DEF e
  <2>3. QED
    BY <1>8, <2>1, <2>2
<1>10. GuardPart(t, n) = (IF t = id THEN rest + networkFee ELSE 0)
                         + (IF t = "rsn" THEN emission ELSE 0)
  BY DEF GuardPart, id, rest, emission
<1>11. Total(G, t) = (IF t = "erg" THEN Len(G) * minimumErg ELSE 0) + GuardPart(t, n)
  <2>1. CASE emission > 0
    <3>1. Len(G) = 3
      BY <1>9, <2>1
    <3>2. QED
      BY <1>1, <1>m, <1>4, <1>5, <1>6, <1>9, <1>10, <2>1, <3>1
  <2>2. CASE ~(emission > 0)
    <3>1. Len(G) = 2
      BY <1>9, <2>2
    <3>2. QED
      BY <1>1, <1>m, <1>4, <1>5, <1>6, <1>9, <1>10, <2>2, <3>1
  <2>3. QED
    BY <2>1, <2>2
<1>12. QED
  BY <1>9, <1>11 DEF G
\* What the user gets.
UserOrder == IF event.data.toErgo THEN <<eventSinglePayment>> ELSE <<>>

LEMMA UserPaymentIs ==
  ASSUME OrderTypes
  PROVE  /\ eventSinglePayment \in PaymentType
         /\ eventSinglePayment.address = "user"
         /\ eventSinglePayment.assets["rwt"] = 0
<1> DEFINE e == event.data
           x == e.amount - bridgeFee - networkFee
           y == IF e.toErgo THEN additionalErgOnPayment ELSE 0
           a == Asset(e.targetToken, x)
           c == Asset(e.nativeToken, chainMinTransfer)
           d == Asset("erg", y)
           f == Plus(c, d)
           p == Plus(a, f)
<1>1. x \in Int /\ y \in Int /\ chainMinTransfer \in Int
  <2>1. bridgeFee \in Nat /\ networkFee \in Nat /\ e \in Events
    BY FeesAreNumbers
  <2>2. e.amount \in Nat /\ additionalErgOnPayment \in Nat /\ chainMinTransfer \in Nat
    BY <2>1, EventOrderAssumption
  <2> HIDE DEF e
  <2>3. QED
    BY <2>1, <2>2
<1>2. e.targetToken # "rwt" /\ e.nativeToken # "rwt" /\ "rwt" \in Tokens
  <2>1. e \in Events
    BY FeesAreNumbers
  <2>2. {e.tokenOnErgo, e.targetToken, e.nativeToken} \subseteq Tokens \ {"rwt"}
    BY <2>1, EventOrderAssumption
  <2>3. QED
    BY <2>2 DEF Tokens
<1>3. eventSinglePayment = Payment("user", "none", p)
  BY DEF eventSinglePayment
<1> HIDE DEF x, y, e
<1>4. a \in Assets /\ a["rwt"] = 0
  BY <1>1, <1>2, AssetIs
<1>5. c \in Assets /\ c["rwt"] = 0
  BY <1>1, <1>2, AssetIs
<1>6. d \in Assets /\ d["rwt"] = 0
  BY <1>1, <1>2, AssetIs
<1> HIDE DEF a, c, d
<1>7. f \in Assets /\ f["rwt"] = 0 + 0
  BY <1>2, <1>5, <1>6, PlusIs
<1> HIDE DEF f
<1>8. p \in Assets /\ p["rwt"] = 0
  BY <1>2, <1>4, <1>7, PlusIs
<1> HIDE DEF p
<1>9. QED
  BY <1>3, <1>8 DEF Payment, PaymentType

LEMMA UserOrderIs ==
  ASSUME OrderTypes, NEW t \in Tokens
  PROVE  /\ UserOrder \in Seq(PaymentType) /\ Len(UserOrder) \in Nat
         /\ \A i \in 1 .. Len(UserOrder) : UserOrder[i].address = "user"
         /\ Total(UserOrder, t) =
              IF event.data.toErgo THEN eventSinglePayment.assets[t] ELSE 0
         /\ eventSinglePayment.assets[t] \in Int
<1> DEFINE p == eventSinglePayment
<1>1. p \in PaymentType /\ p.address = "user"
  BY UserPaymentIs
<1> HIDE DEF p
<1>2. /\ <<p>> \in Seq(PaymentType) /\ Len(<<p>>) = 1 /\ <<p>>[1] = p
      /\ Total(<<p>>, t) = p.assets[t] /\ p.assets[t] \in Int
  BY <1>1, TotalOfOne
<1>3. <<>> \in Seq(PaymentType) /\ Len(<<>>) = 0 /\ Total(<<>>, t) = 0
  BY TotalOfNone
<1>4. UserOrder = IF event.data.toErgo THEN <<p>> ELSE <<>>
  BY DEF UserOrder, p
<1>5. \A i \in 1 .. 1 : i = 1
  OBVIOUS
<1>6. CASE event.data.toErgo
  BY <1>1, <1>2, <1>4, <1>5, <1>6 DEF p
<1>7. CASE ~event.data.toErgo
  BY <1>2, <1>3, <1>4, <1>7 DEF p
<1>8. QED
  BY <1>6, <1>7

\* An order pays the watchers, then the user, then the guards.
Parts(b) ==
  LET p == outPermits(b)
  IN  /\ DistributingOrder(b) = (watchersOrder(p) \o UserOrder) \o guardsOrder(Len(p))
      /\ p \in Seq(Permit) /\ Len(p) \in Nat \ {0}
      /\ watchersOrder(p) \in Seq(PaymentType) /\ Len(watchersOrder(p)) = Len(p)
      /\ UserOrder \in Seq(PaymentType) /\ guardsOrder(Len(p)) \in Seq(PaymentType)

LEMMA OrderIs ==
  ASSUME OrderInv, NEW b \in Nat, event.height <= b, event.height # NotTriggered
  PROVE  Parts(b)
<1> DEFINE p == outPermits(b)
           W == watchersOrder(p)
           G == guardsOrder(Len(p))
<1>1. OrderTypes /\ eventRwtCount \in Int /\ "erg" \in Tokens
  BY EventBoxHolds DEF OrderInv, Tokens
<1>2. p \in Seq(Permit) /\ Len(p) \in Nat \ {0}
  BY WatchersFound DEF Found
<1>3. /\ DistributingOrder(b) =
           IF event.data.toErgo THEN W \o <<eventSinglePayment>> \o G ELSE W \o G
  BY DEF DistributingOrder, createEventPaymentOrder, createEventRewardOrder,
         eventRewardOrder
<1> HIDE DEF p
<1>4. W \in Seq(PaymentType) /\ Len(W) = Len(p)
  BY <1>1, <1>2, WatchersOrderIs
<1>5. G \in Seq(PaymentType)
  BY <1>1, <1>2, GuardsOrderIs DEF ToGuards
<1>6. UserOrder \in Seq(PaymentType)
  BY <1>1, UserOrderIs
<1> HIDE DEF W, G
<1>7. W \o <<>> = W
  BY <1>4, ConcatEmptySeq
<1>8. DistributingOrder(b) = (W \o UserOrder) \o G
  BY <1>3, <1>7 DEF UserOrder
<1>9. QED
  BY <1>2, <1>4, <1>5, <1>6, <1>8 DEF Parts, p, W, G

LEMMA OrderTotal ==
  ASSUME OrderInv, NEW b \in Nat, event.height <= b, event.height # NotTriggered,
         NEW t \in Tokens
  PROVE  Total(DistributingOrder(b), t) =
           (Total(watchersOrder(outPermits(b)), t) + Total(UserOrder, t))
           + Total(guardsOrder(Len(outPermits(b))), t)
<1> DEFINE p == outPermits(b)
           W == watchersOrder(p)
           G == guardsOrder(Len(p))
           U == UserOrder
<1>1. /\ DistributingOrder(b) = (W \o U) \o G
      /\ W \in Seq(PaymentType) /\ U \in Seq(PaymentType) /\ G \in Seq(PaymentType)
  BY OrderIs DEF Parts
<1> HIDE DEF W, G, U
<1>2. W \o U \in Seq(PaymentType) /\ Total(W \o U, t) = Total(W, t) + Total(U, t)
  BY <1>1, TotalOfConcat, ConcatProperties
<1>3. Total((W \o U) \o G, t) = Total(W \o U, t) + Total(G, t)
  BY <1>1, <1>2, TotalOfConcat
<1>4. QED
  BY <1>1, <1>2, <1>3 DEF W, G, U

\* At which places of an order who is paid.
LEMMA OrderPlaces ==
  ASSUME OrderInv, NEW b \in Nat, event.height <= b, event.height # NotTriggered
  PROVE  LET p == outPermits(b)
             n == Len(p)
             m == n + Len(UserOrder)
             k == Len(guardsOrder(n))
             o == DistributingOrder(b)
         IN  /\ n \in Nat /\ m \in Nat /\ n <= m /\ k \in Nat
             /\ DOMAIN o = 1 .. m + k
             /\ \A i \in 1 .. n : o[i].address = "permit" /\ o[i].extra = p[i].wid
             /\ \A i \in n + 1 .. m : o[i].address = "user"
             /\ \A i \in m + 1 .. m + k : o[i].address \notin {"permit", "user"}
<1> DEFINE p == outPermits(b)
           n == Len(p)
           W == watchersOrder(p)
           G == guardsOrder(n)
           U == UserOrder
           o == DistributingOrder(b)
           u == Len(U)
           m == n + u
           k == Len(G)
           q == W \o U
<1>1. /\ o = (W \o U) \o G /\ p \in Seq(Permit) /\ n \in Nat \ {0}
      /\ W \in Seq(PaymentType) /\ U \in Seq(PaymentType) /\ G \in Seq(PaymentType)
      /\ Len(W) = n
  BY OrderIs DEF Parts
<1>2. OrderTypes /\ eventRwtCount \in Int /\ "erg" \in Tokens
  BY EventBoxHolds DEF OrderInv, Tokens
<1>3. \A i \in 1 .. n : W[i].address = "permit" /\ W[i].extra = p[i].wid
  <2> HIDE DEF p
  <2>1. Len(p) # 0
    BY <1>1
  <2>2. QED
    BY <1>1, <1>2, <2>1, WatchersOrderIs
<1>4. u \in Nat /\ \A i \in 1 .. u : U[i].address = "user"
  BY <1>2, UserOrderIs
<1>5. k \in Nat /\ \A i \in 1 .. k : G[i].address \notin {"permit", "user"}
  <2> HIDE DEF n
  <2>1. QED
    BY <1>1, <1>2, GuardsOrderIs DEF ToGuards
<1> HIDE DEF p, n, W, G, U, o, u, k
<1>6. /\ q \in Seq(PaymentType) /\ Len(q) = m
      /\ \A i \in 1 .. n : q[i] = W[i]
      /\ \A i \in 1 .. u : q[n + i] = U[i]
  <2>1. /\ q \in Seq(PaymentType) /\ Len(q) = Len(W) + Len(U)
        /\ \A i \in 1 .. Len(W) : q[i] = W[i]
        /\ \A i \in 1 .. Len(U) : q[Len(W) + i] = U[i]
    <3>1. W \in Seq(PaymentType) /\ U \in Seq(PaymentType)
      BY <1>1
    <3>2. QED
      BY <3>1, InARow
  <2>2. QED
    BY <1>1, <2>1 DEF u
<1>7. m \in Nat /\ n <= m /\ n \in Nat
  BY <1>1, <1>4
<1> HIDE DEF q, m
<1>8. /\ o \in Seq(PaymentType) /\ Len(o) = m + k
      /\ \A i \in 1 .. m : o[i] = q[i]
      /\ \A i \in 1 .. k : o[m + i] = G[i]
  <2>1. o = q \o G
    BY <1>1 DEF q
  <2>2. /\ q \o G \in Seq(PaymentType) /\ Len(q \o G) = Len(q) + Len(G)
        /\ \A i \in 1 .. Len(q) : (q \o G)[i] = q[i]
        /\ \A i \in 1 .. Len(G) : (q \o G)[Len(q) + i] = G[i]
    <3>1. q \in Seq(PaymentType) /\ G \in Seq(PaymentType)
      BY <1>1, <1>6
    <3>2. QED
      BY <3>1, InARow
  <2>3. QED
    BY <1>6, <2>1, <2>2 DEF k
<1>9. DOMAIN o = 1 .. m + k
  BY <1>8, LenProperties
<1>10. ASSUME NEW i \in 1 .. n
       PROVE  o[i].address = "permit" /\ o[i].extra = p[i].wid
  <2>1. i \in 1 .. m
    BY <1>7
  <2>2. o[i] = W[i]
    BY <1>6, <1>8, <2>1
  <2>3. QED
    BY <1>3, <2>2
<1>11. ASSUME NEW i \in n + 1 .. m
       PROVE  o[i].address = "user"
  <2>1. i \in 1 .. m /\ i - n \in 1 .. u /\ n + (i - n) = i
    BY <1>4, <1>7 DEF m
  <2>2. o[i] = q[i] /\ q[n + (i - n)] = U[i - n]
    BY <1>6, <1>8, <2>1
  <2>3. QED
    BY <1>4, <2>1, <2>2
<1>12. ASSUME NEW i \in m + 1 .. m + k
       PROVE  o[i].address \notin {"permit", "user"}
  <2>1. i - m \in 1 .. k /\ m + (i - m) = i
    BY <1>5, <1>7
  <2>2. o[m + (i - m)] = G[i - m]
    BY <1>8, <2>1
  <2>3. QED
    BY <1>5, <2>1, <2>2
<1>13. QED
  BY <1>5, <1>7, <1>9, <1>10, <1>11, <1>12 DEF p, n, G, U, o, u, m, k
-----------------------------------------------------------------------------
(* What an order conserves *)

\* What is known of a tx that is built.
Built(g) ==
  /\ tx[g].builtAt \in Nat /\ event.height <= tx[g].builtAt
  /\ tx[g].readAt \in Nat /\ event.height <= tx[g].readAt
  /\ event.height # NotTriggered
  /\ tx[g].order = DistributingOrder(tx[g].builtAt)
  /\ tx[g].boxes = getEventValidCommitments(tx[g].readAt)

LEMMA BuiltIs ==
  ASSUME OrderInv, NEW g \in Guards, tx[g].built
  PROVE  Built(g)
<1>1. tx[g] # NoTx
  BY DEF NoTx
<1>2. /\ tx[g].builtAt \in Nat /\ event.height <= tx[g].builtAt
      /\ tx[g].readAt \in Nat /\ event.height <= tx[g].readAt
      /\ tx[g].readAt <= scanned[g]
      /\ tx[g].order = DistributingOrder(tx[g].builtAt)
      /\ tx[g].boxes = getEventValidCommitments(tx[g].readAt)
  BY <1>1 DEF OrderInv, TxMade
<1>3. /\ scanned[g] \in Nat /\ scanned[g] < height /\ height \in Nat
      /\ height <= MaxHeight /\ event.height \in Nat
  BY DEF OrderInv, OrderTypes
<1>4. event.height # NotTriggered
  <2>1. MaxHeight \in Nat
    BY EventOrderAssumption
  <2>2. event.height <= MaxHeight
    BY <1>2, <1>3, <2>1
  <2>3. QED
    BY <1>3, <2>1, <2>2 DEF NotTriggered, Never
<1>5. QED
  BY <1>2, <1>4 DEF Built

LEMMA OneShareThen == OrderInv => OneShareEach
<1> SUFFICES ASSUME OrderInv, NEW g \in Guards, tx[g].built
             PROVE  LET order == tx[g].order
                        permits == {i \in DOMAIN order : order[i].address = "permit"}
                    IN  /\ \A i, j \in permits : order[i].extra = order[j].extra => i = j
                        /\ \A m \in Merged : \E i \in permits :
                             order[i].extra = chain[m].WID
  BY DEF OneShareEach
<1>1. PICK b \in Nat : b = tx[g].builtAt /\ event.height <= b
  BY BuiltIs DEF Built
<1>2. tx[g].order = DistributingOrder(b) /\ event.height # NotTriggered
  BY <1>1, BuiltIs DEF Built
<1> DEFINE o == DistributingOrder(b)
           p == outPermits(b)
           n == Len(p)
           m == n + Len(UserOrder)
           k == Len(guardsOrder(n))
           permits == {i \in DOMAIN o : o[i].address = "permit"}
<1>3. /\ n \in Nat /\ m \in Nat /\ n <= m /\ k \in Nat /\ DOMAIN o = 1 .. m + k
      /\ \A i \in 1 .. n : o[i].address = "permit" /\ o[i].extra = p[i].wid
      /\ \A i \in n + 1 .. m : o[i].address = "user"
      /\ \A i \in m + 1 .. m + k : o[i].address \notin {"permit", "user"}
  BY <1>1, <1>2, OrderPlaces
<1>4. /\ \A i, j \in 1 .. n : p[i].wid = p[j].wid => i = j
      /\ \A i \in Merged : \E j \in 1 .. n : p[j].wid = chain[i].WID
  BY <1>1, <1>2, OnePermitEach
<1> HIDE DEF o, p, n, m, k
<1>5. permits = 1 .. n
  <2>1. ASSUME NEW i \in permits PROVE i \in 1 .. n
    <3>1. i \in 1 .. m + k /\ o[i].address = "permit"
      BY <1>3
    <3>2. i \notin n + 1 .. m /\ i \notin m + 1 .. m + k
      <4>1. "user" # "permit"
        OBVIOUS
      <4>2. QED
        BY <1>3, <3>1, <4>1
    <3>3. QED
      BY <1>3, <3>1, <3>2
  <2>2. ASSUME NEW i \in 1 .. n PROVE i \in permits
    BY <1>3
  <2>3. QED
    BY <2>1, <2>2
<1> HIDE DEF permits
<1>6. \A i, j \in permits : o[i].extra = o[j].extra => i = j
  BY <1>3, <1>4, <1>5
<1>7. \A i \in Merged : \E j \in permits : o[j].extra = chain[i].WID
  BY <1>3, <1>4, <1>5
<1>8. QED
  BY <1>2, <1>6, <1>7 DEF o, permits

\* No watcher is paid twice for an event, and every one that was merged into
\* it is paid, for any numbers of guards, watchers, commitments and blocks.
THEOREM OneShareEachAlways == EventOrderSpec => []OneShareEach
BY OrderInvariant, OneShareThen, PTL

\* The boxes beside the event box hold what their watchers are paid for.
LEMMA LateOnesHold ==
  ASSUME OrderInv, NEW b \in Nat, event.height <= b, event.height # NotTriggered
  PROVE  LET V == getEventValidCommitments(b)
             v == Cardinality(V)
             p == outPermits(b)
         IN  /\ v \in Nat /\ Len(p) = WIDsCount + v
             /\ SumOf(V, "rwtCount") = v * eventRwtCount
             /\ SumOf(V, "boxValue") \in Int
             /\ Sum([k \in 1 .. Len(p) |-> p[k].boxValue])
                  = WIDsCount * permitValue + SumOf(V, "boxValue")
<1> DEFINE V == getEventValidCommitments(b)
           v == Cardinality(V)
           p == outPermits(b)
           m == WIDsCount
           s == Holdings(V, "rwtCount")
           x == Holdings(V, "boxValue")
           y == [k \in 1 .. m |-> permitValue]
           z == [k \in 1 .. Len(p) |-> p[k].boxValue]
<1>1. /\ Len(p) = m + v /\ m \in Nat \ {0} /\ v \in Nat /\ V \in SUBSET DOMAIN chain
      /\ \A k \in 1 .. m : p[k].boxValue = permitValue
      /\ \A k \in 1 .. v : /\ InOrder(V)[k] \in V
                           /\ p[m + k].boxValue = chain[InOrder(V)[k]].boxValue
      /\ p \in Seq(Permit)
  BY WatchersFound DEF Found, WIDsCount
<1>2. OrderTypes /\ eventRwtCount \in Int /\ permitValue \in Int
  BY EventBoxHolds DEF OrderInv
<1>3. \A i \in V : chain[i].rwtCount = eventRwtCount
  BY DEF getEventValidCommitments, IsValidCommitment
<1> HIDE DEF V, m
<1>4. s \in Seq(Int) /\ Len(s) = v /\ SumOf(V, "rwtCount") = Sum(s)
  BY <1>1, <1>2, HoldingsAreNumbers
<1>5. /\ x \in Seq(Int) /\ Len(x) = v /\ SumOf(V, "boxValue") = Sum(x)
      /\ SumOf(V, "boxValue") \in Int
  BY <1>1, <1>2, HoldingsAreNumbers
<1>6. /\ \A k \in 1 .. v : s[k] = eventRwtCount
      /\ \A k \in 1 .. v : x[k] = chain[InOrder(V)[k]].boxValue
  BY <1>1, <1>3 DEF Holdings
<1>7. Sum(s) = v * eventRwtCount
  <2> HIDE DEF s, v
  <2>1. \A k \in 1 .. Len(s) : s[k] = eventRwtCount
    BY <1>4, <1>6
  <2>2. Sum(s) = Len(s) * eventRwtCount
    BY <1>2, <1>4, <2>1, SumOfSame
  <2>3. QED
    BY <1>4, <2>2
<1>8. y \in Seq(Int) /\ Len(y) = m /\ \A k \in 1 .. m : y[k] = permitValue
  <2>1. y \in [1 .. m -> Int] /\ \A k \in 1 .. m : y[k] = permitValue
    BY <1>2
  <2> HIDE DEF y
  <2>2. QED
    BY <1>1, <2>1, LenProperties
<1>9. Sum(y) = m * permitValue
  <2> HIDE DEF y
  <2>1. Sum(y) = Len(y) * permitValue
    BY <1>2, <1>8, SumOfSame
  <2>2. QED
    BY <1>8, <2>1
<1>10. z \in Seq(Int) /\ Len(z) = m + v /\ \A k \in 1 .. m + v : z[k] = p[k].boxValue
  <2> HIDE DEF p, v
  <2>1. \A k \in 1 .. m + v : p[k] \in Permit
    BY <1>1, ElementOfSeq
  <2>2. \A k \in 1 .. m + v : p[k].boxValue \in Int
    BY <2>1 DEF Permit
  <2>3. /\ z \in [1 .. m + v -> Int]
        /\ \A k \in 1 .. m + v : z[k] = p[k].boxValue
    BY <1>1, <2>2
  <2> HIDE DEF z
  <2>4. QED
    BY <1>1, <2>3, LenProperties
<1> HIDE DEF s, x, y, z, v, p
<1>11. /\ y \o x \in Seq(Int) /\ Len(y \o x) = m + v
       /\ \A k \in 1 .. m : (y \o x)[k] = y[k]
       /\ \A k \in 1 .. v : (y \o x)[m + k] = x[k]
  <2>1. /\ y \o x \in Seq(Int) /\ Len(y \o x) = Len(y) + Len(x)
        /\ \A k \in 1 .. Len(y) : (y \o x)[k] = y[k]
        /\ \A k \in 1 .. Len(x) : (y \o x)[Len(y) + k] = x[k]
    <3>1. y \in Seq(Int) /\ x \in Seq(Int)
      BY <1>5, <1>8
    <3>2. QED
      BY <3>1, InARow
  <2>2. Len(y) = m /\ Len(x) = v
    BY <1>5, <1>8
  <2>3. QED
    BY <2>1, <2>2
<1>12. ASSUME NEW k \in 1 .. m + v PROVE z[k] = (y \o x)[k]
  <2>1. CASE k \in 1 .. m
    <3>1. z[k] = p[k].boxValue /\ p[k].boxValue = permitValue
      BY <1>1, <1>10, <2>1
    <3>2. (y \o x)[k] = permitValue
      BY <1>8, <1>11, <2>1
    <3>3. QED
      BY <3>1, <3>2
  <2>2. CASE k - m \in 1 .. v /\ k = m + (k - m)
    <3>1. /\ z[k] = p[k].boxValue
          /\ p[m + (k - m)].boxValue = chain[InOrder(V)[k - m]].boxValue
      BY <1>1, <1>10, <2>2
    <3>2. /\ (y \o x)[m + (k - m)] = x[k - m]
          /\ x[k - m] = chain[InOrder(V)[k - m]].boxValue
      BY <1>6, <1>11, <2>2
    <3>3. QED
      BY <2>2, <3>1, <3>2
  <2>3. k \in 1 .. m \/ (k - m \in 1 .. v /\ k = m + (k - m))
    BY <1>1
  <2>4. QED
    BY <2>1, <2>2, <2>3
<1>13. z = y \o x
  BY <1>10, <1>11, <1>12, SeqEqual
<1>14. Sum(y \o x) = Sum(y) + Sum(x)
  BY <1>5, <1>8, SumOfConcat
<1>15. QED
  BY <1>1, <1>4, <1>5, <1>7, <1>9, <1>13, <1>14 DEF V, v, p, m, z

LEMMA RwtThen == OrderInv => RwtConserved
<1> SUFFICES ASSUME OrderInv, NEW g \in Guards, tx[g].built,
                    ~RedeemedBetween(tx[g].readAt, tx[g].builtAt)
             PROVE  Total(tx[g].order, "rwt") = event.rwt + SumOf(tx[g].boxes, "rwtCount")
  BY DEF RwtConserved
<1>1. PICK b \in Nat : b = tx[g].builtAt /\ event.height <= b
  BY BuiltIs DEF Built
<1>2. /\ tx[g].order = DistributingOrder(b) /\ event.height # NotTriggered
      /\ tx[g].boxes = getEventValidCommitments(b)
  BY <1>1, BuiltIs, SameFound DEF Built
<1> DEFINE p == outPermits(b)
           n == Len(p)
           V == getEventValidCommitments(b)
           v == Cardinality(V)
           m == WIDsCount
           c == eventRwtCount
<1>3. /\ OrderTypes /\ c \in Int /\ m \in Nat \ {0} /\ event.rwt = m * c
      /\ "rwt" \in Tokens
  BY <1>2, EventBoxHolds DEF OrderInv, Tokens
<1>4. v \in Nat /\ n = m + v /\ SumOf(V, "rwtCount") = v * c
  BY <1>1, <1>2, LateOnesHold
<1>5. Total(DistributingOrder(b), "rwt") =
        (Total(watchersOrder(p), "rwt") + Total(UserOrder, "rwt"))
        + Total(guardsOrder(n), "rwt")
  BY <1>1, <1>2, <1>3, OrderTotal
<1>t. event.data.tokenOnErgo # "rwt"
  BY <1>3, FeesAreNumbers
<1>6. Total(watchersOrder(p), "rwt") = n * c
  <2>1. p \in Seq(Permit)
    BY <1>1, <1>2, WatchersFound DEF Found
  <2>2. Len(p) # 0
    BY <1>3, <1>4
  <2> HIDE DEF p
  <2>3. Total(watchersOrder(p), "rwt") = 0 + Len(p) * WatcherPart("rwt", Len(p))
    BY <1>3, <2>1, <2>2, WatchersTotal
  <2>4. WatcherPart("rwt", Len(p)) = c
    BY <1>3, <1>t DEF WatcherPart
  <2>5. QED
    BY <1>3, <1>4, <2>3, <2>4
<1>7. Total(UserOrder, "rwt") = 0
  BY <1>3, UserOrderIs, UserPaymentIs
<1>8. Total(guardsOrder(n), "rwt") = 0
  <2>1. n \in Nat \ {0}
    BY <1>3, <1>4
  <2> HIDE DEF n
  <2>2. Total(guardsOrder(n), "rwt") = 0 + GuardPart("rwt", n)
    BY <1>3, <2>1, GuardsOrderIs
  <2>3. GuardPart("rwt", n) = 0
    BY <1>t DEF GuardPart
  <2>4. QED
    BY <2>2, <2>3
<1>9. Total(tx[g].order, "rwt") = n * c
  <2> HIDE DEF n, p, c
  <2>1. n * c \in Int
    BY <1>3, <1>4
  <2>2. QED
    BY <1>2, <1>5, <1>6, <1>7, <1>8, <2>1
<1>10. n * c = m * c + v * c
  <2> HIDE DEF n, m, v, c
  <2>1. QED
    BY <1>3, <1>4
<1>11. QED
  BY <1>2, <1>3, <1>4, <1>9, <1>10

\* The watchers get back the RWTs that the spent boxes hold, not one more or
\* less, whatever commitments there are, unless one of them is redeemed while
\* the guard creates the tx.
THEOREM RwtConservedAlways == EventOrderSpec => []RwtConserved
BY OrderInvariant, RwtThen, PTL
\* The boxes of an order that are neither a watcher's nor the user's.
LEMMA GuardBoxes ==
  ASSUME OrderInv, NEW b \in Nat, event.height <= b, event.height # NotTriggered
  PROVE  LET o == DistributingOrder(b)
         IN  Cardinality({i \in DOMAIN o : o[i].address \notin {"permit", "user"}})
               = Len(guardsOrder(Len(outPermits(b))))
<1> DEFINE o == DistributingOrder(b)
           p == outPermits(b)
           n == Len(p)
           m == n + Len(UserOrder)
           k == Len(guardsOrder(n))
           boxes == {i \in DOMAIN o : o[i].address \notin {"permit", "user"}}
<1>1. /\ n \in Nat /\ m \in Nat /\ n <= m /\ k \in Nat /\ DOMAIN o = 1 .. m + k
      /\ \A i \in 1 .. n : o[i].address = "permit" /\ o[i].extra = p[i].wid
      /\ \A i \in n + 1 .. m : o[i].address = "user"
      /\ \A i \in m + 1 .. m + k : o[i].address \notin {"permit", "user"}
  BY OrderPlaces
<1> HIDE DEF o, p, n, m, k
<1>2. boxes = m + 1 .. m + k
  <2>1. ASSUME NEW i \in boxes PROVE i \in m + 1 .. m + k
    <3>1. i \in 1 .. m + k /\ i \notin 1 .. n /\ i \notin n + 1 .. m
      BY <1>1
    <3>2. QED
      BY <1>1, <3>1
  <2>2. ASSUME NEW i \in m + 1 .. m + k PROVE i \in boxes
    BY <1>1
  <2>3. QED
    BY <2>1, <2>2
<1> HIDE DEF boxes
<1>3. Cardinality(m + 1 .. m + k) = k
  <2>1. m + 1 \in Int /\ m + k \in Int
    BY <1>1
  <2>2. Cardinality(m + 1 .. m + k)
          = IF m + 1 > m + k THEN 0 ELSE (m + k) - (m + 1) + 1
    BY <2>1, FS_Interval
  <2>3. QED
    BY <1>1, <2>2
<1>4. QED
  BY <1>2, <1>3 DEF o, p, n, k, boxes

LEMMA FeesThen == OrderInv => FeesConserved
<1> SUFFICES ASSUME OrderInv, NEW g \in Guards, tx[g].built,
                    ~RedeemedBetween(tx[g].readAt, tx[g].builtAt),
                    NEW t \in {"erg", "tok", "rsn"}
             PROVE
      LET order == tx[g].order
          boxes == {i \in DOMAIN order : order[i].address \notin {"permit", "user"}}
          inputs == event.value + Cardinality(boxes) * minimumErg +
                    SumOf(tx[g].boxes, "boxValue")
          due ==
            (IF t = event.data.tokenOnErgo THEN bridgeFee + networkFee ELSE 0)
            + (IF t = "rsn" THEN emissionFee ELSE 0)
            + (IF t = "erg" THEN inputs ELSE 0)
            + (IF event.data.toErgo THEN eventSinglePayment.assets[t] ELSE 0)
      IN  due - Total(order, t) \in IF t = "erg" THEN 0 .. WIDsCount - 1 ELSE {0}
  BY DEF FeesConserved
<1>1. PICK b \in Nat : b = tx[g].builtAt /\ event.height <= b
  BY BuiltIs DEF Built
<1>2. /\ tx[g].order = DistributingOrder(b) /\ event.height # NotTriggered
      /\ tx[g].boxes = getEventValidCommitments(b)
  BY <1>1, BuiltIs, SameFound DEF Built
<1> DEFINE p == outPermits(b)
           n == Len(p)
           m == WIDsCount
           o == DistributingOrder(b)
           boxes == {i \in DOMAIN o : o[i].address \notin {"permit", "user"}}
           B == SumOf(getEventValidCommitments(b), "boxValue")
           k == Len(guardsOrder(n))
           r == Rest(bridgeFee, watchersSharePercent, n)
           s == Share(bridgeFee, watchersSharePercent, n)
           er == Rest(emissionFee, watchersEmissionSharePercent, n)
           es == Share(emissionFee, watchersEmissionSharePercent, n)
           id == event.data.tokenOnErgo
           U == IF event.data.toErgo THEN eventSinglePayment.assets[t] ELSE 0
           Z == Sum([i \in 1 .. n |-> p[i].boxValue])
<1>3. /\ OrderTypes /\ eventRwtCount \in Int /\ permitValue \in Int
      /\ m \in Nat \ {0} /\ event.value - m * permitValue \in 0 .. m - 1
      /\ t \in Tokens /\ t # "rwt" /\ event.value \in Int
  BY <1>2, EventBoxHolds, FeesAreNumbers DEF OrderInv, Tokens
<1>4. /\ bridgeFee \in Nat /\ networkFee \in Nat /\ emissionFee \in Nat
      /\ watchersSharePercent \in Nat /\ watchersEmissionSharePercent \in Nat
      /\ minimumErg \in Nat
  BY <1>3, FeesAreNumbers, EventOrderAssumption
<1>5. n \in Nat \ {0} /\ B \in Int /\ Z = m * permitValue + B /\ p \in Seq(Permit)
  <2>1. p \in Seq(Permit)
    BY <1>1, <1>2, WatchersFound DEF Found
  <2>2. /\ Cardinality(getEventValidCommitments(b)) \in Nat
        /\ n = m + Cardinality(getEventValidCommitments(b))
        /\ B \in Int /\ Z = m * permitValue + B
    BY <1>1, <1>2, LateOnesHold
  <2>3. QED
    BY <1>3, <2>1, <2>2
<1>6. /\ Total(o, t) = (Total(watchersOrder(p), t) + Total(UserOrder, t))
                        + Total(guardsOrder(n), t)
      /\ Cardinality(boxes) = k
  BY <1>1, <1>2, <1>3, OrderTotal, GuardBoxes
<1>7. /\ r \in Int /\ s \in Int /\ n * s + r = bridgeFee
      /\ er \in Int /\ es \in Int /\ n * es + er = emissionFee
  <2> HIDE DEF n
  <2>1. r \in Int /\ s \in Int /\ n * s + r = bridgeFee
    BY <1>4, <1>5, ShareIs
  <2>2. er \in Int /\ es \in Int /\ n * es + er = emissionFee
    BY <1>4, <1>5, ShareIs
  <2>3. QED
    BY <2>1, <2>2
<1>8. Total(UserOrder, t) = U /\ U \in Int
  BY <1>3, UserOrderIs
<1>9. k \in Nat /\ Total(guardsOrder(n), t) =
        (IF t = "erg" THEN k * minimumErg ELSE 0)
        + ((IF t = id THEN r + networkFee ELSE 0) + (IF t = "rsn" THEN er ELSE 0))
  <2>1. GuardPart(t, n) =
          (IF t = id THEN r + networkFee ELSE 0) + (IF t = "rsn" THEN er ELSE 0)
    BY DEF GuardPart
  <2> HIDE DEF n
  <2>2. /\ k \in Nat
        /\ Total(guardsOrder(n), t) =
             (IF t = "erg" THEN k * minimumErg ELSE 0) + GuardPart(t, n)
    BY <1>3, <1>5, GuardsOrderIs
  <2>3. QED
    BY <2>1, <2>2
<1>10. Total(watchersOrder(p), t) =
         (IF t = "erg" THEN Z ELSE 0)
         + n * ((IF t = "rsn" THEN es ELSE 0) + (IF t = id THEN s ELSE 0))
  <2>1. WatcherPart(t, n) =
          0 + ((IF t = "rsn" THEN es ELSE 0) + (IF t = id THEN s ELSE 0))
    BY <1>3 DEF WatcherPart
  <2>2. WatcherPart(t, n) = (IF t = "rsn" THEN es ELSE 0) + (IF t = id THEN s ELSE 0)
    <3> HIDE DEF es, s, id, n
    <3>1. QED
      BY <1>7, <2>1
  <2> HIDE DEF p
  <2>3. Len(p) # 0
    BY <1>5
  <2>4. Total(watchersOrder(p), t) =
          (IF t = "erg" THEN Z ELSE 0) + n * WatcherPart(t, n)
    BY <1>3, <1>5, <2>3, WatchersTotal
  <2>5. QED
    BY <2>2, <2>4
<1> DEFINE ns == n * s
           nes == n * es
           km == k * minimumErg
           mp == m * permitValue
<1>11. n * ((IF t = "rsn" THEN es ELSE 0) + (IF t = id THEN s ELSE 0))
         = (IF t = "rsn" THEN nes ELSE 0) + (IF t = id THEN ns ELSE 0)
  <2> HIDE DEF n, s, es, id
  <2>1. n * (es + s) = nes + ns /\ n * (es + 0) = nes + 0 /\ n * (0 + s) = 0 + ns
        /\ n * (0 + 0) = 0 + 0
    BY <1>5, <1>7
  <2>2. QED
    BY <2>1
<1>12. /\ ns \in Int /\ nes \in Int /\ km \in Int /\ mp \in Int
       /\ ns + r = bridgeFee /\ nes + er = emissionFee
       /\ event.value - mp \in 0 .. m - 1 /\ Z = mp + B
  <2> HIDE DEF n, s, es, k, r, er, m, Z, B
  <2>1. QED
    BY <1>3, <1>4, <1>5, <1>7, <1>9
<1>13. Total(o, t) =
         (((IF t = "erg" THEN Z ELSE 0)
           + ((IF t = "rsn" THEN nes ELSE 0) + (IF t = id THEN ns ELSE 0))) + U)
         + ((IF t = "erg" THEN km ELSE 0)
            + ((IF t = id THEN r + networkFee ELSE 0) + (IF t = "rsn" THEN er ELSE 0)))
  BY <1>6, <1>8, <1>9, <1>10, <1>11
<1> DEFINE due == (IF t = id THEN bridgeFee + networkFee ELSE 0)
                  + (IF t = "rsn" THEN emissionFee ELSE 0)
                  + (IF t = "erg" THEN event.value + km + B ELSE 0)
                  + U
<1>14. due - Total(o, t) \in IF t = "erg" THEN 0 .. m - 1 ELSE {0}
  <2> HIDE DEF n, s, es, k, r, er, m, Z, B, U, o, id, ns, nes, km, mp
  <2>1. CASE t = "erg"
    <3>0. Total(o, t) = (((mp + B) + (0 + (IF t = id THEN ns ELSE 0))) + U)
                        + (km + ((IF t = id THEN r + networkFee ELSE 0) + 0))
      BY <1>12, <1>13, <2>1
    <3>e. due = (IF t = id THEN bridgeFee + networkFee ELSE 0)
                + 0 + (event.value + km + B) + U
      BY <2>1
    <3>n. /\ bridgeFee \in Int /\ networkFee \in Int /\ event.value \in Int
          /\ B \in Int /\ U \in Int /\ r \in Int /\ ns + r = bridgeFee
          /\ ns \in Int /\ km \in Int /\ mp \in Int
      BY <1>3, <1>4, <1>5, <1>7, <1>8, <1>12
    <3> HIDE DEF due
    <3>1. due - Total(o, t) = event.value - mp
      <4> DEFINE T == Total(o, t)
                 w == event.value
      <4>1. CASE t = id
        <5>1. T = (((mp + B) + (0 + ns)) + U) + (km + ((r + networkFee) + 0))
          BY <3>0, <4>1
        <5>2. due = bridgeFee + networkFee + 0 + (w + km + B) + U
          BY <3>e, <4>1
        <5> HIDE DEF T, w
        <5>3. due - T = w - mp
          BY <3>n, <5>1, <5>2 DEF w
        <5>4. QED
          BY <5>3 DEF T, w
      <4>2. CASE t # id
        <5>1. T = (((mp + B) + (0 + 0)) + U) + (km + (0 + 0))
          BY <3>0, <4>2
        <5>2. due = 0 + 0 + (w + km + B) + U
          BY <3>e, <4>2
        <5> HIDE DEF T, w
        <5>3. due - T = w - mp
          BY <3>n, <5>1, <5>2 DEF w
        <5>4. QED
          BY <5>3 DEF T, w
      <4>3. QED
        BY <4>1, <4>2
    <3>2. QED
      BY <1>12, <2>1, <3>1
  <2>2. CASE t # "erg"
    <3>1. due - Total(o, t) = 0
      BY <1>3, <1>4, <1>5, <1>7, <1>8, <1>12, <1>13, <2>2
    <3>2. QED
      BY <2>2, <3>1
  <2>3. QED
    BY <2>1, <2>2
<1>15. QED
  <2> DEFINE inputs == event.value + Cardinality(boxes) * minimumErg
                       + SumOf(tx[g].boxes, "boxValue")
  <2>1. inputs = event.value + km + B
    BY <1>2, <1>6
  <2>2. QED
    BY <1>2, <1>14, <2>1

\* The watchers and the guards together get the fees, the emission and what
\* the spent boxes hold, beside what the user gets: the divisions among the
\* watchers lose nothing of a token, and of the ERGs in the event box less
\* than one per watcher.  For any fees and percentages, and any numbers of
\* watchers.
THEOREM FeesConservedAlways == EventOrderSpec => []FeesConserved
BY OrderInvariant, FeesThen, PTL
=============================================================================
