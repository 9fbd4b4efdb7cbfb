---------------------------- MODULE SequenceLemmas ----------------------------
(***************************************************************************)
(* What holds of least and greatest numbers, of induction over a set of    *)
(* numbers, of sequences of whatever elements and those picked out of      *)
(* them, of the sums of numbers, and of walks from one place to a farther. *)
(***************************************************************************)
EXTENDS Subsequences, SequencesExt, SequenceTheorems, FiniteSetTheorems, WellFoundedInduction, TLAPS

(* Every set of numbers that is not empty has a least one.                 *)
LEMMA Least ==
  ASSUME NEW T, T \subseteq Nat, T # {}
  PROVE  \E n \in T : \A m \in T : n <= m
<1> DEFINE R == OpToRel(<, Nat)
<1>1. IsWellFoundedOn(R, Nat)
  BY NatLessThanWellFounded
<1>2. PICK n \in T : \A m \in T : ~(<<m, n>> \in R)
  <2> HIDE DEF R
  <2>1. \E n \in T : \A m \in T : ~(<<m, n>> \in R)
    BY <1>1, WFMin
  <2> QED BY <2>1
<1>3. n \in Nat /\ \A m \in T : m \in Nat
  OBVIOUS
<1>4. \A m \in T : ~(m < n)
  BY <1>2, <1>3 DEF OpToRel
<1>5. \A m \in T : n <= m
  BY <1>3, <1>4
<1> QED BY <1>5

LEMMA OfTwo ==
  ASSUME NEW a \in Int, NEW b \in Int
  PROVE  /\ Max({a, b}) = IF a >= b THEN a ELSE b
         /\ Min({a, b}) = IF a <= b THEN a ELSE b
  BY DEF Max, Min

(* Induction: a set that 0 is in, and n + 1 with n, holds every number.    *)
LEMMA SetInduction ==
  ASSUME NEW T, 0 \in T, \A n \in Nat : n \in T => n + 1 \in T
  PROVE  \A n \in Nat : n \in T
<1> SUFFICES ASSUME NEW n \in Nat, n \notin T PROVE FALSE
  OBVIOUS
<1> DEFINE B == {m \in Nat : m \notin T}
<1>1. B \subseteq Nat /\ B # {}
  OBVIOUS
<1>2. PICK k \in B : \A m \in B : k <= m
  BY <1>1, Least
<1>3. k # 0 /\ k \in Nat
  BY <1>2
<1>4. k - 1 \in Nat /\ k - 1 \in T
  BY <1>2, <1>3
<1> QED BY <1>2, <1>4
-------------------------------------------------------------------------------
Sequence(s) == s \in Seq(Range(s))

UpTo(places, n) == {j \in places : j <= n}

LEMMA PlacesFinite ==
  ASSUME NEW N \in Nat, NEW places, places \subseteq 1..N
  PROVE  /\ IsFiniteSet(places)
         /\ Cardinality(places) \in Nat
         /\ Cardinality(places) <= N
         /\ \A j \in places : j \in Nat /\ j >= 1 /\ j <= N
<1>1. IsFiniteSet(1..N) /\ Cardinality(1..N) = N
  BY FS_Interval
<1>2. IsFiniteSet(places) /\ Cardinality(places) <= N
  BY <1>1, FS_Subset
<1>3. Cardinality(places) \in Nat
  BY <1>2, FS_CardinalityType
<1>4. \A j \in places : j \in Nat /\ j >= 1 /\ j <= N
  OBVIOUS
<1> QED BY <1>2, <1>3, <1>4

LEMMA UpToFinite ==
  ASSUME NEW N \in Nat, NEW places, places \subseteq 1..N, NEW n \in Nat
  PROVE  /\ IsFiniteSet(UpTo(places, n))
         /\ Cardinality(UpTo(places, n)) \in Nat
<1>1. IsFiniteSet(places)
  BY PlacesFinite
<1>2. UpTo(places, n) \subseteq places
  BY DEF UpTo
<1>3. IsFiniteSet(UpTo(places, n))
  BY <1>1, <1>2, FS_Subset
<1> QED BY <1>3, FS_CardinalityType

(* Every rank up to the number of places is the rank of a place.           *)
LEMMA PlaceOfRank ==
  ASSUME NEW N \in Nat, NEW places, places \subseteq 1..N, NEW k \in 1..Cardinality(places)
  PROVE  /\ Nth(places, k) \in places
         /\ Cardinality(UpTo(places, Nth(places, k))) = k
<1> DEFINE Reaching == {n \in Nat : Cardinality(UpTo(places, n)) >= k}
<1>0. IsFiniteSet(places) /\ Cardinality(places) \in Nat
  BY PlacesFinite
<1>1. IsFiniteSet(places) /\ Cardinality(places) \in Nat /\ k \in Nat /\ k >= 1
  BY <1>0
<1>2. UpTo(places, N) = places
  <2>1. \A j \in places : j <= N
    BY PlacesFinite
  <2> QED BY <2>1 DEF UpTo
<1>3. N \in Reaching
  BY <1>1, <1>2
<1>4. PICK n \in Reaching : \A m \in Reaching : n <= m
  <2> HIDE DEF Reaching
  <2> Reaching \subseteq Nat
    BY DEF Reaching
  <2> QED BY <1>3, Least
<1>5. UpTo(places, 0) = {}
  <2>1. \A j \in places : ~(j <= 0)
    BY PlacesFinite
  <2> QED BY <2>1 DEF UpTo
<1>6. n \in Nat /\ n # 0
  BY <1>5, <1>1, FS_EmptySet
<1>7. n - 1 \in Nat /\ n - 1 \notin Reaching
  BY <1>4, <1>6
<1>8. /\ IsFiniteSet(UpTo(places, n - 1))
      /\ Cardinality(UpTo(places, n - 1)) \in Nat
  BY <1>7, UpToFinite
<1>9. UpTo(places, n) = IF n \in places THEN UpTo(places, n - 1) \cup {n} ELSE UpTo(places, n - 1)
  <2>1. \A j \in places : j \in Nat /\ (j <= n <=> j <= n - 1 \/ j = n)
    BY <1>6
  <2> QED BY <2>1 DEF UpTo
<1>10. Cardinality(UpTo(places, n - 1)) < k /\ Cardinality(UpTo(places, n)) >= k
  BY <1>4, <1>7, <1>8, <1>1
<1>11. n \in places
  BY <1>9, <1>10, <1>8, <1>1
<1>12. Cardinality(UpTo(places, n)) = Cardinality(UpTo(places, n - 1)) + 1
  <2>1. n \notin UpTo(places, n - 1)
    BY <1>6 DEF UpTo
  <2> QED BY <1>8, <1>9, <1>11, <2>1, FS_AddElement
<1>13. n \in places /\ Cardinality(UpTo(places, n)) = k
  BY <1>8, <1>10, <1>11, <1>12, <1>1
<1> QED BY <1>13 DEF Nth, UpTo

(* A place behind another has the greater rank.                            *)
LEMMA RanksIncrease ==
  ASSUME NEW N \in Nat, NEW places, places \subseteq 1..N,
         NEW i \in places, NEW j \in places, i < j
  PROVE  Cardinality(UpTo(places, i)) < Cardinality(UpTo(places, j))
<1>1. i \in Nat /\ j \in Nat
  OBVIOUS
<1>2. /\ IsFiniteSet(UpTo(places, j))
      /\ Cardinality(UpTo(places, j)) \in Nat
      /\ IsFiniteSet(UpTo(places, i))
      /\ Cardinality(UpTo(places, i)) \in Nat
  BY <1>1, UpToFinite
<1>3. j \in UpTo(places, j) /\ j \notin UpTo(places, i)
  BY <1>1 DEF UpTo
<1>4. UpTo(places, i) \subseteq UpTo(places, j)
  <2>1. \A k \in places : k <= i => k <= j
    <3> SUFFICES ASSUME NEW k \in places, k <= i PROVE k <= j
      OBVIOUS
    <3>1. k \in Nat
      OBVIOUS
    <3> QED BY <1>1, <3>1
  <2> QED BY <2>1 DEF UpTo
<1>5. Cardinality(UpTo(places, i)) <= Cardinality(UpTo(places, j))
  BY <1>2, <1>4, FS_Subset
<1>6. Cardinality(UpTo(places, i)) # Cardinality(UpTo(places, j))
  BY <1>2, <1>3, <1>4, FS_Subset
<1> QED BY <1>2, <1>5, <1>6

(* The places of the ranks are in order, each its own, and they are all    *)
(* the places there are.                                                   *)
LEMMA NthIncreases ==
  ASSUME NEW N \in Nat, NEW places, places \subseteq 1..N,
         NEW k \in 1..Cardinality(places), NEW l \in 1..Cardinality(places), k < l
  PROVE  Nth(places, k) < Nth(places, l)
<1>1. /\ Nth(places, k) \in places /\ Cardinality(UpTo(places, Nth(places, k))) = k
      /\ Nth(places, l) \in places /\ Cardinality(UpTo(places, Nth(places, l))) = l
  BY PlaceOfRank
<1>2. Nth(places, k) \in Nat /\ Nth(places, l) \in Nat
  BY <1>1, PlacesFinite
<1>3. IsFiniteSet(places) /\ Cardinality(places) \in Nat
  BY PlacesFinite
<1>4. k \in Nat /\ l \in Nat
  BY <1>3
<1>5. CASE Nth(places, l) < Nth(places, k)
  <2>1. l < k
    BY <1>1, <1>5, RanksIncrease
  <2> QED BY <2>1, <1>4
<1>6. CASE Nth(places, l) = Nth(places, k)
  BY <1>1, <1>6, <1>4
<1> QED BY <1>2, <1>5, <1>6

LEMMA NthReaches ==
  ASSUME NEW N \in Nat, NEW places, places \subseteq 1..N, NEW i \in places
  PROVE  \E k \in 1..Cardinality(places) : Nth(places, k) = i
<1> DEFINE k == Cardinality(UpTo(places, i))
<1>1. i \in Nat /\ i \in UpTo(places, i) /\ UpTo(places, i) \subseteq places
  BY DEF UpTo
<1>2. IsFiniteSet(places) /\ Cardinality(places) \in Nat
  BY PlacesFinite
<1>3. k \in Nat /\ k # 0 /\ k <= Cardinality(places)
  BY <1>1, <1>2, FS_Subset, FS_CardinalityType, FS_EmptySet
<1>4. k \in 1..Cardinality(places)
  BY <1>2, <1>3
<1>5. Nth(places, k) \in places /\ Cardinality(UpTo(places, Nth(places, k))) = k
  BY <1>4, PlaceOfRank
<1>6. \A j \in places : j # i => Cardinality(UpTo(places, j)) # k
  <2> SUFFICES ASSUME NEW j \in places, j # i PROVE Cardinality(UpTo(places, j)) # k
    OBVIOUS
  <2>0. j \in Nat
    OBVIOUS
  <2>1. j \in Nat /\ Cardinality(UpTo(places, j)) \in Nat
    BY <2>0, UpToFinite
  <2>2. CASE i < j
    <3>1. k < Cardinality(UpTo(places, j))
      BY <2>2, RanksIncrease
    <3> QED BY <3>1, <2>1, <1>3
  <2>3. CASE j < i
    <3>1. Cardinality(UpTo(places, j)) < k
      BY <2>3, RanksIncrease
    <3> QED BY <3>1, <2>1, <1>3
  <2> QED BY <1>1, <2>1, <2>2, <2>3
<1> QED BY <1>4, <1>5, <1>6
-------------------------------------------------------------------------------
(* What is picked of a sequence is a sequence of its elements.             *)
LEMMA PickedType ==
  ASSUME NEW S, NEW seq \in Seq(S), NEW places, places \subseteq DOMAIN seq
  PROVE  /\ Picked(seq, places) \in Seq(S)
         /\ Len(Picked(seq, places)) = Cardinality(places)
         /\ Cardinality(places) \in Nat
         /\ Cardinality(places) <= Len(seq)
         /\ \A k \in 1..Cardinality(places) : /\ Nth(places, k) \in places
                                              /\ Picked(seq, places)[k] = seq[Nth(places, k)]
<1>1. Len(seq) \in Nat /\ DOMAIN seq = 1..Len(seq)
  OBVIOUS
<1>3. Cardinality(places) \in Nat /\ Cardinality(places) <= Len(seq)
  BY <1>1, PlacesFinite
<1>4. \A k \in 1..Cardinality(places) : Nth(places, k) \in places
  BY <1>1, PlaceOfRank
<1>5. \A k \in 1..Cardinality(places) : seq[Nth(places, k)] \in S
  BY <1>1, <1>4
<1>6. Picked(seq, places) \in [1..Cardinality(places) -> S]
  BY <1>5 DEF Picked
<1>7. Picked(seq, places) \in Seq(S) /\ Len(Picked(seq, places)) = Cardinality(places)
  BY <1>3, <1>6
<1> QED BY <1>3, <1>4, <1>7 DEF Picked
(* The concatenations of the first sequences, each the one before it with  *)
(* the next sequence behind, lead to that of them all.                     *)
Joins(seqs, f, n) ==
  \A i \in 1..n : f[i] = IF i = 1 THEN seqs[i] ELSE f[i - 1] \o seqs[i]

LEMMA JoinsSteps ==
  ASSUME NEW seqs, NEW f, NEW N \in Nat, Joins(seqs, f, N), NEW n \in Nat, n + 1 \in 1..N
  PROVE  /\ n = 0 => f[n + 1] = seqs[n + 1]
         /\ n # 0 => n \in 1..N /\ f[n + 1] = f[n] \o seqs[n + 1]
<1>1. f[n + 1] = IF n + 1 = 1 THEN seqs[n + 1] ELSE f[n + 1 - 1] \o seqs[n + 1]
  BY DEF Joins
<1>2. n + 1 - 1 = n /\ (n + 1 = 1 <=> n = 0) /\ (n # 0 => n \in 1..N)
  OBVIOUS
<1> QED BY <1>1, <1>2

LEMMA JoinsExist ==
  ASSUME NEW S, NEW seqs \in Seq(Seq(S))
  PROVE  \E f \in [1..Len(seqs) -> Seq(S)] : Joins(seqs, f, Len(seqs))
<1> DEFINE T == {n \in Nat : n <= Len(seqs) => \E f \in [1..n -> Seq(S)] : Joins(seqs, f, n)}
<1>1. Len(seqs) \in Nat /\ \A i \in 1..Len(seqs) : seqs[i] \in Seq(S)
  OBVIOUS
<1>2. 0 \in T
  <2>1. [i \in 1..0 |-> <<>>] \in [1..0 -> Seq(S)]
    OBVIOUS
  <2>2. Joins(seqs, [i \in 1..0 |-> <<>>], 0)
    BY DEF Joins
  <2> QED BY <2>1, <2>2
<1>3. ASSUME NEW n \in Nat, n \in T PROVE n + 1 \in T
  <2> SUFFICES ASSUME n + 1 <= Len(seqs)
               PROVE  \E f \in [1..n + 1 -> Seq(S)] : Joins(seqs, f, n + 1)
    OBVIOUS
  <2>1. PICK g \in [1..n -> Seq(S)] : Joins(seqs, g, n)
    BY <1>1, <1>3
  <2>2. n + 1 \in 1..Len(seqs) /\ seqs[n + 1] \in Seq(S)
    BY <1>1
  <2> DEFINE last == IF n = 0 THEN seqs[n + 1] ELSE g[n] \o seqs[n + 1]
             f == [i \in 1..n + 1 |-> IF i = n + 1 THEN last ELSE g[i]]
  <2>3. last \in Seq(S)
    <3>1. CASE n = 0
      BY <2>2, <3>1
    <3>2. CASE n # 0
      <4>1. g[n] \in Seq(S)
        BY <3>2, <2>1
      <4> QED BY <4>1, <3>2, <2>2
    <3> QED BY <3>1, <3>2
  <2> HIDE DEF last
  <2>4. f \in [1..n + 1 -> Seq(S)]
    BY <2>3
  <2>5. ASSUME NEW i \in 1..n + 1
        PROVE  f[i] = IF i = 1 THEN seqs[i] ELSE f[i - 1] \o seqs[i]
    <3>1. CASE i = n + 1
      <4>1. f[i] = last
        BY <3>1
      <4>2. i # 1 => n \in 1..n + 1 /\ n # n + 1 /\ f[n] = g[n] /\ i - 1 = n /\ n # 0
        BY <3>1
      <4>3. i = 1 => n = 0
        BY <3>1
      <4> QED BY <3>1, <4>1, <4>2, <4>3 DEF last
    <3>2. CASE i # n + 1
      <4>1. i \in 1..n /\ f[i] = g[i] /\ (i # 1 => i - 1 \in 1..n + 1 /\ i - 1 # n + 1 /\ f[i - 1] = g[i - 1])
        BY <3>2
      <4>2. g[i] = IF i = 1 THEN seqs[i] ELSE g[i - 1] \o seqs[i]
        BY <2>1, <4>1 DEF Joins
      <4> QED BY <4>1, <4>2
    <3> QED BY <3>1, <3>2
  <2> HIDE DEF f
  <2> QED BY <2>4, <2>5 DEF Joins
<1>4. \A n \in Nat : n \in T
  <2> HIDE DEF T
  <2> QED BY <1>2, <1>3, SetInduction
<1> QED BY <1>1, <1>4

LEMMA JoinsUnique ==
  ASSUME NEW seqs, NEW N \in Nat, NEW f, NEW g, Joins(seqs, f, N), Joins(seqs, g, N)
  PROVE  \A i \in 1..N : f[i] = g[i]
<1> DEFINE T == {n \in Nat : n \in 1..N => f[n] = g[n]}
<1>1. 0 \in T
  OBVIOUS
<1>2. ASSUME NEW n \in Nat, n \in T PROVE n + 1 \in T
  <2> SUFFICES ASSUME n + 1 \in 1..N PROVE f[n + 1] = g[n + 1]
    OBVIOUS
  <2>1. /\ f[n + 1] = IF n + 1 = 1 THEN seqs[n + 1] ELSE f[n + 1 - 1] \o seqs[n + 1]
        /\ g[n + 1] = IF n + 1 = 1 THEN seqs[n + 1] ELSE g[n + 1 - 1] \o seqs[n + 1]
    BY DEF Joins
  <2>2. n + 1 # 1 => n \in 1..N /\ n + 1 - 1 = n
    OBVIOUS
  <2>3. n + 1 # 1 => f[n] = g[n]
    BY <1>2, <2>2
  <2> QED BY <2>1, <2>2, <2>3
<1>3. \A n \in Nat : n \in T
  <2> HIDE DEF T
  <2> QED BY <1>1, <1>2, SetInduction
<1> QED BY <1>3

LEMMA FlattenSteps ==
  ASSUME NEW S, NEW seqs \in Seq(Seq(S)), seqs # <<>>
  PROVE  \E f \in [1..Len(seqs) -> Seq(S)] :
           Joins(seqs, f, Len(seqs)) /\ FlattenSeq(seqs) = f[Len(seqs)]
<1> DEFINE Step(f) == [i \in 1..Len(seqs) |-> IF i = 1 THEN seqs[i] ELSE f[i - 1] \o seqs[i]]
           flatten == CHOOSE f : f = Step(f)
<1>1. Len(seqs) \in Nat /\ Len(seqs) # 0
  BY EmptySeq
<1>2. PICK g \in [1..Len(seqs) -> Seq(S)] : Joins(seqs, g, Len(seqs))
  BY JoinsExist
<1>3. g = Step(g)
  BY <1>2 DEF Joins
<1>4. flatten = Step(flatten)
  BY <1>3
<1>5. FlattenSeq(seqs) = flatten[Len(seqs)]
  BY <1>1 DEF FlattenSeq
<1>6. Joins(seqs, flatten, Len(seqs))
  <2> HIDE DEF flatten
  <2> QED BY <1>4 DEF Joins
<1>7. \A i \in 1..Len(seqs) : flatten[i] = g[i]
  BY <1>1, <1>2, <1>6, JoinsUnique
<1>8. FlattenSeq(seqs) = g[Len(seqs)]
  <2>1. Len(seqs) \in 1..Len(seqs)
    BY <1>1
  <2> QED BY <2>1, <1>5, <1>7
<1> QED BY <1>2, <1>8
-------------------------------------------------------------------------------
(* Every element of two sequences together is one of the first or of the   *)
(* second.                                                                 *)
LEMMA ConcatElements ==
  ASSUME NEW S, NEW s \in Seq(S), NEW t \in Seq(S)
  PROVE  \A k \in DOMAIN (s \o t) : \/ \E i \in DOMAIN s : (s \o t)[k] = s[i]
                                    \/ \E j \in DOMAIN t : (s \o t)[k] = t[j]
<1> SUFFICES ASSUME NEW k \in DOMAIN (s \o t)
             PROVE  \/ \E i \in DOMAIN s : (s \o t)[k] = s[i]
                    \/ \E j \in DOMAIN t : (s \o t)[k] = t[j]
  OBVIOUS
<1>1. /\ Len(s) \in Nat /\ Len(t) \in Nat
      /\ DOMAIN s = 1..Len(s) /\ DOMAIN t = 1..Len(t)
      /\ k \in 1..Len(s) + Len(t)
      /\ (s \o t)[k] = IF k <= Len(s) THEN s[k] ELSE t[k - Len(s)]
  OBVIOUS
<1>2. CASE k <= Len(s)
  <2>1. k \in DOMAIN s /\ (s \o t)[k] = s[k]
    BY <1>1, <1>2
  <2> QED BY <2>1
<1>3. CASE ~(k <= Len(s))
  <2>1. k - Len(s) \in DOMAIN t /\ (s \o t)[k] = t[k - Len(s)]
    BY <1>1, <1>3
  <2> QED BY <2>1
<1> QED BY <1>2, <1>3
-------------------------------------------------------------------------------
(* A set of numbers that goes no further than some number has a greatest.  *)
LEMMA Greatest ==
  ASSUME NEW N \in Nat, NEW T, T \subseteq 1..N, T # {}
  PROVE  \E n \in T : \A m \in T : m <= n
<1> DEFINE Bounds == {n \in Nat : \A m \in T : m <= n}
<1>1. \A m \in T : m \in Nat /\ m >= 1 /\ m <= N
  BY PlacesFinite
<1>2. N \in Bounds
  BY <1>1
<1>3. PICK n \in Bounds : \A m \in Bounds : n <= m
  <2> HIDE DEF Bounds
  <2> Bounds \subseteq Nat
    BY DEF Bounds
  <2> QED BY <1>2, Least
<1>4. n \in Nat /\ \A m \in T : m <= n
  BY <1>3
<1>5. n \in T
  <2> SUFFICES ASSUME n \notin T PROVE FALSE
    OBVIOUS
  <2>1. PICK m \in T : TRUE
    OBVIOUS
  <2>2. n # 0
    BY <2>1, <1>1, <1>4
  <2>3. n - 1 \in Nat /\ \A k \in T : k <= n - 1
    <3>1. n - 1 \in Nat
      BY <2>2, <1>4
    <3>2. ASSUME NEW k \in T PROVE k <= n - 1
      <4>1. k \in Nat /\ k <= n /\ k # n
        BY <1>1, <1>4
      <4> QED BY <4>1, <1>4
    <3> QED BY <3>1, <3>2
  <2>4. n - 1 \in Bounds
    BY <2>3
  <2>5. n <= n - 1
    BY <2>4, <1>3
  <2> QED BY <2>5, <1>4
<1> QED BY <1>4, <1>5

(* A set that holds every number below each of its own goes from 1 on.     *)
LEMMA UpFromOne ==
  ASSUME NEW N \in Nat, NEW T, T \subseteq 1..N, \A n \in T, m \in 1..N : m < n => m \in T
  PROVE  T = 1..Cardinality(T)
<1>1. CASE T = {}
  <2>1. Cardinality(T) = 0
    BY <1>1, FS_EmptySet
  <2>2. 1..0 = {}
    OBVIOUS
  <2> QED BY <1>1, <2>1, <2>2
<1>2. CASE T # {}
  <2>1. PICK n \in T : \A m \in T : m <= n
    BY <1>2, Greatest
  <2>2. n \in Nat /\ n >= 1 /\ n <= N
    BY PlacesFinite
  <2>3. ASSUME NEW m \in 1..n PROVE m \in T
    BY <2>1, <2>2, <2>3
  <2>4. ASSUME NEW m \in T PROVE m \in 1..n
    <3>1. m \in Nat /\ m >= 1
      BY PlacesFinite
    <3> QED BY <3>1, <2>1, <2>2
  <2>5. T = 1..n
    BY <2>3, <2>4
  <2>6. Cardinality(1..n) = n
    BY <2>2, FS_Interval
  <2> QED BY <2>5, <2>6
<1> QED BY <1>1, <1>2

(* Finitely many finite sets have a finite union.                          *)
LEMMA UnionFinite ==
  ASSUME NEW N \in Nat, NEW f, \A i \in 1..N : IsFiniteSet(f[i])
  PROVE  IsFiniteSet(UNION {f[i] : i \in 1..N})
<1> DEFINE First(n) == UNION {f[i] : i \in 1..n}
           T == {n \in Nat : n <= N => IsFiniteSet(First(n))}
<1>1. 0 \in T
  <2>1. First(0) = {}
    OBVIOUS
  <2> QED BY <2>1, FS_EmptySet
<1>2. ASSUME NEW n \in Nat, n \in T PROVE n + 1 \in T
  <2> SUFFICES ASSUME n + 1 <= N PROVE IsFiniteSet(First(n + 1))
    OBVIOUS
  <2>1. IsFiniteSet(First(n))
    BY <1>2
  <2>2. n + 1 \in 1..N /\ 1..n + 1 = (1..n) \cup {n + 1}
    OBVIOUS
  <2>3. First(n + 1) = First(n) \cup f[n + 1]
    BY <2>2
  <2>4. IsFiniteSet(f[n + 1])
    BY <2>2
  <2> HIDE DEF First
  <2> QED BY <2>1, <2>3, <2>4, FS_Union, ZenonT(60)
<1>3. \A n \in Nat : n \in T
  <2> HIDE DEF T
  <2> QED BY <1>1, <1>2, SetInduction
<1>4. N \in T
  BY <1>3
<1> QED BY <1>4
-------------------------------------------------------------------------------
(* Sequences of whatever elements.                                         *)
LEMMA SequenceOfAny ==
  ASSUME NEW n \in Nat, NEW s, s = [i \in 1..n |-> s[i]]
  PROVE  Sequence(s) /\ Len(s) = n /\ DOMAIN s = 1..n
<1>1. DOMAIN s = 1..n
  BY Zenon
<1>2. s \in [1..n -> Range(s)]
  BY <1>1 DEF Range
<1> QED BY <1>1, <1>2 DEF Sequence

LEMMA SequenceShape ==
  ASSUME NEW s, Sequence(s)
  PROVE  Len(s) \in Nat /\ DOMAIN s = 1..Len(s) /\ s = [i \in 1..Len(s) |-> s[i]]
  BY DEF Sequence

LEMMA SequenceOfFunction ==
  ASSUME NEW S, NEW n \in Nat, NEW s \in [1..n -> S]
  PROVE  s = [i \in 1..n |-> s[i]]
OBVIOUS

LEMMA SequenceOf ==
  ASSUME NEW S, NEW s \in Seq(S)
  PROVE  Sequence(s)
<1>1. Len(s) \in Nat /\ s \in [1..Len(s) -> S]
  OBVIOUS
<1>2. s = [i \in 1..Len(s) |-> s[i]]
  BY <1>1, SequenceOfFunction
<1> QED BY <1>1, <1>2, SequenceOfAny

LEMMA ConcatAny ==
  ASSUME NEW s, NEW t, Sequence(s), Sequence(t)
  PROVE  /\ Sequence(s \o t)
         /\ Len(s \o t) = Len(s) + Len(t)
         /\ Len(s) \in Nat /\ Len(t) \in Nat
         /\ DOMAIN (s \o t) = 1..Len(s) + Len(t)
         /\ \A i \in 1..Len(s) : (s \o t)[i] = s[i]
         /\ \A i \in 1..Len(t) : (s \o t)[Len(s) + i] = t[i]
<1> DEFINE S == Range(s) \cup Range(t)
           c == s \o t
<1>1. s \in Seq(S) /\ t \in Seq(S)
  BY DEF Sequence
<1> HIDE DEF S
<1>2. /\ c \in Seq(S)
      /\ Len(c) = Len(s) + Len(t)
      /\ \A i \in 1..Len(s) + Len(t) : c[i] = IF i <= Len(s) THEN s[i] ELSE t[i - Len(s)]
  BY <1>1
<1>3. Len(s) \in Nat /\ Len(t) \in Nat /\ DOMAIN c = 1..Len(c)
  BY <1>1, <1>2
<1> HIDE DEF c
<1>5. Sequence(c)
  BY <1>2, SequenceOf
<1>6. \A i \in 1..Len(s) : c[i] = s[i]
  <2> SUFFICES ASSUME NEW i \in 1..Len(s) PROVE c[i] = s[i]
    OBVIOUS
  <2>1. i \in 1..Len(s) + Len(t) /\ i <= Len(s)
    BY <1>3
  <2> QED BY <1>2, <2>1
<1>7. \A i \in 1..Len(t) : c[Len(s) + i] = t[i]
  <2> SUFFICES ASSUME NEW i \in 1..Len(t) PROVE c[Len(s) + i] = t[i]
    OBVIOUS
  <2>1. Len(s) + i \in 1..Len(s) + Len(t) /\ ~(Len(s) + i <= Len(s)) /\ Len(s) + i - Len(s) = i
    BY <1>3
  <2> QED BY <1>2, <2>1
<1> QED BY <1>2, <1>3, <1>5, <1>6, <1>7 DEF c

LEMMA AppendAny ==
  ASSUME NEW s, NEW e, Sequence(s)
  PROVE  /\ Sequence(Append(s, e))
         /\ Len(Append(s, e)) = Len(s) + 1
         /\ Len(s) \in Nat
         /\ \A i \in 1..Len(s) : Append(s, e)[i] = s[i]
         /\ Append(s, e)[Len(s) + 1] = e
         /\ s \o <<e>> = Append(s, e)
<1> DEFINE S == Range(s) \cup {e}
           a == Append(s, e)
<1>1. s \in Seq(S) /\ e \in S
  BY DEF Sequence
<1> HIDE DEF S
<1>2. /\ a \in Seq(S)
      /\ Len(a) = Len(s) + 1
      /\ Len(s) \in Nat
      /\ \A i \in 1..Len(s) : a[i] = s[i]
      /\ a[Len(s) + 1] = e
  BY <1>1, AppendProperties
<1>4. s \o <<e>> = a
  BY <1>1
<1> HIDE DEF a
<1>5. Sequence(a)
  BY <1>2, SequenceOf
<1> QED BY <1>2, <1>4, <1>5 DEF a

LEMMA ConcatFew ==
  ASSUME NEW s, Sequence(s)
  PROVE  /\ s \o <<>> = s
         /\ \A a, b : s \o <<a, b>> = Append(Append(s, a), b)
<1>1. s \o <<>> = s
  BY DEF Sequence
<1>2. ASSUME NEW a, NEW b PROVE s \o <<a, b>> = Append(Append(s, a), b)
  <2> DEFINE S == Range(s) \cup {a, b}
  <2>1. s \in Seq(S) /\ a \in S /\ b \in S
    BY DEF Sequence
  <2> HIDE DEF S
  <2>2. Append(s, a) = s \o <<a>> /\ Append(s, a) \in Seq(S)
    BY <2>1
  <2>3. Append(Append(s, a), b) = Append(s, a) \o <<b>>
    BY <2>1, <2>2
  <2>4. (s \o <<a>>) \o <<b>> = s \o (<<a>> \o <<b>>)
    <3>1. <<a>> \in Seq(S) /\ <<b>> \in Seq(S)
      BY <2>1
    <3> QED BY <2>1, <3>1, ConcatAssociative
  <2>5. <<a>> \o <<b>> = <<a, b>>
    <3>1. <<a>> \in Seq(S) /\ <<b>> \in Seq(S) /\ <<a, b>> \in Seq(S)
      BY <2>1
    <3>2. <<a>> \o <<b>> \in Seq(S) /\ Len(<<a>> \o <<b>>) = 2 /\ Len(<<a, b>>) = 2
      BY <3>1
    <3>3. (<<a>> \o <<b>>)[1] = a /\ (<<a>> \o <<b>>)[2] = b
      BY <3>1
    <3>4. \A i \in 1..2 : (<<a>> \o <<b>>)[i] = <<a, b>>[i]
      BY <3>3
    <3> QED BY <3>1, <3>2, <3>4, SeqEqual
  <2> QED BY <2>2, <2>3, <2>4, <2>5
<1> QED BY <1>1, <1>2

LEMMA TailAny ==
  ASSUME NEW s, Sequence(s), Len(s) > 0
  PROVE  /\ Sequence(Tail(s))
         /\ Len(Tail(s)) = Len(s) - 1
         /\ Len(s) \in Nat
         /\ \A i \in 1..Len(s) - 1 : Tail(s)[i] = s[i + 1]
         /\ Head(s) = s[1]
<1> DEFINE S == Range(s)
           t == Tail(s)
<1>1. s \in Seq(S)
  BY DEF Sequence
<1>0. s # <<>> /\ Len(s) \in Nat
  BY <1>1
<1> HIDE DEF S
<1>2. /\ t \in Seq(S)
      /\ Len(t) = Len(s) - 1
      /\ \A i \in 1..Len(s) - 1 : t[i] = s[i + 1]
      /\ Head(s) = s[1]
  BY <1>0, <1>1, HeadTailProperties
<1> HIDE DEF t
<1>5. Sequence(t)
  BY <1>2, SequenceOf
<1> QED BY <1>0, <1>2, <1>5 DEF t

LEMMA SubSeqAny ==
  ASSUME NEW s, Sequence(s), NEW m \in Nat, NEW n \in Nat, m >= 1, m <= n + 1, n <= Len(s)
  PROVE  /\ Sequence(SubSeq(s, m, n))
         /\ Len(SubSeq(s, m, n)) = n - m + 1
         /\ \A i \in 1..n - m + 1 : SubSeq(s, m, n)[i] = s[m + i - 1]
<1> DEFINE t == SubSeq(s, m, n)
<1>1. t = [i \in 1..n - m + 1 |-> s[m + i - 1]]
  BY DEF Sequence
<1>2. t = [i \in 1..n - m + 1 |-> t[i]]
  BY <1>1
<1>3. \A i \in 1..n - m + 1 : t[i] = s[m + i - 1]
  BY <1>1
<1> HIDE DEF t
<1>4. n - m + 1 \in Nat
  OBVIOUS
<1>5. Sequence(t) /\ Len(t) = n - m + 1
  BY <1>2, <1>4, SequenceOfAny
<1> QED BY <1>3, <1>5 DEF t

LEMMA OneElement ==
  ASSUME NEW e
  PROVE  Sequence(<<e>>) /\ Len(<<e>>) = 1 /\ <<e>>[1] = e
<1>1. <<e>> \in Seq({e}) /\ Len(<<e>>) = 1 /\ <<e>>[1] = e
  OBVIOUS
<1>2. <<e>> = [i \in 1..1 |-> <<e>>[i]]
  BY <1>1
<1>3. Sequence(<<e>>)
  BY <1>2, SequenceOfAny
<1> QED BY <1>1, <1>3

LEMMA InsertAtAny ==
  ASSUME NEW s, Sequence(s), NEW first \in Nat, first >= 1, first <= Len(s) + 1, NEW e
  PROVE  /\ Sequence(InsertAt(s, first, e))
         /\ Len(InsertAt(s, first, e)) = Len(s) + 1
         /\ \A k \in 1..Len(s) : k < first => InsertAt(s, first, e)[k] = s[k]
         /\ InsertAt(s, first, e)[first] = e
         /\ \A k \in 1..Len(s) : k >= first => InsertAt(s, first, e)[k + 1] = s[k]
<1>0. PICK N \in Nat : N = Len(s)
  BY SequenceShape
<1>1. PICK head, tail : head = SubSeq(s, 1, first - 1) /\ tail = SubSeq(s, first, Len(s))
  OBVIOUS
<1>2. first - 1 \in Nat /\ first - 1 - 1 + 1 = first - 1 /\ 1 <= first - 1 + 1 /\ first - 1 <= N
  BY <1>0
<1>3. /\ Sequence(head) /\ Len(head) = first - 1
      /\ \A i \in 1..first - 1 : head[i] = s[i]
  <2>1. /\ Sequence(head) /\ Len(head) = first - 1 - 1 + 1
        /\ \A i \in 1..first - 1 - 1 + 1 : head[i] = s[1 + i - 1]
    BY <1>0, <1>1, <1>2, SubSeqAny
  <2>2. \A i \in 1..first - 1 : 1 + i - 1 = i
    OBVIOUS
  <2> QED BY <1>2, <2>1, <2>2
<1>4. /\ Sequence(tail) /\ Len(tail) = N - first + 1
      /\ \A i \in 1..N - first + 1 : tail[i] = s[first + i - 1]
  BY <1>0, <1>1, SubSeqAny
<1>5. InsertAt(s, first, e) = (head \o <<e>>) \o tail
  BY <1>1 DEF InsertAt
<1>6. PICK front : front = head \o <<e>>
  OBVIOUS
<1>7. /\ Sequence(front) /\ Len(front) = first
      /\ \A i \in 1..first - 1 : front[i] = head[i]
      /\ front[first] = e
  <2>1. front = Append(head, e)
    BY <1>3, <1>6, AppendAny
  <2>2. Len(head) + 1 = first
    BY <1>3
  <2> QED BY <1>3, <2>1, <2>2, AppendAny
<1>8. PICK all : all = front \o tail
  OBVIOUS
<1>9. /\ Sequence(all) /\ Len(all) = first + (N - first + 1)
      /\ \A i \in 1..first : all[i] = front[i]
      /\ \A i \in 1..N - first + 1 : all[first + i] = tail[i]
  <2>1. Sequence(front) /\ Sequence(tail)
    BY <1>4, <1>7
  <2>2. /\ Sequence(all) /\ Len(all) = Len(front) + Len(tail)
        /\ \A i \in 1..Len(front) : all[i] = front[i]
        /\ \A i \in 1..Len(tail) : all[Len(front) + i] = tail[i]
    BY ONLY <1>8, <2>1, ConcatAny
  <2> QED BY <1>4, <1>7, <2>2
<1>10. Len(all) = N + 1
  BY <1>9
<1>11. ASSUME NEW k \in 1..N, k < first PROVE all[k] = s[k]
  <2>1. k \in 1..first /\ k \in 1..first - 1
    BY <1>11
  <2> QED BY <1>3, <1>7, <1>9, <2>1
<1>12. all[first] = e
  <2>1. first \in 1..first
    OBVIOUS
  <2> QED BY <1>7, <1>9, <2>1
<1>13. ASSUME NEW k \in 1..N, k >= first PROVE all[k + 1] = s[k]
  <2>1. PICK i : i = k + 1 - first
    OBVIOUS
  <2>2. i \in 1..N - first + 1 /\ first + i = k + 1 /\ first + i - 1 = k
    BY <1>13, <2>1
  <2> QED BY <1>4, <1>9, <2>2
<1> QED BY <1>0, <1>5, <1>6, <1>8, <1>9, <1>10, <1>11, <1>12, <1>13
-------------------------------------------------------------------------------

(* What names the places of a set in their order, each once.               *)
CountsUp(f, n, places) ==
  /\ \A k \in 1..n : f[k] \in places
  /\ \A k, l \in 1..n : k < l => f[k] < f[l]
  /\ \A i \in places : \E k \in 1..n : f[k] = i

(* What counts a set of places up, in their order, counts them by rank.    *)
LEMMA NthIs ==
  ASSUME NEW N \in Nat, NEW places, places \subseteq 1..N, NEW n \in Nat, NEW f,
         CountsUp(f, n, places)
  PROVE  Cardinality(places) = n /\ \A k \in 1..n : Nth(places, k) = f[k]
<1>00. /\ \A k \in 1..n : f[k] \in places
       /\ \A k, l \in 1..n : k < l => f[k] < f[l]
       /\ \A i \in places : \E k \in 1..n : f[k] = i
  BY DEF CountsUp
<1> USE <1>00
<1>0. \A i \in places : i \in Nat /\ i >= 1 /\ i <= N
  BY PlacesFinite
<1>01. \A k \in 1..n : f[k] \in Nat
  BY <1>0
<1>1. \A k, l \in 1..n : f[k] <= f[l] <=> k <= l
  <2> SUFFICES ASSUME NEW k \in 1..n, NEW l \in 1..n PROVE f[k] <= f[l] <=> k <= l
    OBVIOUS
  <2>1. k \in Nat /\ l \in Nat /\ f[k] \in Nat /\ f[l] \in Nat
    BY <1>01
  <2>2. (k < l => f[k] < f[l]) /\ (l < k => f[l] < f[k])
    OBVIOUS
  <2>3. CASE k = l
    BY <2>1, <2>3
  <2>4. CASE k # l
    BY <2>1, <2>2, <2>4
  <2> QED BY <2>3, <2>4
<1> DEFINE T == {k \in Nat : k \in 1..n => Cardinality(UpTo(places, f[k])) = k}
<1>2. 0 \in T
  OBVIOUS
<1>3. ASSUME NEW k \in Nat, k \in T PROVE k + 1 \in T
  <2> SUFFICES ASSUME k + 1 \in 1..n PROVE Cardinality(UpTo(places, f[k + 1])) = k + 1
    OBVIOUS
  <2>1. CASE k = 0
    <3>1. UpTo(places, f[k + 1]) = {f[k + 1]}
      <4>1. ASSUME NEW i \in places, i <= f[k + 1] PROVE i = f[k + 1]
        <5>1. PICK l \in 1..n : f[l] = i
          OBVIOUS
        <5>2. l <= k + 1
          BY <5>1, <4>1, <1>1
        <5>3. l = k + 1
          BY <5>2, <2>1
        <5> QED BY <5>1, <5>3
      <4>2. f[k + 1] \in places /\ f[k + 1] <= f[k + 1]
        BY <1>01
      <4> QED BY <4>1, <4>2 DEF UpTo
    <3>2. Cardinality({f[k + 1]}) = 1
      BY FS_Singleton
    <3> QED BY <3>1, <3>2, <2>1
  <2>2. CASE k # 0
    <3>0. k \in 1..n /\ k < k + 1
      BY <2>2
    <3>1. UpTo(places, f[k + 1]) = UpTo(places, f[k]) \cup {f[k + 1]}
      <4>1. ASSUME NEW i \in places PROVE i <= f[k + 1] <=> i <= f[k] \/ i = f[k + 1]
        <5>1. PICK l \in 1..n : f[l] = i
          OBVIOUS
        <5>2. (i <= f[k + 1] <=> l <= k + 1) /\ (i <= f[k] <=> l <= k)
          BY <5>1, <3>0, <1>1
        <5>3. i = f[k + 1] <=> l = k + 1
          <6>1. i = f[k + 1] => l <= k + 1 /\ k + 1 <= l
            BY <5>1, <1>0, <1>1
          <6> QED BY <6>1, <5>1
        <5> QED BY <5>2, <5>3
      <4>2. f[k + 1] \in places
        OBVIOUS
      <4> QED BY <4>1, <4>2 DEF UpTo
    <3>2. f[k] \in Nat /\ f[k + 1] \in Nat /\ f[k] < f[k + 1]
      BY <3>0, <1>0
    <3>3. IsFiniteSet(UpTo(places, f[k]))
      BY <3>2, UpToFinite
    <3>4. f[k + 1] \notin UpTo(places, f[k])
      BY <3>2 DEF UpTo
    <3>5. Cardinality(UpTo(places, f[k])) = k
      BY <3>0, <1>3
    <3> QED BY <3>1, <3>3, <3>4, <3>5, FS_AddElement
  <2> QED BY <2>1, <2>2
<1>4. \A k \in 1..n : Cardinality(UpTo(places, f[k])) = k
  <2>1. \A k \in Nat : k \in T
    <3> HIDE DEF T
    <3> QED BY <1>2, <1>3, SetInduction
  <2> QED BY <2>1
<1>5. Cardinality(places) = n
  <2>1. CASE n = 0
    <3>1. places = {}
      BY <2>1
    <3> QED BY <3>1, <2>1, FS_EmptySet
  <2>2. CASE n # 0
    <3>1. n \in 1..n
      BY <2>2
    <3>2. \A i \in places : i <= f[n]
      <4> SUFFICES ASSUME NEW i \in places PROVE i <= f[n]
        OBVIOUS
      <4>1. PICK l \in 1..n : f[l] = i
        OBVIOUS
      <4>2. l <= n
        OBVIOUS
      <4> QED BY <4>1, <4>2, <3>1, <1>1
    <3>3. UpTo(places, f[n]) = places
      BY <3>2 DEF UpTo
    <3> QED BY <3>1, <3>3, <1>4
  <2> QED BY <2>1, <2>2
<1>6. ASSUME NEW k \in 1..n PROVE Nth(places, k) = f[k]
  <2>1. Nth(places, k) \in places /\ Cardinality(UpTo(places, Nth(places, k))) = k
    BY <1>5, PlaceOfRank
  <2>2. PICK l \in 1..n : f[l] = Nth(places, k)
    BY <2>1
  <2>3. l = k
    BY <2>1, <2>2, <1>4
  <2> QED BY <2>2, <2>3
<1> QED BY <1>5, <1>6

(* What is picked of a sequence of whatever elements.                      *)
LEMMA PickedIs ==
  ASSUME NEW seq, NEW places, Sequence(seq), places \subseteq DOMAIN seq
  PROVE  /\ Sequence(Picked(seq, places))
         /\ Len(Picked(seq, places)) = Cardinality(places)
         /\ Cardinality(places) \in Nat
         /\ \A k \in 1..Cardinality(places) : /\ Nth(places, k) \in places
                                              /\ Picked(seq, places)[k] = seq[Nth(places, k)]
<1>1. seq \in Seq(Range(seq))
  BY DEF Sequence
<1>2. /\ Picked(seq, places) \in Seq(Range(seq))
      /\ Len(Picked(seq, places)) = Cardinality(places)
      /\ Cardinality(places) \in Nat
      /\ \A k \in 1..Cardinality(places) : /\ Nth(places, k) \in places
                                           /\ Picked(seq, places)[k] = seq[Nth(places, k)]
  BY <1>1, PickedType
<1>3. Sequence(Picked(seq, places))
  BY <1>2, SequenceOf
<1> QED BY <1>2, <1>3

LEMMA EqualAny ==
  ASSUME NEW s, NEW t, Sequence(s), Sequence(t), Len(s) = Len(t),
         \A i \in 1..Len(s) : s[i] = t[i]
  PROVE  s = t
<1>1. s = [i \in 1..Len(s) |-> s[i]] /\ t = [i \in 1..Len(t) |-> t[i]]
  BY SequenceShape
<1>2. [i \in 1..Len(s) |-> s[i]] = [i \in 1..Len(t) |-> t[i]]
  OBVIOUS
<1> QED BY <1>1, <1>2, Zenon
-------------------------------------------------------------------------------
(* The elements of a sequence that are of a set, in their order.           *)
Those(seq, T) == Picked(seq, {i \in DOMAIN seq : seq[i] \in T})

LEMMA ThoseAny ==
  ASSUME NEW seq, NEW T, Sequence(seq)
  PROVE  /\ Sequence(Those(seq, T))
         /\ \A k \in DOMAIN Those(seq, T) : Those(seq, T)[k] \in T
                                            /\ \E i \in DOMAIN seq : Those(seq, T)[k] = seq[i]
<1> DEFINE places == {i \in DOMAIN seq : seq[i] \in T}
<1>1. places \subseteq DOMAIN seq
  OBVIOUS
<1>2. /\ Sequence(Picked(seq, places))
      /\ Len(Picked(seq, places)) = Cardinality(places)
      /\ \A k \in 1..Cardinality(places) : /\ Nth(places, k) \in places
                                           /\ Picked(seq, places)[k] = seq[Nth(places, k)]
  <2> HIDE DEF places
  <2> QED BY <1>1, PickedIs
<1>3. DOMAIN Picked(seq, places) = 1..Cardinality(places)
  <2> HIDE DEF places
  <2> QED BY <1>2, SequenceShape
<1> QED BY <1>2, <1>3 DEF Those

LEMMA ThoseConcat ==
  ASSUME NEW s, NEW t, NEW T, Sequence(s), Sequence(t)
  PROVE  Those(s \o t, T) = Those(s, T) \o Those(t, T)
<1> DEFINE A == {i \in DOMAIN s : s[i] \in T}
           B == {i \in DOMAIN t : t[i] \in T}
           P == {i \in DOMAIN (s \o t) : (s \o t)[i] \in T}
           a == Cardinality(A)
           b == Cardinality(B)
           f == [k \in 1..a + b |-> IF k <= a THEN Nth(A, k) ELSE Len(s) + Nth(B, k - a)]
           p == Picked(s, A)
           q == Picked(t, B)
<1>1. /\ Sequence(s \o t)
      /\ Len(s \o t) = Len(s) + Len(t)
      /\ Len(s) \in Nat /\ Len(t) \in Nat
      /\ DOMAIN (s \o t) = 1..Len(s) + Len(t)
      /\ \A i \in 1..Len(s) : (s \o t)[i] = s[i]
      /\ \A i \in 1..Len(t) : (s \o t)[Len(s) + i] = t[i]
  BY ConcatAny
<1>2. DOMAIN s = 1..Len(s) /\ DOMAIN t = 1..Len(t)
  BY SequenceShape
<1>3. /\ A \subseteq 1..Len(s) /\ B \subseteq 1..Len(t) /\ P \subseteq 1..Len(s) + Len(t)
      /\ \A i \in 1..Len(s) : i \in P <=> i \in A
      /\ \A i \in 1..Len(t) : Len(s) + i \in P <=> i \in B
  BY <1>1, <1>2
<1>4. /\ Sequence(p) /\ Len(p) = a /\ a \in Nat
      /\ \A k \in 1..a : Nth(A, k) \in A /\ p[k] = s[Nth(A, k)]
  <2> HIDE DEF A
  <2> QED BY <1>2, <1>3, PickedIs
<1>5. /\ Sequence(q) /\ Len(q) = b /\ b \in Nat
      /\ \A k \in 1..b : Nth(B, k) \in B /\ q[k] = t[Nth(B, k)]
  <2> HIDE DEF B
  <2> QED BY <1>2, <1>3, PickedIs
<1>6. /\ Those(s, T) = p /\ Those(t, T) = q /\ Those(s \o t, T) = Picked(s \o t, P)
  BY DEF Those
<1> HIDE DEF A, B, P, a, b, p, q
<1>7. a + b \in Nat
  BY <1>4, <1>5
<1>8. \A k \in 1..a + b : \/ k \in 1..a /\ f[k] = Nth(A, k) /\ f[k] \in A /\ f[k] \in 1..Len(s)
                          \/ /\ k > a /\ k - a \in 1..b
                             /\ f[k] = Len(s) + Nth(B, k - a)
                             /\ Nth(B, k - a) \in B /\ Nth(B, k - a) \in 1..Len(t)
  <2> SUFFICES ASSUME NEW k \in 1..a + b
               PROVE  \/ k \in 1..a /\ f[k] = Nth(A, k) /\ f[k] \in A /\ f[k] \in 1..Len(s)
                      \/ /\ k > a /\ k - a \in 1..b
                         /\ f[k] = Len(s) + Nth(B, k - a)
                         /\ Nth(B, k - a) \in B /\ Nth(B, k - a) \in 1..Len(t)
    OBVIOUS
  <2>1. CASE k <= a
    <3>1. k \in 1..a
      BY <2>1, <1>4, <1>5
    <3> QED BY <3>1, <2>1, <1>3, <1>4
  <2>2. CASE ~(k <= a)
    <3>1. k > a /\ k - a \in 1..b
      BY <2>2, <1>4, <1>5
    <3> QED BY <3>1, <2>2, <1>3, <1>5
  <2> QED BY <2>1, <2>2
<1>9. ASSUME NEW k \in 1..a + b PROVE f[k] \in P
  <2>1. CASE k \in 1..a /\ f[k] \in A /\ f[k] \in 1..Len(s)
    BY <2>1, <1>3
  <2>2. CASE f[k] = Len(s) + Nth(B, k - a) /\ Nth(B, k - a) \in B /\ Nth(B, k - a) \in 1..Len(t)
    BY <2>2, <1>3
  <2> HIDE DEF f
  <2> QED BY <1>8, <2>1, <2>2
<1>10. ASSUME NEW k \in 1..a + b, NEW l \in 1..a + b, k < l PROVE f[k] < f[l]
  <2> HIDE DEF f
  <2>0. k \in Nat /\ l \in Nat /\ a \in Nat /\ b \in Nat /\ Len(s) \in Nat
    BY <1>1, <1>4, <1>5
  <2>1. CASE l \in 1..a /\ f[l] = Nth(A, l)
    <3>1. k \in 1..a
      BY <2>0, <2>1, <1>10
    <3>2. f[k] = Nth(A, k)
      BY <3>1, <1>8, <2>0
    <3> QED BY <3>1, <3>2, <2>1, <1>10, <1>3, <1>1, NthIncreases DEF a
  <2>2. CASE /\ l > a /\ l - a \in 1..b
             /\ f[l] = Len(s) + Nth(B, l - a)
             /\ Nth(B, l - a) \in B /\ Nth(B, l - a) \in 1..Len(t)
    <3>1. CASE k \in 1..a /\ f[k] \in 1..Len(s)
      BY <3>1, <2>2, <1>1
    <3>2. CASE /\ k > a /\ k - a \in 1..b /\ f[k] = Len(s) + Nth(B, k - a)
               /\ Nth(B, k - a) \in 1..Len(t)
      <4>1. k - a < l - a
        BY <2>0, <1>10
      <4>2. Nth(B, k - a) < Nth(B, l - a)
        BY <4>1, <3>2, <2>2, <1>3, <1>1, NthIncreases DEF b
      <4> QED BY <4>2, <3>2, <2>2, <1>1
    <3> QED BY <1>8, <3>1, <3>2
  <2> QED BY <1>8, <2>1, <2>2
<1>11. ASSUME NEW i \in P PROVE \E k \in 1..a + b : f[k] = i
  <2>1. i \in 1..Len(s) + Len(t)
    BY <1>3
  <2>2. CASE i <= Len(s)
    <3>1. i \in 1..Len(s)
      BY <2>1, <2>2, <1>1
    <3>2. i \in A
      BY <3>1, <1>3
    <3>3. PICK k \in 1..a : Nth(A, k) = i
      BY <3>2, <1>3, <1>1, NthReaches DEF a
    <3>4. k \in 1..a + b /\ k <= a
      BY <1>4, <1>5
    <3> QED BY <3>3, <3>4
  <2>3. CASE ~(i <= Len(s))
    <3>1. i - Len(s) \in 1..Len(t) /\ Len(s) + (i - Len(s)) = i
      BY <2>1, <2>3, <1>1
    <3>2. i - Len(s) \in B
      BY <3>1, <1>3
    <3>3. PICK k \in 1..b : Nth(B, k) = i - Len(s)
      BY <3>2, <1>3, <1>1, NthReaches DEF b
    <3>4. a + k \in 1..a + b /\ ~(a + k <= a) /\ (a + k) - a = k
      BY <1>4, <1>5
    <3> QED BY <3>1, <3>3, <3>4
  <2> QED BY <2>2, <2>3
<1>12. Picked(s \o t, P) = [k \in 1..a + b |-> (s \o t)[f[k]]]
  <2> DEFINE N == Len(s) + Len(t)
  <2>1. N \in Nat /\ P \subseteq 1..N
    BY <1>1, <1>3
  <2> HIDE DEF f, N
  <2>2. CountsUp(f, a + b, P)
    BY <1>9, <1>10, <1>11 DEF CountsUp
  <2> DEFINE n == a + b
             c == s \o t
  <2>3. n \in Nat /\ CountsUp(f, n, P)
    BY <1>7, <2>2
  <2> HIDE DEF n, c
  <2>4. Picked(c, P) = [k \in 1..n |-> c[f[k]]]
    <3>1. Cardinality(P) = n /\ \A k \in 1..n : Nth(P, k) = f[k]
      BY <2>1, <2>3, NthIs
    <3> QED BY <3>1 DEF Picked
  <2> QED BY <2>4 DEF n, c
<1>13. ASSUME NEW k \in 1..a + b PROVE (s \o t)[f[k]] = (p \o q)[k]
  <2>0. \A j \in 1..Len(p) : (p \o q)[j] = p[j]
    BY <1>4, <1>5, ConcatAny
  <2>00. \A j \in 1..Len(q) : (p \o q)[Len(p) + j] = q[j]
    BY <1>4, <1>5, ConcatAny
  <2> HIDE DEF f
  <2>1. CASE k \in 1..a /\ f[k] = Nth(A, k) /\ f[k] \in 1..Len(s)
    BY <2>1, <2>0, <1>1, <1>4
  <2>2. CASE /\ k > a /\ k - a \in 1..b /\ f[k] = Len(s) + Nth(B, k - a)
             /\ Nth(B, k - a) \in 1..Len(t)
    <3>1. a + (k - a) = k
      BY <1>4
    <3>2. (p \o q)[k] = q[k - a]
      BY <3>1, <2>00, <2>2, <1>4, <1>5
    <3> QED BY <3>2, <2>2, <1>1, <1>5
  <2> QED BY <1>8, <2>1, <2>2
<1>14. Sequence(p \o q) /\ Len(p \o q) = a + b
  BY <1>4, <1>5, ConcatAny
<1>15. p \o q = [k \in 1..a + b |-> (p \o q)[k]]
  BY <1>14, SequenceShape
<1>16. [k \in 1..a + b |-> (s \o t)[f[k]]] = [k \in 1..a + b |-> (p \o q)[k]]
  BY <1>13
<1> QED BY <1>6, <1>12, <1>15, <1>16, Zenon
(* Those are of the set, and every element of the set is among them.       *)
LEMMA ThoseShape ==
  ASSUME NEW s, NEW T, Sequence(s)
  PROVE  /\ \A k \in 1..Len(Those(s, T)) : Those(s, T)[k] \in T
         /\ \A e \in T : (\E i \in 1..Len(s) : s[i] = e) => \E k \in 1..Len(Those(s, T)) : Those(s, T)[k] = e
<1> DEFINE A == {i \in DOMAIN s : s[i] \in T}
<1>1. DOMAIN s = 1..Len(s) /\ Len(s) \in Nat
  BY SequenceShape
<1>2. A \subseteq 1..Len(s) /\ A \subseteq DOMAIN s
  BY <1>1
<1>3. \A i \in 1..Len(s) : i \in A <=> s[i] \in T
  BY <1>1
<1> HIDE DEF A
<1>4. /\ Len(Picked(s, A)) = Cardinality(A)
      /\ \A k \in 1..Cardinality(A) : Nth(A, k) \in A /\ Picked(s, A)[k] = s[Nth(A, k)]
  BY <1>2, PickedIs
<1>5. \A i \in A : \E k \in 1..Cardinality(A) : Nth(A, k) = i
  BY <1>1, <1>2, NthReaches
<1>6. Those(s, T) = Picked(s, A)
  BY DEF Those, A
<1>7. \A k \in 1..Cardinality(A) : Picked(s, A)[k] \in T
  BY <1>2, <1>3, <1>4
<1>8. ASSUME NEW e \in T, NEW i \in 1..Len(s), s[i] = e
      PROVE  \E k \in 1..Cardinality(A) : Picked(s, A)[k] = e
  <2>1. i \in A
    BY <1>3, <1>8
  <2>2. PICK k \in 1..Cardinality(A) : Nth(A, k) = i
    BY <2>1, <1>5
  <2> QED BY <2>2, <1>4, <1>8
<1> QED BY <1>4, <1>6, <1>7, <1>8

(* What is left of what was left before, of a smaller set.                 *)
LEMMA ThoseThose ==
  ASSUME NEW s, NEW U, NEW T, Sequence(s), \A i \in DOMAIN s : s[i] \in T => s[i] \in U
  PROVE  Those(Those(s, U), T) = Those(s, T)
<1> DEFINE A == {i \in DOMAIN s : s[i] \in U}
           C == {i \in DOMAIN s : s[i] \in T}
           p == Picked(s, A)
           B == {k \in DOMAIN p : p[k] \in T}
           q == Picked(p, B)
           n == Cardinality(B)
           f == [k \in 1..n |-> Nth(A, Nth(B, k))]
<1>1. DOMAIN s = 1..Len(s) /\ Len(s) \in Nat
  BY SequenceShape
<1>2. /\ A \subseteq 1..Len(s) /\ C \subseteq 1..Len(s) /\ C \subseteq A
      /\ \A i \in 1..Len(s) : i \in C <=> s[i] \in T
  BY <1>1
<1>3. /\ Sequence(p) /\ Len(p) = Cardinality(A) /\ Cardinality(A) \in Nat
      /\ \A k \in 1..Cardinality(A) : Nth(A, k) \in A /\ p[k] = s[Nth(A, k)]
  <2> HIDE DEF A
  <2> QED BY <1>1, <1>2, PickedIs
<1>4. DOMAIN p = 1..Cardinality(A)
  <2> HIDE DEF A, p
  <2> QED BY <1>3, SequenceShape
<1>5. /\ B \subseteq DOMAIN p /\ B \subseteq 1..Cardinality(A)
      /\ \A k \in 1..Cardinality(A) : k \in B <=> Nth(A, k) \in C
  <2> SUFFICES \A k \in 1..Cardinality(A) : k \in B <=> Nth(A, k) \in C
    BY <1>4
  <2> HIDE DEF A, p, C
  <2> QED BY <1>2, <1>3, <1>4
<1> HIDE DEF B
<1>6. /\ Sequence(q) /\ Len(q) = n /\ n \in Nat
      /\ \A k \in 1..n : Nth(B, k) \in B /\ q[k] = p[Nth(B, k)]
  <2>1. Sequence(p) /\ B \subseteq DOMAIN p
    BY <1>3, <1>5
  <2> HIDE DEF p
  <2>2. /\ Sequence(Picked(p, B)) /\ Len(Picked(p, B)) = Cardinality(B) /\ Cardinality(B) \in Nat
        /\ \A k \in 1..Cardinality(B) : Nth(B, k) \in B /\ Picked(p, B)[k] = p[Nth(B, k)]
    BY ONLY <2>1, PickedIs
  <2> QED BY <2>2
<1> HIDE DEF A, C, p, n
<1>7. ASSUME NEW k \in 1..n PROVE Nth(B, k) \in 1..Cardinality(A) /\ f[k] = Nth(A, Nth(B, k)) /\ f[k] \in C
  BY <1>5, <1>6
<1>8. ASSUME NEW k \in 1..n, NEW l \in 1..n, k < l PROVE f[k] < f[l]
  <2>1. Nth(B, k) < Nth(B, l)
    BY <1>3, <1>5, <1>8, NthIncreases DEF n
  <2>2. /\ Nth(B, k) \in 1..Cardinality(A) /\ Nth(B, l) \in 1..Cardinality(A)
        /\ f[k] = Nth(A, Nth(B, k)) /\ f[l] = Nth(A, Nth(B, l))
    BY <1>7
  <2> HIDE DEF f
  <2> QED BY <2>1, <2>2, <1>1, <1>2, NthIncreases
<1>9. ASSUME NEW i \in C PROVE \E k \in 1..n : f[k] = i
  <2>1. PICK l \in 1..Cardinality(A) : Nth(A, l) = i
    BY <1>1, <1>2, NthReaches
  <2>2. l \in B
    BY <2>1, <1>5
  <2>3. PICK k \in 1..n : Nth(B, k) = l
    BY <2>2, <1>3, <1>5, NthReaches DEF n
  <2> QED BY <2>1, <2>3
<1>10. CountsUp(f, n, C)
  <2> HIDE DEF f
  <2> QED BY <1>7, <1>8, <1>9 DEF CountsUp
<1>11. Cardinality(C) = n /\ \A k \in 1..n : Nth(C, k) = f[k]
  <2>1. C \subseteq 1..Len(s) /\ Len(s) \in Nat /\ n \in Nat
    BY <1>1, <1>2, <1>6
  <2> HIDE DEF f
  <2> QED BY ONLY <2>1, <1>10, NthIs
<1>12. /\ Sequence(Picked(s, C)) /\ Len(Picked(s, C)) = n
       /\ \A k \in 1..n : Picked(s, C)[k] = s[f[k]]
  <2>1. C \subseteq DOMAIN s
    BY <1>1, <1>2
  <2>2. /\ Sequence(Picked(s, C)) /\ Len(Picked(s, C)) = Cardinality(C)
        /\ \A k \in 1..Cardinality(C) : Picked(s, C)[k] = s[Nth(C, k)]
    BY <2>1, PickedIs
  <2> HIDE DEF f
  <2> QED BY <2>2, <1>11
<1>13. \A k \in 1..n : q[k] = s[f[k]]
  <2> SUFFICES ASSUME NEW k \in 1..n PROVE q[k] = s[f[k]]
    OBVIOUS
  <2>1. q[k] = p[Nth(B, k)]
    BY <1>6
  <2> QED BY <2>1, <1>3, <1>7
<1>14. q = Picked(s, C)
  <2> HIDE DEF f, q
  <2>1. \A k \in 1..Len(q) : q[k] = Picked(s, C)[k]
    BY <1>6, <1>12, <1>13
  <2> QED BY <2>1, <1>6, <1>12, EqualAny
<1>15. Those(s, U) = p /\ Those(p, T) = q /\ Those(s, T) = Picked(s, C)
  BY DEF Those, A, B, C, p
<1> QED BY <1>14, <1>15

(* All of them, or none.                                                   *)
LEMMA ThoseAll ==
  ASSUME NEW s, NEW T, Sequence(s), \A i \in DOMAIN s : s[i] \in T
  PROVE  Those(s, T) = s
<1> DEFINE P == {i \in DOMAIN s : s[i] \in T}
           n == Len(s)
           f == [k \in 1..n |-> k]
<1>1. DOMAIN s = 1..n /\ n \in Nat
  BY SequenceShape
<1>2. P = DOMAIN s /\ P = 1..n
  BY <1>1
<1>3. Those(s, T) = Picked(s, P)
  BY DEF Those
<1> HIDE DEF P, n
<1>4. CountsUp(f, n, P)
  BY <1>1, <1>2 DEF CountsUp
<1>5. Cardinality(P) = n /\ \A k \in 1..n : Nth(P, k) = f[k]
  <2> HIDE DEF f
  <2> QED BY <1>1, <1>2, <1>4, NthIs
<1>6. \A k \in 1..n : Nth(P, k) = k
  BY <1>5
<1>7. /\ Sequence(Picked(s, P)) /\ Len(Picked(s, P)) = Cardinality(P)
      /\ \A k \in 1..Cardinality(P) : Picked(s, P)[k] = s[Nth(P, k)]
  BY <1>2, PickedIs
<1>8. \A k \in 1..Len(s) : s[k] = Picked(s, P)[k]
  BY <1>5, <1>6, <1>7 DEF n
<1>9. Len(s) = Len(Picked(s, P))
  BY <1>5, <1>7 DEF n
<1> QED BY <1>3, <1>7, <1>8, <1>9, EqualAny

LEMMA ThoseNone ==
  ASSUME NEW s, NEW T, \A i \in DOMAIN s : s[i] \notin T
  PROVE  Those(s, T) = <<>>
<1>1. {i \in DOMAIN s : s[i] \in T} = {}
  OBVIOUS
<1>2. Those(s, T) = [k \in 1..0 |-> s[Nth({}, k)]]
  BY <1>1, FS_EmptySet DEF Those, Picked
<1>3. [k \in 1..0 |-> s[Nth({}, k)]] = <<>>
  OBVIOUS
<1> QED BY <1>2, <1>3
-------------------------------------------------------------------------------
(* A walk through 0..N: what it collects from o on.  It stops in `stops`,  *)
(* goes no further from `lasts`, and else goes on to next[o].              *)
Walk(f, N, stops, lasts, own, next) ==
  f = [o \in 0..N |-> IF o \in stops THEN {}
                      ELSE own[o] \cup (IF o \in lasts THEN {} ELSE f[next[o]])]

Onward(N, stops, lasts, next) ==
  \A o \in 0..N : o \notin stops /\ o \notin lasts => next[o] \in 0..N /\ next[o] > o

LEMMA WalkExists ==
  ASSUME NEW N \in Nat, NEW stops, NEW lasts, NEW own, NEW next, Onward(N, stops, lasts, next)
  PROVE  \E f : Walk(f, N, stops, lasts, own, next)
<1> DEFINE Value(f, o) == IF o \in stops THEN {}
                          ELSE own[o] \cup (IF o \in lasts THEN {} ELSE f[next[o]])
           T == {n \in Nat : \E f : f = [o \in 0..N |-> f[o]]
                                    /\ \A o \in 0..N : o > N - n => f[o] = Value(f, o)}
<1>1. 0 \in T
  <2>1. [o \in 0..N |-> {}] = [o \in 0..N |-> [i \in 0..N |-> {}][o]]
    OBVIOUS
  <2>2. \A o \in 0..N : ~(o > N - 0)
    OBVIOUS
  <2> QED BY <2>1, <2>2
<1>2. ASSUME NEW n \in Nat, n \in T PROVE n + 1 \in T
  <2>1. PICK f : f = [o \in 0..N |-> f[o]] /\ \A o \in 0..N : o > N - n => f[o] = Value(f, o)
    BY <1>2
  <2> DEFINE g == [o \in 0..N |-> IF o = N - n THEN Value(f, o) ELSE f[o]]
  <2>2. g = [o \in 0..N |-> g[o]]
    OBVIOUS
  <2>3. ASSUME NEW o \in 0..N, o > N - (n + 1) PROVE g[o] = Value(g, o)
    <3>0. o >= N - n
      BY <2>3
    <3>1. g[o] = Value(f, o)
      <4>1. o # N - n => o > N - n
        BY <3>0
      <4>2. o # N - n => f[o] = Value(f, o)
        BY <2>1, <4>1
      <4> HIDE DEF Value
      <4> QED BY <4>2
    <3>2. o \notin stops /\ o \notin lasts => g[next[o]] = f[next[o]]
      <4>1. o \notin stops /\ o \notin lasts => next[o] \in 0..N /\ next[o] > o
        BY DEF Onward
      <4> QED BY <3>0, <4>1
    <3> QED BY <3>1, <3>2
  <2> HIDE DEF g, Value
  <2> QED BY <2>2, <2>3
<1>3. N + 1 \in T
  <2>1. \A n \in Nat : n \in T
    <3> HIDE DEF T
    <3> QED BY <1>1, <1>2, SetInduction
  <2> HIDE DEF T
  <2> QED BY <2>1
<1>4. PICK f : f = [o \in 0..N |-> f[o]] /\ \A o \in 0..N : o > N - (N + 1) => f[o] = Value(f, o)
  BY <1>3
<1>5. \A o \in 0..N : f[o] = Value(f, o)
  <2>1. \A o \in 0..N : o > N - (N + 1)
    OBVIOUS
  <2> QED BY <1>4, <2>1
<1>6. f = [o \in 0..N |-> Value(f, o)]
  <2> HIDE DEF Value
  <2> QED BY <1>4, <1>5
<1> QED BY <1>6 DEF Walk

(* A walk that gets through the places `visited`, in their order.          *)
Visits(N, stops, lasts, next, visited) ==
  /\ visited \subseteq 0..N
  /\ \A o \in visited :
       /\ o \notin stops
       /\ o \in lasts \/ next[o] \in stops => \A p \in visited : p <= o
       /\ o \notin lasts /\ next[o] \notin stops =>
            next[o] \in visited /\ \A p \in visited : p > o => p >= next[o]

(* What such a walk collects.                                              *)
LEMMA WalkCollects ==
  ASSUME NEW N \in Nat, NEW stops, NEW lasts, NEW own, NEW next, NEW f,
         Onward(N, stops, lasts, next),
         Walk(f, N, stops, lasts, own, next),
         NEW visited, Visits(N, stops, lasts, next, visited)
  PROVE  \A o \in visited : f[o] = UNION {own[p] : p \in {p \in visited : p >= o}}
<1> DEFINE From(o) == UNION {own[p] : p \in {p \in visited : p >= o}}
           T == {n \in Nat : \A o \in visited : o >= N - n => f[o] = From(o)}
<1>10. /\ visited \subseteq 0..N
       /\ \A o \in visited :
            /\ o \notin stops
            /\ o \in lasts \/ next[o] \in stops => \A p \in visited : p <= o
            /\ o \notin lasts /\ next[o] \notin stops =>
                 next[o] \in visited /\ \A p \in visited : p > o => p >= next[o]
  BY DEF Visits
<1> USE <1>10
<1>0. \A o \in 0..N : f[o] = IF o \in stops THEN {}
                             ELSE own[o] \cup (IF o \in lasts THEN {} ELSE f[next[o]])
  BY DEF Walk
<1>1. ASSUME NEW o \in visited,
             o \notin lasts /\ next[o] \notin stops => f[next[o]] = From(next[o])
      PROVE  f[o] = From(o)
  <2>0. o \in 0..N /\ o \notin stops /\ \A p \in visited : p \in Int
    OBVIOUS
  <2>1. CASE o \in lasts \/ next[o] \in stops
    <3>1. o \notin lasts => f[next[o]] = {}
      <4>1. o \notin lasts => next[o] \in 0..N
        BY <2>0 DEF Onward
      <4> QED BY <4>1, <2>1, <1>0
    <3>2. f[o] = own[o]
      BY <2>0, <1>0, <3>1
    <3>3. {p \in visited : p >= o} = {o}
      <4>1. \A p \in visited : p <= o
        BY <2>1
      <4>2. \A p \in visited : p >= o <=> p = o
        BY <2>0, <4>1
      <4> QED BY <4>2
    <3> QED BY <3>2, <3>3
  <2>2. CASE o \notin lasts /\ next[o] \notin stops
    <3>1. f[o] = own[o] \cup From(next[o])
      BY <2>0, <2>2, <1>0, <1>1
    <3>2. next[o] > o
      BY <2>0, <2>2 DEF Onward
    <3>3. next[o] \in 0..N
      BY <2>0, <2>2 DEF Onward
    <3>4. {p \in visited : p >= o} = {o} \cup {p \in visited : p >= next[o]}
      <4>1. next[o] \in visited /\ \A p \in visited : p > o => p >= next[o]
        BY <2>2
      <4>2. \A p \in visited : p >= o <=> p = o \/ p >= next[o]
        BY <2>0, <3>2, <3>3, <4>1
      <4> QED BY <4>2
    <3> QED BY <3>1, <3>4
  <2> QED BY <2>1, <2>2
<1>2. 0 \in T
  <2> SUFFICES ASSUME NEW o \in visited, o >= N - 0 PROVE f[o] = From(o)
    OBVIOUS
  <2>1. o \notin lasts /\ next[o] \notin stops => FALSE
    <3>1. o \in 0..N /\ o \notin stops /\ o >= N
      OBVIOUS
    <3>2. o \notin lasts => next[o] \in 0..N /\ next[o] > o
      BY <3>1 DEF Onward
    <3> QED BY <3>1, <3>2
  <2> HIDE DEF From
  <2> QED BY <2>1, <1>1
<1>3. ASSUME NEW n \in Nat, n \in T PROVE n + 1 \in T
  <2> HIDE DEF From
  <2> SUFFICES ASSUME NEW o \in visited, o >= N - (n + 1) PROVE f[o] = From(o)
    OBVIOUS
  <2>1. o \notin lasts /\ next[o] \notin stops => next[o] \in visited /\ next[o] >= N - n
    <3>1. o \in 0..N /\ o \notin stops /\ o >= N - n - 1
      OBVIOUS
    <3>2. o \notin lasts => next[o] \in 0..N /\ next[o] > o
      BY <3>1 DEF Onward
    <3>3. o \notin lasts /\ next[o] \notin stops => next[o] \in visited
      OBVIOUS
    <3> QED BY <3>1, <3>2, <3>3
  <2>2. o \notin lasts /\ next[o] \notin stops => f[next[o]] = From(next[o])
    BY <2>1, <1>3
  <2> QED BY <2>2, <1>1
<1>4. N \in T
  <2>1. \A n \in Nat : n \in T
    <3> HIDE DEF T
    <3> QED BY <1>2, <1>3, SetInduction
  <2> HIDE DEF T
  <2> QED BY <2>1
<1>5. \A o \in visited : o >= N - N
  OBVIOUS
<1> HIDE DEF From
<1>6. \A o \in visited : f[o] = From(o)
  BY <1>4, <1>5
<1> QED BY <1>6 DEF From
-------------------------------------------------------------------------------
(* The sums of the first numbers of a sequence.                            *)
Sums(f, N, own) == f = [n \in 0..N |-> IF n = 0 THEN 0 ELSE f[n - 1] + own[n]]

LEMMA SumsExist ==
  ASSUME NEW N \in Nat, NEW own, \A n \in 1..N : own[n] \in Nat
  PROVE  \E f : Sums(f, N, own)
<1> DEFINE Value(f, n) == IF n = 0 THEN 0 ELSE f[n - 1] + own[n]
           T == {m \in Nat : \E f : f = [n \in 0..N |-> f[n]]
                                    /\ \A n \in 0..N : n <= m => f[n] = Value(f, n)}
<1>1. 0 \in T
  <2> DEFINE g == [n \in 0..N |-> 0]
  <2>1. g = [n \in 0..N |-> g[n]]
    OBVIOUS
  <2>2. \A n \in 0..N : n <= 0 => g[n] = Value(g, n)
    OBVIOUS
  <2> QED BY <2>1, <2>2
<1>2. ASSUME NEW m \in Nat, m \in T PROVE m + 1 \in T
  <2>1. PICK f : f = [n \in 0..N |-> f[n]] /\ \A n \in 0..N : n <= m => f[n] = Value(f, n)
    BY <1>2
  <2> DEFINE g == [n \in 0..N |-> IF n = m + 1 THEN Value(f, n) ELSE f[n]]
  <2>2. g = [n \in 0..N |-> g[n]]
    OBVIOUS
  <2>3. ASSUME NEW n \in 0..N, n <= m + 1 PROVE g[n] = Value(g, n)
    <3>1. g[n] = Value(f, n)
      <4>1. n # m + 1 => n <= m
        BY <2>3
      <4>2. n # m + 1 => f[n] = Value(f, n)
        BY <2>1, <4>1
      <4> HIDE DEF Value
      <4> QED BY <4>2
    <3>2. n # 0 => g[n - 1] = f[n - 1]
      <4>1. n # 0 => n - 1 \in 0..N /\ n - 1 # m + 1
        BY <2>3
      <4> QED BY <4>1
    <3> QED BY <3>1, <3>2
  <2> HIDE DEF g, Value
  <2> QED BY <2>2, <2>3
<1>3. N \in T
  <2>1. \A n \in Nat : n \in T
    <3> HIDE DEF T
    <3> QED BY <1>1, <1>2, SetInduction
  <2> HIDE DEF T
  <2> QED BY <2>1
<1>4. PICK f : f = [n \in 0..N |-> f[n]] /\ \A n \in 0..N : n <= N => f[n] = Value(f, n)
  BY <1>3
<1>5. \A n \in 0..N : f[n] = Value(f, n)
  <2>1. \A n \in 0..N : n <= N
    OBVIOUS
  <2> HIDE DEF Value
  <2> QED BY <1>4, <2>1
<1>6. f = [n \in 0..N |-> Value(f, n)]
  <2> HIDE DEF Value
  <2> QED BY <1>4, <1>5
<1> QED BY <1>6 DEF Sums

LEMMA SumsSteps ==
  ASSUME NEW N \in Nat, NEW own, \A n \in 1..N : own[n] \in Nat,
         NEW f, Sums(f, N, own)
  PROVE  /\ f[0] = 0
         /\ \A n \in 0..N : f[n] \in Nat
         /\ \A n \in 1..N : f[n] = f[n - 1] + own[n]
         /\ \A m \in 0..N, n \in 0..N : m <= n => f[m] <= f[n]
<1>1. \A n \in 0..N : f[n] = IF n = 0 THEN 0 ELSE f[n - 1] + own[n]
  BY DEF Sums
<1>2. f[0] = 0 /\ \A n \in 1..N : f[n] = f[n - 1] + own[n]
  BY <1>1
<1> DEFINE T == {n \in Nat : n <= N => f[n] \in Nat /\ \A m \in 0..n : f[m] \in Nat /\ f[m] <= f[n]}
<1>3. 0 \in T
  BY <1>2
<1>4. ASSUME NEW n \in Nat, n \in T PROVE n + 1 \in T
  <2> SUFFICES ASSUME n + 1 <= N
               PROVE  f[n + 1] \in Nat /\ \A m \in 0..n + 1 : f[m] \in Nat /\ f[m] <= f[n + 1]
    OBVIOUS
  <2>1. n + 1 \in 1..N /\ n + 1 - 1 = n
    OBVIOUS
  <2>2. f[n + 1] = f[n] + own[n + 1] /\ own[n + 1] \in Nat
    BY <1>2, <2>1
  <2>3. f[n] \in Nat /\ \A m \in 0..n : f[m] \in Nat /\ f[m] <= f[n]
    BY <1>4
  <2>4. f[n + 1] \in Nat
    BY <2>2, <2>3
  <2>5. ASSUME NEW m \in 0..n + 1 PROVE f[m] \in Nat /\ f[m] <= f[n + 1]
    <3>1. CASE m = n + 1
      BY <2>4, <3>1
    <3>2. CASE m # n + 1
      <4>1. m \in 0..n
        BY <3>2
      <4> QED BY <4>1, <2>2, <2>3
    <3> QED BY <3>1, <3>2
  <2> QED BY <2>4, <2>5
<1>5. \A n \in Nat : n \in T
  <2> HIDE DEF T
  <2> QED BY <1>3, <1>4, SetInduction
<1>6. \A n \in 0..N : f[n] \in Nat /\ \A m \in 0..n : f[m] <= f[n]
  BY <1>5
<1> QED BY <1>2, <1>6
===============================================================================
