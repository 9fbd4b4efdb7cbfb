----------------------------- MODULE DemuxerProofs -----------------------------
(***************************************************************************)
(* What a Demuxer promises its callers, for files of any boxes, any limits *)
(* and pieces of any length. Whatever is called: the samples come once     *)
(* each and in the order they were located in, and the first wanted offset *)
(* goes back only where samples are located or the reading resumes. For    *)
(* the callers of the documentation: no piece is refused, and the          *)
(* sequential one loses nothing of its input that is wanted later.         *)
(***************************************************************************)
EXTENDS DemuxerCallers, SequenceLemmas

(* WHERE SAMPLES LIE                                                       *)

LEMMA Positions ==
  MaxPosition \in Nat
BY StructureAssumption

LEMMA ShiftedIs ==
  ASSUME NEW offset \in Int, NEW origin \in Int, NEW where \in Int
  PROVE  Shifted(offset, origin, where) \in Int
<1>1. PICK past : past = Max({offset - origin, 0})
  OBVIOUS
<1>2. past \in Int
  <2>1. offset - origin \in Int /\ 0 \in Int
    OBVIOUS
  <2> QED BY <1>1, <2>1, OfTwo
<1>3. where + past \in Int /\ MaxPosition \in Int
  BY <1>2, Positions
<1>4. Min({where + past, MaxPosition}) \in Int
  BY <1>3, OfTwo
<1> QED BY <1>1, <1>4 DEF Shifted, Sum

LEMMA SumIs ==
  ASSUME NEW a \in Int, NEW b \in Int
  PROVE  Sum(a, b) \in Int
<1>1. a + b \in Int /\ MaxPosition \in Int
  BY Positions
<1> QED BY <1>1, OfTwo DEF Sum

(* A sample as the reader locates it: all its fields, the places numbers.  *)
IsPlaced(sample) ==
  /\ sample = [track |-> sample.track, time |-> sample.time, counts |-> sample.counts,
               here |-> sample.here, start |-> sample.start, end |-> sample.end]
  /\ sample.start \in Int
  /\ sample.end \in Int

AllPlaced(samples) == Sequence(samples) /\ \A k \in 1..Len(samples) : IsPlaced(samples[k])

LEMMA NoElement ==
  Sequence(<<>>) /\ Len(<<>>) = 0
<1>1. <<>> = [i \in 1..0 |-> <<>>[i]]
  BY EmptySeq
<1> QED BY <1>1, SequenceOfAny

LEMMA NonePlaced ==
  AllPlaced(<<>>)
BY NoElement DEF AllPlaced

LEMMA ConcatPlaced ==
  ASSUME NEW s, AllPlaced(s), NEW t, AllPlaced(t)
  PROVE  AllPlaced(s \o t)
<1>1. Sequence(s) /\ Sequence(t)
  BY DEF AllPlaced
<1>2. PICK all : all = s \o t
  OBVIOUS
<1>3. /\ Sequence(all) /\ Len(all) = Len(s) + Len(t) /\ Len(s) \in Nat /\ Len(t) \in Nat
      /\ \A i \in 1..Len(s) : all[i] = s[i]
      /\ \A i \in 1..Len(t) : all[Len(s) + i] = t[i]
  BY ONLY <1>1, <1>2, ConcatAny
<1>4. ASSUME NEW k \in 1..Len(all) PROVE IsPlaced(all[k])
  <2>1. CASE k \in 1..Len(s)
    BY <1>3, <2>1 DEF AllPlaced
  <2>2. CASE ~(k \in 1..Len(s))
    <3>1. k - Len(s) \in 1..Len(t) /\ k = Len(s) + (k - Len(s))
      BY <1>3, <2>2
    <3>2. all[k] = t[k - Len(s)]
      BY <1>3, <3>1
    <3> QED BY <3>1, <3>2 DEF AllPlaced
  <2> QED BY <2>1, <2>2
<1> QED BY <1>2, <1>3, <1>4 DEF AllPlaced

LEMMA PickedPlaced ==
  ASSUME NEW s, AllPlaced(s), NEW P, P \subseteq DOMAIN s
  PROVE  AllPlaced(Picked(s, P))
<1>1. Sequence(s) /\ DOMAIN s = 1..Len(s)
  BY SequenceShape DEF AllPlaced
<1>2. PICK new : new = Picked(s, P)
  OBVIOUS
<1>3. /\ Sequence(new) /\ Len(new) = Cardinality(P)
      /\ \A k \in 1..Cardinality(P) : Nth(P, k) \in P /\ new[k] = s[Nth(P, k)]
  BY <1>1, <1>2, PickedIs
<1>4. ASSUME NEW k \in 1..Len(new) PROVE IsPlaced(new[k])
  BY <1>1, <1>3 DEF AllPlaced
<1> QED BY <1>2, <1>3, <1>4 DEF AllPlaced

LEMMA EachPlaced ==
  ASSUME NEW N \in Nat, NEW t, t = [k \in 1..N |-> t[k]], \A k \in 1..N : IsPlaced(t[k])
  PROVE  AllPlaced(t)
BY SequenceOfAny DEF AllPlaced

LEMMA LocatedPlaced ==
  ASSUME NEW sample, IsPlaced(sample), NEW payload \in Int
  PROVE  IsPlaced(Located(sample, payload))
<1>1. PICK new : new = Located(sample, payload)
  OBVIOUS
<1>2. new = [track |-> sample.track, time |-> sample.time, counts |-> None, here |-> sample.here,
             start |-> sample.start + payload, end |-> sample.end + payload]
  BY <1>1 DEF Located, IsPlaced
<1>3. sample.start + payload \in Int /\ sample.end + payload \in Int
  BY DEF IsPlaced
<1> QED BY <1>1, <1>2, <1>3 DEF IsPlaced

LEMMA InsertedPlaced ==
  ASSUME NEW s, AllPlaced(s), NEW n \in 0..Len(s), NEW sample, IsPlaced(sample)
  PROVE  AllPlaced(InsertAt(s, n + 1, sample))
<1>1. Sequence(s) /\ Len(s) \in Nat
  BY SequenceShape DEF AllPlaced
<1>2. PICK first, new : first = n + 1 /\ new = InsertAt(s, first, sample)
  OBVIOUS
<1>3. first \in Nat /\ first >= 1 /\ first <= Len(s) + 1
  BY <1>1, <1>2
<1>4. /\ Sequence(new) /\ Len(new) = Len(s) + 1
      /\ \A k \in 1..Len(s) : k < first => new[k] = s[k]
      /\ new[first] = sample
      /\ \A k \in 1..Len(s) : k >= first => new[k + 1] = s[k]
  BY <1>1, <1>2, <1>3, InsertAtAny
<1>5. ASSUME NEW k \in 1..Len(new) PROVE IsPlaced(new[k])
  <2>1. CASE k < first
    <3>1. k \in 1..Len(s)
      BY <1>1, <1>3, <1>4, <2>1
    <3> QED BY <1>4, <2>1, <3>1 DEF AllPlaced
  <2>2. CASE k = first
    BY <1>4, <2>2
  <2>3. CASE k > first
    <3>1. k - 1 \in 1..Len(s) /\ k - 1 >= first /\ k - 1 + 1 = k
      BY <1>1, <1>3, <1>4, <2>3
    <3>2. new[k - 1 + 1] = s[k - 1]
      BY <1>4, <3>1
    <3> QED BY <3>1, <3>2 DEF AllPlaced
  <2> QED BY <1>1, <1>3, <1>4, <2>1, <2>2, <2>3
<1> QED BY <1>2, <1>4, <1>5 DEF AllPlaced

(* in_file_order leaves the samples it is given, in another order.         *)
LEMMA InOrderPlaced ==
  ASSUME NEW samples, AllPlaced(samples)
  PROVE  AllPlaced(InFileOrder(samples))
<1>1. PICK N \in Nat : N = Len(samples) /\ DOMAIN samples = 1..N
  BY SequenceShape DEF AllPlaced
<1> DEFINE Behind(prior, sample) ==
             Cardinality({k \in DOMAIN prior : ~Earlier(sample, prior[k])})
           Value(f, n) ==
             IF n = 0 THEN <<>>
             ELSE InsertAt(f[n - 1], Behind(f[n - 1], samples[n]) + 1, samples[n])
           Steps(f) == [n \in 0..N |-> Value(f, n)]
           sorted == CHOOSE f : f = Steps(f)
           T == {m \in Nat : \E f : f = [n \in 0..N |-> f[n]]
                                    /\ \A n \in 0..N : n <= m => f[n] = Value(f, n)}
<1>4. 0 \in T
  <2> DEFINE g == [n \in 0..N |-> <<>>]
  <2>1. g = [n \in 0..N |-> g[n]]
    OBVIOUS
  <2>2. \A n \in 0..N : n <= 0 => g[n] = Value(g, n)
    OBVIOUS
  <2> QED BY <2>1, <2>2
<1>5. ASSUME NEW m \in Nat, m \in T PROVE m + 1 \in T
  <2>1. PICK f : f = [n \in 0..N |-> f[n]] /\ \A n \in 0..N : n <= m => f[n] = Value(f, n)
    BY <1>5
  <2> DEFINE g == [n \in 0..N |-> IF n = m + 1 THEN Value(f, n) ELSE f[n]]
  <2>2. g = [n \in 0..N |-> g[n]]
    OBVIOUS
  <2>3. ASSUME NEW n \in 0..N, n <= m + 1 PROVE g[n] = Value(g, n)
    <3>1. g[n] = Value(f, n)
      <4>1. n # m + 1 => n <= m
        BY <2>3
      <4>2. n # m + 1 => f[n] = Value(f, n)
        BY <2>1, <4>1
      <4> HIDE DEF Value
      <4> QED BY <4>2
    <3>2. n # 0 => g[n - 1] = f[n - 1]
      <4>1. n # 0 => n - 1 \in 0..N /\ n - 1 # m + 1
        BY <2>3
      <4> HIDE DEF Value
      <4> QED BY <4>1
    <3> HIDE DEF g, Behind
    <3> QED BY <3>1, <3>2
  <2> HIDE DEF g, Value
  <2> QED BY <2>2, <2>3
<1>6. N \in T
  <2>1. \A n \in Nat : n \in T
    <3> HIDE DEF T
    <3> QED BY <1>4, <1>5, SetInduction
  <2> HIDE DEF T
  <2> QED BY <2>1
<1>7. \E f : f = Steps(f)
  <2>1. PICK f : f = [n \in 0..N |-> f[n]] /\ \A n \in 0..N : n <= N => f[n] = Value(f, n)
    BY <1>6
  <2>2. \A n \in 0..N : n <= N
    OBVIOUS
  <2>3. f = [n \in 0..N |-> Value(f, n)]
    <3> HIDE DEF Value
    <3> QED BY <2>1, <2>2
  <2> QED BY <2>3
<1>8. sorted = Steps(sorted)
  <2> HIDE DEF Steps
  <2> QED BY <1>7
<1>9. InFileOrder(samples) = sorted[N]
  BY <1>1, Zenon DEF InFileOrder
<1> HIDE DEF sorted, T
<1>10. \A n \in 0..N : sorted[n] = Value(sorted, n)
  <2> HIDE DEF Value
  <2> QED BY <1>8
<1>11. sorted[0] = <<>>
  <2>1. 0 \in 0..N
    BY <1>1
  <2> QED BY <1>10, <2>1
<1>12. \A n \in 1..N :
         sorted[n] = InsertAt(sorted[n - 1], Behind(sorted[n - 1], samples[n]) + 1, samples[n])
  <2>1. \A n \in 1..N : n \in 0..N /\ n # 0
    BY <1>1
  <2> HIDE DEF Behind
  <2> QED BY <1>10, <2>1
<1> DEFINE U == {n \in Nat : n <= N => AllPlaced(sorted[n])}
<1>13. 0 \in U
  BY <1>11, NonePlaced
<1>14. ASSUME NEW n \in Nat, n \in U PROVE n + 1 \in U
  <2> SUFFICES ASSUME n + 1 <= N PROVE AllPlaced(sorted[n + 1])
    OBVIOUS
  <2>1. n + 1 \in 1..N /\ n + 1 - 1 = n /\ n <= N
    BY <1>1
  <2>2. PICK prior, place : prior = sorted[n] /\ place = Behind(prior, samples[n + 1])
    OBVIOUS
  <2>3. sorted[n + 1] = InsertAt(prior, place + 1, samples[n + 1])
    <3> HIDE DEF Behind
    <3> QED BY <1>12, <2>1, <2>2
  <2>4. AllPlaced(prior) /\ IsPlaced(samples[n + 1])
    BY <1>1, <1>14, <2>1, <2>2 DEF AllPlaced
  <2>5. place \in 0..Len(prior)
    <3>1. Len(prior) \in Nat /\ DOMAIN prior = 1..Len(prior)
      BY <2>4, SequenceShape DEF AllPlaced
    <3> DEFINE P == {k \in DOMAIN prior : ~Earlier(samples[n + 1], prior[k])}
    <3>2. P \subseteq 1..Len(prior) /\ place = Cardinality(P)
      BY <2>2, <3>1
    <3> HIDE DEF P
    <3>3. Cardinality(P) \in Nat /\ Cardinality(P) <= Len(prior)
      BY <3>1, <3>2, PlacesFinite
    <3> QED BY <3>1, <3>2, <3>3
  <2> QED BY <2>3, <2>4, <2>5, InsertedPlaced
<1>15. N \in U
  <2>1. \A n \in Nat : n \in U
    <3> HIDE DEF U
    <3> QED BY <1>13, <1>14, SetInduction
  <2> HIDE DEF U
  <2> QED BY <1>1, <2>1
<1>16. AllPlaced(sorted[N])
  <2>1. N <= N
    BY <1>1
  <2> QED BY <1>15, <2>1
<1> QED BY <1>9, <1>16

-------------------------------------------------------------------------------
(* THE COMPRESSED BOXES                                                    *)

IsRecord(c) ==
  c = [boxes |-> c.boxes, locatedEnd |-> c.locatedEnd, resumed |-> c.resumed,
       transformed |-> c.transformed]

AnyCompressed ==
  [offset : Int, length : Int, readBackOffset : Int, readBackLength : Int]

Recording(c) == IsRecord(c) /\ c.boxes \in Seq(AnyCompressed)

LEMMA EndsAre ==
  ASSUME NEW box \in AnyCompressed
  PROVE  EndOf(box) \in Int /\ ReadBackEnd(box) \in Int
<1>1. /\ box.offset \in Int /\ box.length \in Int
      /\ box.readBackOffset \in Int /\ box.readBackLength \in Int
  BY DEF AnyCompressed
<1> QED BY <1>1, SumIs DEF EndOf, ReadBackEnd

LEMMA UncompressedIs ==
  ASSUME NEW boxes \in Seq(AnyCompressed), NEW offset \in Int
  PROVE  Uncompressed(boxes, offset) \in Int
<1>1. Len(boxes) \in Nat /\ DOMAIN boxes = 1..Len(boxes)
  OBVIOUS
<1> DEFINE firsts == {i \in DOMAIN boxes : EndOf(boxes[i]) <= offset}
<1>2. PICK n : n = Cardinality(firsts)
  OBVIOUS
<1>3. n \in Nat /\ n <= Len(boxes)
  <2>1. firsts \subseteq 1..Len(boxes)
    BY <1>1
  <2> HIDE DEF firsts
  <2> QED BY <1>1, <1>2, <2>1, PlacesFinite
<1>4. Uncompressed(boxes, offset)
        = IF n = 0 THEN offset ELSE Shifted(offset, EndOf(boxes[n]), ReadBackEnd(boxes[n]))
  BY <1>2, Zenon DEF Uncompressed, Count
<1>5. n # 0 => EndOf(boxes[n]) \in Int /\ ReadBackEnd(boxes[n]) \in Int
  <2>1. n # 0 => n \in 1..Len(boxes)
    BY <1>1, <1>3
  <2>2. n # 0 => boxes[n] \in AnyCompressed
    BY <2>1
  <2> QED BY <2>2, EndsAre
<1> QED BY <1>4, <1>5, ShiftedIs

LEMMA InFileIs ==
  ASSUME NEW boxes \in Seq(AnyCompressed), NEW range, range.start \in Int, range.end \in Int
  PROVE  InFile(boxes, range).start \in Int /\ InFile(boxes, range).end \in Int
<1>1. Len(boxes) \in Nat /\ DOMAIN boxes = 1..Len(boxes)
  OBVIOUS
<1> DEFINE firsts == {i \in DOMAIN boxes : ReadBackEnd(boxes[i]) <= range.start}
<1>2. PICK n : n = Cardinality(firsts)
  OBVIOUS
<1>3. n \in Nat /\ n <= Len(boxes)
  <2>1. firsts \subseteq 1..Len(boxes)
    BY <1>1
  <2> HIDE DEF firsts
  <2> QED BY <1>1, <1>2, <2>1, PlacesFinite
<1>4. PICK first, last : /\ first = Shifted(range.start, ReadBackEnd(boxes[n]), EndOf(boxes[n]))
                         /\ last = Shifted(range.end, ReadBackEnd(boxes[n]), EndOf(boxes[n]))
  OBVIOUS
<1>5. \/ InFile(boxes, range) = Nowhere
      \/ InFile(boxes, range) = range
      \/ n # 0 /\ InFile(boxes, range) = [start |-> first, end |-> last]
  BY <1>2, <1>4, Zenon DEF InFile, Count
<1>6. n # 0 => first \in Int /\ last \in Int
  <2>1. n # 0 => n \in 1..Len(boxes)
    BY <1>1, <1>3
  <2>2. n # 0 => boxes[n] \in AnyCompressed
    BY <2>1
  <2> QED BY <1>4, <2>2, EndsAre, ShiftedIs
<1>7. CASE InFile(boxes, range) = Nowhere
  BY <1>7 DEF Nowhere
<1>8. CASE n # 0 /\ InFile(boxes, range) = [start |-> first, end |-> last]
  BY <1>6, <1>8
<1> QED BY <1>5, <1>7, <1>8

(* What Placed counts for box i, from what `place` counts for the others.  *)
PlaceFrom(kept, first, place, i) ==
  IF i < first THEN kept[i].readBackOffset
  ELSE IF i = 1 THEN kept[i].offset
  ELSE Shifted(kept[i].offset, EndOf(kept[i - 1]),
               Sum(place[i - 1], kept[i - 1].readBackLength))

LEMMA PlacesExist ==
  ASSUME NEW kept \in Seq(AnyCompressed), NEW first \in Nat
  PROVE  \E place \in [1..Len(kept) -> Int] :
           place = [i \in 1..Len(kept) |-> PlaceFrom(kept, first, place, i)]
<1>1. PICK N \in Nat : N = Len(kept) /\ \A i \in 1..N : kept[i] \in AnyCompressed
  OBVIOUS
<1> DEFINE T == {m \in Nat : \E f \in [1..N -> Int] :
                   \A i \in 1..N : i <= m => f[i] = PlaceFrom(kept, first, f, i)}
<1>2. 0 \in T
  <2>1. [i \in 1..N |-> 0] \in [1..N -> Int]
    OBVIOUS
  <2>2. \A i \in 1..N : ~(i <= 0)
    OBVIOUS
  <2> QED BY <2>1, <2>2
<1>3. ASSUME NEW f \in [1..N -> Int], NEW i \in 1..N PROVE PlaceFrom(kept, first, f, i) \in Int
  <2>1. kept[i].readBackOffset \in Int /\ kept[i].offset \in Int
    BY <1>1 DEF AnyCompressed
  <2>2. i # 1 => Shifted(kept[i].offset, EndOf(kept[i - 1]),
                         Sum(f[i - 1], kept[i - 1].readBackLength)) \in Int
    <3> SUFFICES ASSUME i # 1
                 PROVE  Shifted(kept[i].offset, EndOf(kept[i - 1]),
                                Sum(f[i - 1], kept[i - 1].readBackLength)) \in Int
      OBVIOUS
    <3>1. i - 1 \in 1..N
      OBVIOUS
    <3>2. kept[i - 1] \in AnyCompressed /\ f[i - 1] \in Int
      BY <1>1, <3>1
    <3>3. EndOf(kept[i - 1]) \in Int /\ kept[i - 1].readBackLength \in Int
      BY <3>2, EndsAre DEF AnyCompressed
    <3>4. Sum(f[i - 1], kept[i - 1].readBackLength) \in Int
      BY <3>2, <3>3, SumIs
    <3> QED BY <2>1, <3>3, <3>4, ShiftedIs
  <2> QED BY <2>1, <2>2 DEF PlaceFrom
<1>4. ASSUME NEW m \in Nat, m \in T PROVE m + 1 \in T
  <2>1. PICK f \in [1..N -> Int] : \A i \in 1..N : i <= m => f[i] = PlaceFrom(kept, first, f, i)
    BY <1>4
  <2> DEFINE g == [i \in 1..N |-> IF i = m + 1 THEN PlaceFrom(kept, first, f, i) ELSE f[i]]
  <2>2. g \in [1..N -> Int]
    BY <1>3
  <2>3. ASSUME NEW i \in 1..N, i <= m + 1 PROVE g[i] = PlaceFrom(kept, first, g, i)
    <3>1. g[i] = PlaceFrom(kept, first, f, i)
      <4>1. i # m + 1 => i <= m
        BY <2>3
      <4> QED BY <2>1, <4>1
    <3>2. i # 1 => g[i - 1] = f[i - 1]
      <4>1. i # 1 => i - 1 \in 1..N /\ i - 1 # m + 1
        BY <2>3
      <4> QED BY <4>1
    <3> HIDE DEF g
    <3> QED BY <3>1, <3>2 DEF PlaceFrom
  <2> HIDE DEF g
  <2> QED BY <2>2, <2>3
<1>5. N \in T
  <2>1. \A n \in Nat : n \in T
    <3> HIDE DEF T
    <3> QED BY <1>2, <1>4, SetInduction
  <2> HIDE DEF T
  <2> QED BY <2>1
<1>6. PICK f \in [1..N -> Int] : \A i \in 1..N : i <= N => f[i] = PlaceFrom(kept, first, f, i)
  BY <1>5
<1>7. \A i \in 1..N : f[i] = PlaceFrom(kept, first, f, i)
  BY <1>6
<1>8. f = [i \in 1..N |-> PlaceFrom(kept, first, f, i)]
  BY <1>7
<1> QED BY <1>1, <1>8

LEMMA PlacedIs ==
  ASSUME NEW kept \in Seq(AnyCompressed), NEW first \in Nat
  PROVE  Placed(kept, first) \in Seq(AnyCompressed)
<1>1. PICK N \in Nat : /\ N = Len(kept) /\ DOMAIN kept = 1..N
                       /\ \A i \in 1..N : kept[i] \in AnyCompressed
  OBVIOUS
<1> DEFINE Steps(f) == [i \in DOMAIN kept |->
                        IF i < first THEN kept[i].readBackOffset
                        ELSE IF i = 1 THEN kept[i].offset
                        ELSE Shifted(kept[i].offset, EndOf(kept[i - 1]),
                                     Sum(f[i - 1], kept[i - 1].readBackLength))]
           place == CHOOSE f : f = Steps(f)
<1>2. \A f : Steps(f) = [i \in 1..N |-> PlaceFrom(kept, first, f, i)]
  BY <1>1 DEF PlaceFrom
<1>3. place = Steps(place)
  <2>1. \E f : f = [i \in 1..N |-> PlaceFrom(kept, first, f, i)]
    BY <1>1, PlacesExist
  <2>2. \E f : f = Steps(f)
    <3> HIDE DEF Steps
    <3> QED BY <1>2, <2>1
  <2> HIDE DEF Steps
  <2> QED BY <2>2
<1>4. Placed(kept, first) = [i \in DOMAIN kept |-> [kept[i] EXCEPT !.readBackOffset = place[i]]]
  BY DEF Placed
<1> HIDE DEF place, Steps
<1>5. \A i \in 1..N : place[i] = PlaceFrom(kept, first, place, i)
  BY <1>2, <1>3
<1> DEFINE T == {n \in Nat : n \in 1..N => place[n] \in Int}
<1>6. 0 \in T
  OBVIOUS
<1>7. ASSUME NEW n \in Nat, n \in T PROVE n + 1 \in T
  <2> SUFFICES ASSUME n + 1 \in 1..N PROVE place[n + 1] \in Int
    OBVIOUS
  <2>1. PICK i \in 1..N : i = n + 1
    OBVIOUS
  <2>2. kept[i].readBackOffset \in Int /\ kept[i].offset \in Int
    BY <1>1 DEF AnyCompressed
  <2>3. i # 1 => Shifted(kept[i].offset, EndOf(kept[i - 1]),
                         Sum(place[i - 1], kept[i - 1].readBackLength)) \in Int
    <3> SUFFICES ASSUME i # 1
                 PROVE  Shifted(kept[i].offset, EndOf(kept[i - 1]),
                                Sum(place[i - 1], kept[i - 1].readBackLength)) \in Int
      OBVIOUS
    <3>1. i - 1 \in 1..N /\ i - 1 = n
      BY <1>1, <2>1
    <3>2. kept[i - 1] \in AnyCompressed /\ place[i - 1] \in Int
      BY <1>1, <1>7, <3>1
    <3>3. EndOf(kept[i - 1]) \in Int /\ kept[i - 1].readBackLength \in Int
      BY <3>2, EndsAre DEF AnyCompressed
    <3>4. Sum(place[i - 1], kept[i - 1].readBackLength) \in Int
      BY <3>2, <3>3, SumIs
    <3> QED BY <2>2, <3>3, <3>4, ShiftedIs
  <2>4. place[i] = PlaceFrom(kept, first, place, i)
    BY <1>5
  <2>5. place[i] \in Int
    BY <2>2, <2>3, <2>4 DEF PlaceFrom
  <2> QED BY <2>1, <2>5
<1>8. \A n \in 1..N : place[n] \in Int
  <2>1. \A n \in Nat : n \in T
    <3> HIDE DEF T
    <3> QED BY <1>6, <1>7, SetInduction
  <2> QED BY <1>1, <2>1
<1>9. \A i \in 1..N : [kept[i] EXCEPT !.readBackOffset = place[i]] \in AnyCompressed
  BY <1>1, <1>8 DEF AnyCompressed
<1>10. [i \in 1..N |-> [kept[i] EXCEPT !.readBackOffset = place[i]]] \in Seq(AnyCompressed)
  BY <1>9
<1> QED BY <1>1, <1>4, <1>10

LEMMA RecordIs ==
  ASSUME NEW c, Recording(c), NEW offset \in Int, NEW length \in Int, NEW back \in Int
  PROVE  Recording(Record(c, offset, length, back).record)
<1>1. PICK kept : kept = c.boxes
  OBVIOUS
<1>2. /\ kept \in Seq(AnyCompressed) /\ Len(kept) \in Nat /\ DOMAIN kept = 1..Len(kept)
  BY <1>1 DEF Recording
<1> DEFINE firsts == {k \in DOMAIN kept : kept[k].offset < offset}
<1>3. PICK n : n = Cardinality(firsts)
  OBVIOUS
<1>4. n \in Nat /\ n <= Len(kept)
  <2>1. firsts \subseteq 1..Len(kept)
    BY <1>2
  <2> HIDE DEF firsts
  <2> QED BY <1>2, <1>3, <2>1, PlacesFinite
<1>5. PICK box : box = [offset |-> offset, length |-> length,
                        readBackOffset |-> offset, readBackLength |-> back]
  OBVIOUS
<1>6. box \in AnyCompressed
  BY <1>5 DEF AnyCompressed
<1>7. PICK noted : noted = [c EXCEPT !.transformed = TRUE]
  OBVIOUS
<1>8. Recording(noted) /\ noted.boxes = kept
  BY <1>1, <1>7 DEF Recording, IsRecord
<1>9. PICK new : new = Placed(Inserted(kept, n + 1, box), n + 1)
  OBVIOUS
<1>10. new \in Seq(AnyCompressed)
  <2>1. n + 1 \in Nat
    BY <1>4
  <2>0. PICK place : place = n + 1
    OBVIOUS
  <2>2. PICK front, rest : front = SubSeq(kept, 1, place - 1) /\ rest = SubSeq(kept, place, Len(kept))
    OBVIOUS
  <2>3. front \in Seq(AnyCompressed) /\ rest \in Seq(AnyCompressed) /\ <<box>> \in Seq(AnyCompressed)
    BY <1>2, <1>4, <1>6, <2>0, <2>2
  <2>4. Inserted(kept, place, box) = (front \o <<box>>) \o rest
    BY <2>2 DEF Inserted, InsertAt
  <2>6. (front \o <<box>>) \o rest \in Seq(AnyCompressed)
    <3>1. PICK both : both = front \o <<box>>
      OBVIOUS
    <3>2. both \in Seq(AnyCompressed)
      BY <2>3, <3>1
    <3>3. both \o rest \in Seq(AnyCompressed)
      BY <2>3, <3>2
    <3> QED BY <3>1, <3>3
  <2>5. Inserted(kept, n + 1, box) \in Seq(AnyCompressed)
    BY <2>0, <2>4, <2>6, Zenon
  <2> QED BY <1>9, <2>1, <2>5, PlacedIs
<1>11. PICK more : more = [noted EXCEPT !.boxes = new]
  OBVIOUS
<1>12. Recording(more)
  BY <1>8, <1>10, <1>11 DEF Recording, IsRecord
<1>13. \A word, record : [answer |-> word, record |-> record].record = record
  OBVIOUS
<1>14. more = [noted EXCEPT !.boxes = Placed(Inserted(@, n + 1, box), n + 1)]
  BY <1>8, <1>9, <1>11
<1>15. \/ \E word : Record(c, offset, length, back) = [answer |-> word, record |-> noted]
       \/ Record(c, offset, length, back) = [answer |-> "ok", record |-> more]
  BY <1>1, <1>3, <1>5, <1>7, <1>14, Zenon DEF Record, Count
<1>16. \/ Record(c, offset, length, back).record = noted
       \/ Record(c, offset, length, back).record = more
  BY <1>13, <1>15, Zenon
<1> QED BY <1>8, <1>12, <1>16

-------------------------------------------------------------------------------
(* WHAT THE READER GIVES                                                   *)

IsReader(r) ==
  r = [movie |-> r.movie, times |-> r.times, leniencies |-> r.leniencies,
       identified |-> r.identified, waiting |-> r.waiting, indexes |-> r.indexes,
       randomAccess |-> r.randomAccess, compressed |-> r.compressed]

(* A reader, and what its calls give: what it counts places from, and the  *)
(* places of the samples, are numbers.                                     *)
Reading(r) ==
  /\ IsReader(r)
  /\ AllPlaced(r.waiting)
  /\ \A id \in DOMAIN r.identified : r.identified[id] \in Int
  /\ Recording(r.compressed)

Answers ==
  {"ok", "past limit", "out of range", "unknown track", "missing decoding time",
   "duplicate movie", "missing movie", "moved past skipped", "duplicate imda",
   "before located", "mfra with compressed"}

Gives(o) == o.answer \in Answers /\ Reading(o.reader) /\ AllPlaced(o.samples)

LEMMA AnswersAre ==
  /\ "ok" \in Answers /\ "past limit" \in Answers /\ "out of range" \in Answers
  /\ "unknown track" \in Answers /\ "missing decoding time" \in Answers
  /\ "duplicate movie" \in Answers /\ "missing movie" \in Answers
  /\ "moved past skipped" \in Answers /\ "duplicate imda" \in Answers
  /\ "before located" \in Answers /\ "mfra with compressed" \in Answers
BY DEF Answers

LEMMA AnswersAreNoOthers ==
  \A word \in Answers : word # "none" /\ word # "event" /\ word # "end"
BY DEF Answers

LEMMA OutcomeGives ==
  ASSUME NEW word \in Answers, NEW r, Reading(r), NEW samples, AllPlaced(samples)
  PROVE  Gives(Outcome(word, r, samples))
<1>1. \A w, q, s : /\ Outcome(w, q, s).answer = w
                   /\ Outcome(w, q, s).reader = q
                   /\ Outcome(w, q, s).samples = s
  BY DEF Outcome
<1> QED BY <1>1 DEF Gives

LEMMA RefusalGives ==
  ASSUME NEW word \in Answers, NEW r, Reading(r)
  PROVE  Gives(Refusal(word, r))
BY NonePlaced, OutcomeGives DEF Refusal

Resolving(r) ==
  /\ r = [answer |-> r.answer, times |-> r.times, leniencies |-> r.leniencies,
          samples |-> r.samples, first |-> r.first, previous |-> r.previous]
  /\ r.answer \in Answers
  /\ AllPlaced(r.samples)
  /\ r.previous.offset \in Int

(* What box declares of a run of samples, as far as their places go.       *)
IsRun(run) == run.sizes \in Seq(Nat) /\ run.offset \in Int

LEMMA BytesBeforeIs ==
  ASSUME NEW sizes \in Seq(Nat), NEW k \in 1..Len(sizes)
  PROVE  Contents!BytesBefore(sizes, k) \in Nat
<1>1. PICK N \in Nat : N = Len(sizes) /\ \A n \in 1..N : sizes[n] \in Nat
  OBVIOUS
<1> DEFINE first == CHOOSE f : f = [n \in 0..N |-> IF n = 0 THEN 0 ELSE f[n - 1] + sizes[n]]
<1>2. \A f : Sums(f, N, sizes) <=> f = [n \in 0..N |-> IF n = 0 THEN 0 ELSE f[n - 1] + sizes[n]]
  BY DEF Sums
<1>3. \E f : f = [n \in 0..N |-> IF n = 0 THEN 0 ELSE f[n - 1] + sizes[n]]
  BY <1>1, <1>2, SumsExist
<1>4. first = [n \in 0..N |-> IF n = 0 THEN 0 ELSE first[n - 1] + sizes[n]]
  BY <1>3
<1>5. Contents!BytesBefore(sizes, k) = first[k - 1]
  BY <1>1 DEF Contents!BytesBefore
<1> HIDE DEF first
<1>6. \A n \in 0..N : first[n] \in Nat
  BY <1>1, <1>2, <1>4, SumsSteps
<1>7. k - 1 \in 0..N
  BY <1>1
<1> QED BY <1>5, <1>6, <1>7

LEMMA SamplesPlaced ==
  ASSUME NEW run, IsRun(run), NEW time, NEW start \in Int, NEW counts
  PROVE  AllPlaced(Samples(run, time, start, counts))
<1>1. PICK N \in Nat : /\ N = Len(run.sizes) /\ DOMAIN run.sizes = 1..N
                       /\ \A k \in 1..N : run.sizes[k] \in Nat
  BY DEF IsRun
<1>2. PICK s : s = Samples(run, time, start, counts)
  OBVIOUS
<1>3. s = [k \in 1..N |-> s[k]]
  BY <1>1, <1>2 DEF Samples
<1>4. ASSUME NEW k \in 1..N PROVE IsPlaced(s[k])
  <2>1. PICK at : at = start + Contents!BytesBefore(run.sizes, k)
    OBVIOUS
  <2>2. at \in Int /\ at + run.sizes[k] \in Int
    <3>1. Contents!BytesBefore(run.sizes, k) \in Nat
      BY <1>1, BytesBeforeIs DEF IsRun
    <3> QED BY <1>1, <2>1, <3>1
  <2>3. s[k] = [track |-> run.track, time |-> time + k - 1, counts |-> counts, here |-> run.here,
                start |-> at, end |-> at + run.sizes[k]]
    BY <1>1, <1>2, <2>1 DEF Samples
  <2> QED BY <2>2, <2>3 DEF IsPlaced
<1> QED BY <1>2, <1>3, <1>4, EachPlaced

LEMMA BaseIs ==
  ASSUME NEW run, IsRun(run), NEW first, NEW prior, prior.offset \in Int, NEW moof \in Int
  PROVE  /\ BaseOf(run, first, prior, moof).offset \in Int
         /\ Start(run, BaseOf(run, first, prior, moof)) \in Int
<1>1. PICK base : base = BaseOf(run, first, prior, moof)
  OBVIOUS
<1>2. \/ \E counts, offset : offset \in {run.offset, moof, 0} /\ base = [counts |-> counts, offset |-> offset]
      \/ base = prior
  <2>1. run.offset \in {run.offset, moof, 0} /\ moof \in {run.offset, moof, 0}
        /\ (IF Counts(run) = None THEN moof ELSE 0) \in {run.offset, moof, 0}
    OBVIOUS
  <2> QED BY <1>1, <2>1, Zenon DEF BaseOf
<1>3. base.offset \in Int
  BY <1>2 DEF IsRun
<1>4. Start(run, base) \in Int
  BY <1>3 DEF Start, IsRun
<1> QED BY <1>1, <1>3, <1>4

LEMMA ResolveRunKeeps ==
  ASSUME NEW r, Resolving(r), NEW run, IsRun(run), NEW moof \in Int
  PROVE  Resolving(ResolveRun(r, run, moof))
<1>1. PICK new : new = ResolveRun(r, run, moof)
  OBVIOUS
<1>2. PICK reached : reached = r.times[run.track]
  OBVIOUS
<1>3. PICK time, base : /\ time = StartTime(run, reached)
                        /\ base = BaseOf(run, r.first, r.previous, moof)
  OBVIOUS
<1>4. PICK samples : samples = Samples(run, time, Start(run, base), base.counts)
  OBVIOUS
<1>5. PICK lenient : lenient = LeniencyOf(run, reached)
  OBVIOUS
<1>12. base.offset \in Int /\ Start(run, base) \in Int
  BY <1>3, BaseIs DEF Resolving
<1>6. AllPlaced(samples)
  BY <1>4, <1>12, SamplesPlaced
<1>7. AllPlaced(r.samples \o samples)
  BY <1>6, ConcatPlaced DEF Resolving
<1>13. PICK stop : stop = IF samples = <<>> THEN base.offset ELSE Last(samples).end
  OBVIOUS
<1>14. stop \in Int
  <2>1. Len(samples) \in Nat /\ DOMAIN samples = 1..Len(samples) /\ Sequence(samples)
    BY <1>6, SequenceShape DEF AllPlaced
  <2>2. samples # <<>> => Len(samples) \in 1..Len(samples)
    <3>1. Len(samples) = 0 => samples = <<>>
      BY <2>1, NoElement, EqualAny
    <3> QED BY <2>1, <3>1
  <2>3. samples # <<>> => samples[Len(samples)].end \in Int
    BY <1>6, <2>2 DEF AllPlaced, IsPlaced
  <2> QED BY <1>12, <1>13, <2>3 DEF Last
<1>8. \/ new = r
      \/ \E word \in Answers : new = [r EXCEPT !.answer = word]
      \/ \E prior, times : prior.offset \in Int /\ new = [r EXCEPT !.first = FALSE, !.previous = prior, !.times = times,
                                          !.leniencies = @ \o lenient, !.samples = @ \o samples]
  <2>1. CASE r.answer # "ok"
    BY <1>1, <2>1 DEF ResolveRun
  <2>2. CASE r.answer = "ok" /\ run.track \notin DOMAIN r.times
    BY <1>1, <2>2, AnswersAre DEF ResolveRun
  <2>3. CASE r.answer = "ok" /\ run.track \in DOMAIN r.times
    <3>2. PICK reaches : reaches = [time |-> time + (IF run.empty THEN 1 ELSE Len(samples)),
                                    afterSample |-> reached.afterSample \/ samples # <<>>]
      OBVIOUS
    <3>3. PICK prior : prior = [counts |-> base.counts, offset |-> stop]
      OBVIOUS
    <3>7. prior.offset \in Int
      BY <1>14, <3>3
    <3>4. new = IF time = None
                THEN [r EXCEPT !.answer = "missing decoding time"]
                ELSE IF samples # <<>> /\ (stop > MaxPosition \/ Start(run, base) < 0)
                THEN [r EXCEPT !.answer = "out of range"]
                ELSE [r EXCEPT !.first = FALSE, !.previous = prior,
                               !.times[run.track] = reaches,
                               !.leniencies = @ \o lenient, !.samples = @ \o samples]
      BY <1>1, <1>2, <1>3, <1>4, <1>5, <1>13, <2>3, <3>2, <3>3, Zenon DEF ResolveRun
    <3>5. PICK times : times = [r.times EXCEPT ![run.track] = reaches]
      OBVIOUS
    <3>6. [r EXCEPT !.first = FALSE, !.previous = prior, !.times[run.track] = reaches,
                    !.leniencies = @ \o lenient, !.samples = @ \o samples]
            = [r EXCEPT !.first = FALSE, !.previous = prior, !.times = times,
                        !.leniencies = @ \o lenient, !.samples = @ \o samples]
      BY <3>5 DEF Resolving
    <3> QED BY <3>4, <3>6, <3>7, AnswersAre, Zenon
  <2> QED BY <2>1, <2>2, <2>3
<1>9. CASE new = r
  BY <1>1, <1>9
<1>10. CASE \E word \in Answers : new = [r EXCEPT !.answer = word]
  <2>1. PICK word \in Answers : new = [r EXCEPT !.answer = word]
    BY <1>10
  <2>2. new = [answer |-> word, times |-> r.times, leniencies |-> r.leniencies,
               samples |-> r.samples, first |-> r.first, previous |-> r.previous]
    BY <2>1 DEF Resolving
  <2>3. new.answer = word /\ new.samples = r.samples /\ new.previous = r.previous
    BY <2>2
  <2> QED BY <1>1, <2>1, <2>2, <2>3 DEF Resolving
<1>11. CASE \E prior, times : prior.offset \in Int /\ new = [r EXCEPT !.first = FALSE, !.previous = prior, !.times = times,
                                          !.leniencies = @ \o lenient, !.samples = @ \o samples]
  <2>1. PICK prior, times : prior.offset \in Int /\ new = [r EXCEPT !.first = FALSE, !.previous = prior, !.times = times,
                                          !.leniencies = @ \o lenient, !.samples = @ \o samples]
    BY <1>11
  <2>2. PICK ls, ss : ls = r.leniencies \o lenient /\ ss = r.samples \o samples
    OBVIOUS
  <2>3. new = [answer |-> r.answer, times |-> times, leniencies |-> ls,
               samples |-> ss, first |-> FALSE, previous |-> prior]
    BY <2>1, <2>2 DEF Resolving
  <2>4. new.answer = r.answer /\ new.samples = ss /\ new.previous = prior
    BY <2>3
  <2> QED BY <1>1, <1>7, <2>1, <2>2, <2>3, <2>4 DEF Resolving
<1> QED BY <1>8, <1>9, <1>10, <1>11

(* The fold of resolve_fragment over the runs: what each run is resolved   *)
(* to is a sequence of samples.                                            *)
LEMMA ResolveIs ==
  ASSUME NEW times, NEW runs, Sequence(runs), \A j \in 1..Len(runs) : IsRun(runs[j]),
         NEW moof \in Int
  PROVE  Resolve(times, runs, moof).answer \in Answers /\ AllPlaced(Resolve(times, runs, moof).samples)
<1>1. PICK N \in Nat : N = Len(runs) /\ DOMAIN runs = 1..N
  BY SequenceShape
<1>2. PICK start : start = Unresolved(times, moof)
  OBVIOUS
<1>3. Resolving(start)
  <2>1. start = [answer |-> "ok", times |-> times, leniencies |-> <<>>, samples |-> <<>>,
                 first |-> TRUE, previous |-> [counts |-> None, offset |-> moof]]
    BY <1>2 DEF Unresolved
  <2>2. start.samples = <<>> /\ start.answer \in Answers /\ start.previous.offset = moof
    BY <2>1, AnswersAre
  <2>3. start = [answer |-> start.answer, times |-> start.times, leniencies |-> start.leniencies,
                 samples |-> start.samples, first |-> start.first, previous |-> start.previous]
    BY <2>1
  <2> QED BY <2>2, <2>3, NonePlaced DEF Resolving
<1> DEFINE Value(f, n) == IF n = 0 THEN start ELSE ResolveRun(f[n - 1], runs[n], moof)
           Steps(f) == [n \in 0..N |-> Value(f, n)]
           after == CHOOSE f : f = Steps(f)
           T == {m \in Nat : \E f : f = [n \in 0..N |-> f[n]]
                                    /\ \A n \in 0..N : n <= m => f[n] = Value(f, n)}
<1>4. 0 \in T
  <2> DEFINE g == [n \in 0..N |-> start]
  <2>1. g = [n \in 0..N |-> g[n]]
    OBVIOUS
  <2>2. \A n \in 0..N : n <= 0 => g[n] = Value(g, n)
    OBVIOUS
  <2> QED BY <2>1, <2>2
<1>5. ASSUME NEW m \in Nat, m \in T PROVE m + 1 \in T
  <2>1. PICK f : f = [n \in 0..N |-> f[n]] /\ \A n \in 0..N : n <= m => f[n] = Value(f, n)
    BY <1>5
  <2> DEFINE g == [n \in 0..N |-> IF n = m + 1 THEN Value(f, n) ELSE f[n]]
  <2>2. g = [n \in 0..N |-> g[n]]
    OBVIOUS
  <2>3. ASSUME NEW n \in 0..N, n <= m + 1 PROVE g[n] = Value(g, n)
    <3>1. g[n] = Value(f, n)
      <4>1. n # m + 1 => n <= m
        BY <2>3
      <4>2. n # m + 1 => f[n] = Value(f, n)
        BY <2>1, <4>1
      <4> HIDE DEF Value
      <4> QED BY <4>2
    <3>2. n # 0 => g[n - 1] = f[n - 1]
      <4>1. n # 0 => n - 1 \in 0..N /\ n - 1 # m + 1
        BY <2>3
      <4> HIDE DEF Value
      <4> QED BY <4>1
    <3> HIDE DEF g
    <3> QED BY <3>1, <3>2
  <2> HIDE DEF g, Value
  <2> QED BY <2>2, <2>3
<1>6. N \in T
  <2>1. \A n \in Nat : n \in T
    <3> HIDE DEF T
    <3> QED BY <1>4, <1>5, SetInduction
  <2> HIDE DEF T
  <2> QED BY <2>1
<1>7. \E f : f = Steps(f)
  <2>1. PICK f : f = [n \in 0..N |-> f[n]] /\ \A n \in 0..N : n <= N => f[n] = Value(f, n)
    BY <1>6
  <2>2. \A n \in 0..N : n <= N
    OBVIOUS
  <2>3. f = [n \in 0..N |-> Value(f, n)]
    <3> HIDE DEF Value
    <3> QED BY <2>1, <2>2
  <2> QED BY <2>3
<1>8. after = Steps(after)
  <2> HIDE DEF Steps
  <2> QED BY <1>7
<1>9. Resolve(times, runs, moof) = after[N]
  BY <1>1, <1>2, Zenon DEF Resolve
<1> HIDE DEF after, T
<1>10. \A n \in 0..N : after[n] = Value(after, n)
  <2> HIDE DEF Value
  <2> QED BY <1>8
<1>11. after[0] = start
  <2>1. 0 \in 0..N
    BY <1>1
  <2> QED BY <1>10, <2>1
<1>12. \A n \in 1..N : after[n] = ResolveRun(after[n - 1], runs[n], moof)
  <2>1. \A n \in 1..N : n \in 0..N /\ n # 0
    BY <1>1
  <2> QED BY <1>10, <2>1
<1> DEFINE U == {n \in Nat : n <= N => Resolving(after[n])}
<1>13. 0 \in U
  BY <1>3, <1>11
<1>14. ASSUME NEW n \in Nat, n \in U PROVE n + 1 \in U
  <2> SUFFICES ASSUME n + 1 <= N PROVE Resolving(after[n + 1])
    OBVIOUS
  <2>1. n + 1 \in 1..N /\ n + 1 - 1 = n /\ n <= N
    BY <1>1
  <2>2. after[n + 1] = ResolveRun(after[n], runs[n + 1], moof)
    BY <1>12, <2>1
  <2>3. Resolving(after[n]) /\ IsRun(runs[n + 1])
    BY <1>1, <1>14, <2>1
  <2> QED BY <2>2, <2>3, ResolveRunKeeps
<1>15. N \in U
  <2>1. \A n \in Nat : n \in U
    <3> HIDE DEF U
    <3> QED BY <1>13, <1>14, SetInduction
  <2> HIDE DEF U
  <2> QED BY <1>1, <2>1
<1>16. Resolving(after[N])
  <2>1. N <= N
    BY <1>1
  <2> QED BY <1>15, <2>1
<1> QED BY <1>9, <1>16 DEF Resolving
-------------------------------------------------------------------------------
LEMMA PlaceInThisFilePlaced ==
  ASSUME NEW boxes \in Seq(AnyCompressed), NEW sample, IsPlaced(sample)
  PROVE  IsPlaced(PlaceInThisFile(boxes, sample))
<1>1. PICK place : place = InFile(boxes, sample)
  OBVIOUS
<1>2. place.start \in Int /\ place.end \in Int
  BY <1>1, InFileIs DEF IsPlaced
<1>3. PICK new : new = [sample EXCEPT !.start = place.start, !.end = place.end]
  OBVIOUS
<1>4. new = [track |-> sample.track, time |-> sample.time, counts |-> sample.counts,
             here |-> sample.here, start |-> place.start, end |-> place.end]
  BY <1>3 DEF IsPlaced
<1>5. IsPlaced(new)
  BY <1>2, <1>4 DEF IsPlaced
<1>6. PlaceInThisFile(boxes, sample) = sample \/ PlaceInThisFile(boxes, sample) = new
  BY <1>1, <1>3, Zenon DEF PlaceInThisFile
<1> QED BY <1>5, <1>6

LEMMA LocateGives ==
  ASSUME NEW r, Reading(r), NEW samples, AllPlaced(samples), NEW prior, Reading(prior)
  PROVE  Gives(Locate(r, samples, prior))
<1>1. PICK inOrder : inOrder = InFileOrder(samples)
  OBVIOUS
<1>2. PICK moved : moved = [k \in DOMAIN inOrder |-> PlaceInThisFile(r.compressed.boxes, inOrder[k])]
  OBVIOUS
<1>3. AllPlaced(moved)
  <2>1. AllPlaced(inOrder)
    BY <1>1, InOrderPlaced
  <2>2. DOMAIN inOrder = 1..Len(inOrder) /\ Len(inOrder) \in Nat
    BY <2>1, SequenceShape DEF AllPlaced
  <2>3. moved = [k \in 1..Len(inOrder) |-> moved[k]]
    BY <1>2, <2>2
  <2>4. r.compressed.boxes \in Seq(AnyCompressed)
    BY DEF Reading, Recording
  <2>5. \A k \in 1..Len(inOrder) : IsPlaced(inOrder[k])
    BY <2>1 DEF AllPlaced
  <2>6. \A k \in 1..Len(inOrder) : IsPlaced(moved[k])
    BY <1>2, <2>2, <2>4, <2>5, PlaceInThisFilePlaced
  <2> QED BY <2>2, <2>3, <2>6, EachPlaced
<1>4. PICK reach : reach = Max({moved[k].end : k \in {n \in DOMAIN moved : moved[n].here}} \cup {0})
  OBVIOUS
<1>5. PICK noted : noted = NoteLocated(r.compressed, reach)
  OBVIOUS
<1>6. Recording(noted)
  <2>1. noted = [boxes |-> r.compressed.boxes, locatedEnd |-> Max({r.compressed.locatedEnd, reach}),
                 resumed |-> r.compressed.resumed, transformed |-> r.compressed.transformed]
    BY <1>5 DEF NoteLocated, Reading, Recording, IsRecord
  <2> QED BY <2>1 DEF Reading, Recording, IsRecord
<1>7. PICK next : next = [r EXCEPT !.compressed = noted]
  OBVIOUS
<1>8. Reading(next)
  BY <1>6, <1>7 DEF Reading, IsReader
<1>9. \/ Locate(r, samples, prior) = Refusal("out of range", prior)
      \/ Locate(r, samples, prior) = Outcome("ok", next, moved)
  <2>1. \/ Locate(r, samples, prior) = Refusal("out of range", prior)
        \/ Locate(r, samples, prior) = Outcome("ok", [r EXCEPT !.compressed = NoteLocated(@, reach)], moved)
    BY <1>1, <1>2, <1>4, Zenon DEF Locate
  <2>2. [r EXCEPT !.compressed = NoteLocated(@, reach)] = next
    BY <1>5, <1>7 DEF Reading, IsReader
  <2> QED BY <2>1, <2>2, Zenon
<1> QED BY <1>3, <1>8, <1>9, AnswersAre, RefusalGives, OutcomeGives

LEMMA PlaceGives ==
  ASSUME NEW r, Reading(r), NEW after, Reading(after), NEW samples, AllPlaced(samples)
  PROVE  Gives(Place(r, after, samples))
<1> DEFINE Waits(sample) == sample.counts # None /\ sample.counts \notin DOMAIN r.identified
           places == {k \in DOMAIN samples : Waits(samples[k])}
           others == {k \in DOMAIN samples : ~Waits(samples[k])}
<1>1. PICK waiting : waiting = Picked(samples, places)
  OBVIOUS
<1>2. PICK placed : placed = Picked(samples, others)
  OBVIOUS
<1>3. AllPlaced(waiting) /\ AllPlaced(placed)
  <2>1. places \subseteq DOMAIN samples /\ others \subseteq DOMAIN samples
    OBVIOUS
  <2> HIDE DEF places, others
  <2> QED BY <1>1, <1>2, <2>1, PickedPlaced
<1>4. PICK there : there = [k \in DOMAIN placed |->
                    IF placed[k].counts = None THEN placed[k]
                    ELSE Located(placed[k], r.identified[placed[k].counts])]
  OBVIOUS
<1>5. AllPlaced(there)
  <2>1. DOMAIN placed = 1..Len(placed) /\ Len(placed) \in Nat
    BY <1>3, SequenceShape DEF AllPlaced
  <2>2. there = [k \in 1..Len(placed) |-> there[k]]
    BY <1>4, <2>1
  <2>3. ASSUME NEW k \in 1..Len(placed) PROVE IsPlaced(there[k])
    <3>1. IsPlaced(placed[k])
      BY <1>3 DEF AllPlaced
    <3>2. \E i \in DOMAIN samples : placed[k] = samples[i] /\ ~Waits(samples[i])
      <4>1. others \subseteq DOMAIN samples /\ Sequence(samples)
        BY DEF AllPlaced
      <4>2. \A i \in others : i \in DOMAIN samples /\ ~Waits(samples[i])
        OBVIOUS
      <4> HIDE DEF others, Waits
      <4>3. k \in 1..Cardinality(others) /\ Nth(others, k) \in others /\ placed[k] = samples[Nth(others, k)]
        BY <1>2, <4>1, PickedIs
      <4> QED BY <4>2, <4>3
    <3>3. placed[k].counts # None => r.identified[placed[k].counts] \in Int
      BY <3>2 DEF Reading
    <3>4. \/ there[k] = placed[k]
          \/ placed[k].counts # None /\ there[k] = Located(placed[k], r.identified[placed[k].counts])
      BY <1>4, <2>1
    <3> QED BY <3>1, <3>3, <3>4, LocatedPlaced
  <2> QED BY <2>1, <2>2, <2>3, EachPlaced
<1>6. PICK next : next = [after EXCEPT !.waiting = @ \o waiting]
  OBVIOUS
<1>7. Reading(next)
  <2>1. AllPlaced(after.waiting \o waiting)
    BY <1>3, ConcatPlaced DEF Reading
  <2> QED BY <1>6, <2>1 DEF Reading, IsReader
<1>8. \/ Place(r, after, samples) = Refusal("past limit", r)
      \/ Place(r, after, samples) = Locate(next, there, r)
  BY <1>1, <1>2, <1>4, <1>6, Zenon DEF Place, Where
<1> QED BY <1>5, <1>7, <1>8, AnswersAre, RefusalGives, LocateGives

AreRuns(runs) == Sequence(runs) /\ \A j \in 1..Len(runs) : IsRun(runs[j])

LEMMA HandleRunsGives ==
  ASSUME NEW r, Reading(r), NEW after, Reading(after), NEW runs, AreRuns(runs), NEW moof \in Int
  PROVE  Gives(HandleRuns(r, after, runs, moof))
<1>1. PICK resolved : resolved = Resolve(after.times, runs, moof)
  OBVIOUS
<1>2. resolved.answer \in Answers /\ AllPlaced(resolved.samples)
  BY <1>1, ResolveIs DEF AreRuns
<1>3. PICK next : next = [after EXCEPT !.times = resolved.times,
                                       !.leniencies = r.leniencies \o resolved.leniencies]
  OBVIOUS
<1>4. Reading(next)
  BY <1>3 DEF Reading, IsReader
<1>5. \/ \E word \in Answers : HandleRuns(r, after, runs, moof) = Refusal(word, r)
      \/ HandleRuns(r, after, runs, moof) = Place(r, next, resolved.samples)
  BY <1>1, <1>2, <1>3, AnswersAre, Zenon DEF HandleRuns
<1> QED BY <1>2, <1>4, <1>5, RefusalGives, PlaceGives

LEMMA HandleMovieGives ==
  ASSUME NEW r, Reading(r), NEW tracks, NEW runs, AreRuns(runs)
  PROVE  Gives(HandleMovie(r, tracks, runs))
<1>1. PICK times : times = [t \in tracks |-> [time |-> 0, afterSample |-> FALSE]]
  OBVIOUS
<1>2. PICK next : next = [r EXCEPT !.movie = TRUE, !.times = times]
  OBVIOUS
<1>3. Reading(next)
  BY <1>2 DEF Reading, IsReader
<1>4. \/ HandleMovie(r, tracks, runs) = Refusal("duplicate movie", r)
      \/ HandleMovie(r, tracks, runs) = HandleRuns(r, next, runs, 0)
  BY <1>1, <1>2, Zenon DEF HandleMovie
<1>5. Gives(HandleRuns(r, next, runs, 0))
  <2>1. 0 \in Int
    OBVIOUS
  <2> QED BY <1>3, <2>1, HandleRunsGives
<1> QED BY <1>4, <1>5, AnswersAre, RefusalGives

LEMMA HandleMovieFragmentGives ==
  ASSUME NEW r, Reading(r), NEW runs, AreRuns(runs), NEW offset \in Int
  PROVE  Gives(HandleMovieFragment(r, runs, offset))
<1>1. \/ \E word \in Answers : HandleMovieFragment(r, runs, offset) = Refusal(word, r)
      \/ HandleMovieFragment(r, runs, offset) = HandleRuns(r, r, runs, MoofOffset(r, offset))
  BY AnswersAre, Zenon DEF HandleMovieFragment
<1>2. MoofOffset(r, offset) \in Int
  BY UncompressedIs DEF MoofOffset, Reading, Recording
<1> QED BY <1>1, <1>2, RefusalGives, HandleRunsGives

LEMMA HandleIdentifiedGives ==
  ASSUME NEW r, Reading(r), NEW id, NEW offset \in Int
  PROVE  Gives(HandleIdentified(r, id, offset))
<1> DEFINE places == {k \in DOMAIN r.waiting : r.waiting[k].counts = id}
           others == {k \in DOMAIN r.waiting : r.waiting[k].counts # id}
<1>1. PICK payload : payload = Uncompressed(r.compressed.boxes, offset)
  OBVIOUS
<1>2. PICK samples : samples = Picked(r.waiting, places)
  OBVIOUS
<1>3. PICK waiting : waiting = Picked(r.waiting, others)
  OBVIOUS
<1>11. payload \in Int
  BY <1>1, UncompressedIs DEF Reading, Recording
<1>4. AllPlaced(samples) /\ AllPlaced(waiting)
  <2>1. places \subseteq DOMAIN r.waiting /\ others \subseteq DOMAIN r.waiting /\ AllPlaced(r.waiting)
    BY DEF Reading
  <2> HIDE DEF places, others
  <2> QED BY <1>2, <1>3, <2>1, PickedPlaced
<1>5. PICK there : there = [k \in DOMAIN samples |-> Located(samples[k], payload)]
  OBVIOUS
<1>6. AllPlaced(there)
  <2>1. DOMAIN samples = 1..Len(samples) /\ Len(samples) \in Nat
    BY <1>4, SequenceShape DEF AllPlaced
  <2>2. there = [k \in 1..Len(samples) |-> there[k]]
    BY <1>5, <2>1
  <2>3. ASSUME NEW k \in 1..Len(samples) PROVE IsPlaced(there[k])
    <3>1. IsPlaced(samples[k]) /\ there[k] = Located(samples[k], payload)
      BY <1>4, <1>5, <2>1 DEF AllPlaced
    <3> QED BY <1>11, <3>1, LocatedPlaced
  <2> QED BY <2>1, <2>2, <2>3, EachPlaced
<1>7. PICK identified : identified = [j \in DOMAIN r.identified \cup {id} |->
                                IF j = id THEN payload ELSE r.identified[j]]
  OBVIOUS
<1>8. PICK next : next = [r EXCEPT !.identified = identified, !.waiting = waiting]
  OBVIOUS
<1>9. Reading(next)
  <2>1. \A j \in DOMAIN identified : identified[j] \in Int
    BY <1>7, <1>11 DEF Reading
  <2> QED BY <1>4, <1>8, <2>1 DEF Reading, IsReader
<1>10. \/ \E word \in Answers : HandleIdentified(r, id, offset) = Refusal(word, r)
       \/ HandleIdentified(r, id, offset) = Locate(next, there, r)
  BY <1>1, <1>2, <1>3, <1>5, <1>7, <1>8, AnswersAre, Zenon DEF HandleIdentified, StillWaiting, Where
<1> QED BY <1>6, <1>9, <1>10, RefusalGives, LocateGives

Before(boxes, i) == Contents!LengthBefore(boxes, i)

LEMMA LengthsAre ==
  ASSUME NEW boxes \in Seq(Contents!FileBox), NEW n \in 1..Len(boxes)
  PROVE  /\ boxes[n].payload \in Nat
         /\ Contents!Length(boxes[n]) = boxes[n].payload + 1
         /\ Contents!Length(boxes[n]) \in Nat
         /\ Contents!ReadBackLength(boxes[n]) \in Nat
<1>1. boxes[n].payload \in Nat /\ boxes[n].readBack \in Nat
  <2>1. boxes[n] \in Contents!FileBox
    OBVIOUS
  <2> QED BY <2>1 DEF Contents!FileBox
<1>2. Contents!Length(boxes[n]) = 1 + boxes[n].payload
  BY DEF Contents!Length
<1>3. Contents!ReadBackLength(boxes[n]) = 1 + boxes[n].readBack
  BY DEF Contents!ReadBackLength
<1> QED BY <1>1, <1>2, <1>3

(* Where each box starts: where the one before it ends.                    *)
LEMMA BeforeIs ==
  ASSUME NEW boxes \in Seq(Contents!FileBox)
  PROVE  /\ Len(boxes) \in Nat /\ DOMAIN boxes = 1..Len(boxes)
         /\ Before(boxes, 1) = 0
         /\ \A i \in 1..Len(boxes) + 1 : Before(boxes, i) \in Nat
         /\ \A i \in 1..Len(boxes) :
              Before(boxes, i + 1) = Before(boxes, i) + Contents!Length(boxes[i])
<1> DEFINE N == Len(boxes)
           own == [n \in 1..N |-> Contents!Length(boxes[n])]
           Steps(f) == [n \in 0..N |-> IF n = 0 THEN 0 ELSE f[n - 1] + Contents!Length(boxes[n])]
           first == CHOOSE f : f = Steps(f)
<1>1. N \in Nat /\ DOMAIN boxes = 1..N
  OBVIOUS
<1>2. \A n \in 1..N : own[n] \in Nat /\ own[n] = Contents!Length(boxes[n])
  BY LengthsAre
<1>3. ASSUME NEW f PROVE Sums(f, N, own) <=> f = Steps(f)
  <2>1. \A n \in 0..N : n # 0 => own[n] = Contents!Length(boxes[n])
    BY <1>1, <1>2
  <2>2. [n \in 0..N |-> IF n = 0 THEN 0 ELSE f[n - 1] + own[n]] = Steps(f)
    <3> HIDE DEF own
    <3> QED BY <2>1
  <2> QED BY <2>2 DEF Sums
<1>4. \E f : Sums(f, N, own)
  <2> HIDE DEF own
  <2> QED BY <1>1, <1>2, SumsExist
<1>5. \E f : f = Steps(f)
  BY <1>3, <1>4
<1>6. first = Steps(first)
  <2> HIDE DEF Steps
  <2> QED BY <1>5
<1>7. \A i : Before(boxes, i) = first[i - 1]
  BY DEF Before, Contents!LengthBefore
<1>8. Sums(first, N, own)
  BY <1>3, <1>6
<1> HIDE DEF first, own
<1>9. /\ first[0] = 0
      /\ \A n \in 0..N : first[n] \in Nat
      /\ \A n \in 1..N : first[n] = first[n - 1] + own[n]
  BY <1>1, <1>2, <1>8, SumsSteps
<1>10. \A i \in 1..N + 1 : i - 1 \in 0..N
  BY <1>1
<1>11. Before(boxes, 1) = 0 /\ \A i \in 1..N + 1 : Before(boxes, i) \in Nat
  BY <1>7, <1>9, <1>10
<1>12. \A i \in 1..N : Before(boxes, i + 1) = Before(boxes, i) + Contents!Length(boxes[i])
  <2> SUFFICES ASSUME NEW i \in 1..N
               PROVE  Before(boxes, i + 1) = Before(boxes, i) + Contents!Length(boxes[i])
    OBVIOUS
  <2>1. Before(boxes, i + 1) = first[i + 1 - 1] /\ i + 1 - 1 = i
    BY <1>7, <1>1
  <2> QED BY <1>2, <1>7, <1>9, <2>1
<1> QED BY <1>1, <1>11, <1>12

LEMMA DeclaresRuns ==
  ASSUME NEW f \in Files, NEW i \in DOMAIN f.boxes
  PROVE  AreRuns(Contents!Declares(f.boxes, i))
<1>1. f.boxes[i] \in Contents!FileBox
  BY FilesAssumption
<1>2. PICK runs \in Seq(Contents!FileRun) : runs = f.boxes[i].runs
  BY <1>1 DEF Contents!FileBox
<1>3. PICK n \in Nat : n = Len(runs) /\ DOMAIN runs = 1..n
  OBVIOUS
<1>4. PICK declared : declared = Contents!Declares(f.boxes, i)
  OBVIOUS
<1>5. declared = [j \in 1..n |-> declared[j]]
  BY <1>2, <1>3, <1>4 DEF Contents!Declares
<1>6. Sequence(declared) /\ Len(declared) = n
  BY <1>5, SequenceOfAny
<1>7. ASSUME NEW j \in 1..n PROVE IsRun(declared[j])
  <2>1. declared[j].sizes = runs[j].sizes
    BY <1>2, <1>3, <1>4 DEF Contents!Declares
  <2>2. runs[j] \in Contents!FileRun
    BY <1>3
  <2>3. runs[j].sizes \in Seq(Nat)
    BY <2>2 DEF Contents!FileRun
  <2>4. declared[j] \in Range(declared)
    BY <1>5 DEF Range
  <2>5. declared[j].offset \in Int
    BY <1>4, <2>4, FilesAssumption
  <2> QED BY <2>1, <2>3, <2>5 DEF IsRun
<1> QED BY <1>4, <1>6, <1>7 DEF AreRuns

(* Each call of the reader that takes a box gives a sequence of samples.   *)
LEMMA HandleBoxGives ==
  ASSUME NEW r, Reading(r), NEW f \in Files, NEW i \in DOMAIN f.boxes
  PROVE  Gives(HandleBox(r, f.boxes, i))
<1>1. PICK runs : runs = Contents!Declares(f.boxes, i)
  OBVIOUS
<1>2. AreRuns(runs)
  BY <1>1, DeclaresRuns
<1>8. PICK start \in Nat : start = Contents!LengthBefore(f.boxes, i)
  <2>1. f.boxes \in Seq(Contents!FileBox)
    BY FilesAssumption
  <2>2. i \in 1..Len(f.boxes) + 1 /\ Len(f.boxes) \in Nat
    BY <2>1
  <2>3. Before(f.boxes, i) \in Nat
    BY <2>1, <2>2, BeforeIs
  <2> QED BY <2>3 DEF Before
<1>3. ASSUME NEW index PROVE Gives(HandleSegmentIndex(r, index))
  <2>1. PICK next : next = [r EXCEPT !.indexes = Append(@, index)]
    OBVIOUS
  <2>2. Reading(next)
    BY <2>1 DEF Reading, IsReader
  <2>3. \/ HandleSegmentIndex(r, index) = Refusal("past limit", r)
        \/ HandleSegmentIndex(r, index) = Outcome("ok", r, <<>>)
        \/ HandleSegmentIndex(r, index) = Outcome("ok", next, <<>>)
    BY <2>1, Zenon DEF HandleSegmentIndex
  <2> QED BY <2>2, <2>3, NonePlaced, AnswersAre, RefusalGives, OutcomeGives
<1>4. Gives(HandleRandomAccess(r))
  <2>1. PICK next : next = [r EXCEPT !.randomAccess = TRUE]
    OBVIOUS
  <2>2. Reading(next)
    BY <2>1 DEF Reading, IsReader
  <2>3. \/ \E word \in Answers : HandleRandomAccess(r) = Refusal(word, r)
        \/ HandleRandomAccess(r) = Outcome("ok", next, <<>>)
    BY <2>1, AnswersAre, Zenon DEF HandleRandomAccess
  <2> QED BY <2>2, <2>3, NonePlaced, AnswersAre, RefusalGives, OutcomeGives
<1>5. Gives(HandleOriginalFileType(r))
  <2>1. PICK next : next = [r EXCEPT !.compressed = NoteTransformed(@)]
    OBVIOUS
  <2>2. Reading(next)
    <3>1. PICK noted : noted = NoteTransformed(r.compressed)
      OBVIOUS
    <3>2. Recording(noted)
      BY <3>1 DEF NoteTransformed, Reading, Recording, IsRecord
    <3>3. next = [r EXCEPT !.compressed = noted]
      BY <2>1, <3>1 DEF Reading, IsReader
    <3> QED BY <3>2, <3>3 DEF Reading, IsReader
  <2>3. HandleOriginalFileType(r) = Outcome("ok", next, <<>>)
    BY <2>1, Zenon DEF HandleOriginalFileType
  <2> QED BY <2>2, <2>3, NonePlaced, AnswersAre, OutcomeGives
<1>6. Gives(Outcome("ok", r, <<>>))
  BY NonePlaced, AnswersAre, OutcomeGives
<1>7. \/ \E tracks : HandleBox(r, f.boxes, i) = HandleMovie(r, tracks, runs)
      \/ HandleBox(r, f.boxes, i) = HandleMovieFragment(r, runs, start)
      \/ \E id : HandleBox(r, f.boxes, i) = HandleIdentified(r, id, start + 1)
      \/ \E index : HandleBox(r, f.boxes, i) = HandleSegmentIndex(r, index)
      \/ HandleBox(r, f.boxes, i) = HandleRandomAccess(r)
      \/ HandleBox(r, f.boxes, i) = HandleOriginalFileType(r)
      \/ HandleBox(r, f.boxes, i) = Outcome("ok", r, <<>>)
  BY <1>1, <1>8, Zenon DEF HandleBox
<1>9. start + 1 \in Int
  BY <1>8
<1> QED BY <1>2, <1>3, <1>4, <1>5, <1>6, <1>7, <1>8, <1>9, HandleMovieGives,
           HandleMovieFragmentGives, HandleIdentifiedGives

LEMMA ReadValueGives ==
  ASSUME file \in Files, Reading(reader), NEW i \in DOMAIN file.boxes
  PROVE  Gives(ReadValue(i))
<1>1. PICK told : told = IF Boxes[i].compressed THEN HandleCompressedBox(reader, Boxes, i)
                         ELSE Outcome("ok", reader, <<>>)
  OBVIOUS
<1>2. Gives(told)
  <2>1. Gives(Outcome("ok", reader, <<>>))
    BY NonePlaced, AnswersAre, OutcomeGives
  <2>2. Gives(HandleCompressedBox(reader, Boxes, i))
    <3>1. PICK recorded : recorded =
            Record(reader.compressed, Contents!LengthBefore(Boxes, i),
                   Contents!Length(Boxes[i]), Contents!ReadBackLength(Boxes[i]))
      OBVIOUS
    <3>2. PICK next : next = [reader EXCEPT !.compressed = recorded.record]
      OBVIOUS
    <3>3. Reading(next)
      <4>1. file.boxes \in Seq(Contents!FileBox)
        BY FilesAssumption
      <4>2. i \in 1..Len(file.boxes) /\ i \in 1..Len(file.boxes) + 1
        BY <4>1
      <4>3. /\ Contents!LengthBefore(Boxes, i) \in Int
            /\ Contents!Length(Boxes[i]) \in Int /\ Contents!ReadBackLength(Boxes[i]) \in Int
        <5>1. Before(file.boxes, i) \in Nat
          BY <4>1, <4>2, BeforeIs
        <5>2. Contents!Length(file.boxes[i]) \in Nat /\ Contents!ReadBackLength(file.boxes[i]) \in Nat
          BY <4>1, <4>2, LengthsAre
        <5> QED BY <5>1, <5>2 DEF Boxes, Before
      <4>4. Recording(recorded.record)
        BY <3>1, <4>3, RecordIs DEF Reading
      <4> QED BY <3>2, <4>4 DEF Reading, IsReader
    <3>5. recorded.answer \in Answers
      <4>1. \A word, record : [answer |-> word, record |-> record].answer = word
        OBVIOUS
      <4>2. \E word \in Answers : \E record : recorded = [answer |-> word, record |-> record]
        BY <3>1, AnswersAre, Zenon DEF Record
      <4> QED BY <4>1, <4>2
    <3>4. \/ \E word \in Answers : HandleCompressedBox(reader, Boxes, i) = Refusal(word, reader)
          \/ \E word \in Answers : HandleCompressedBox(reader, Boxes, i) = Outcome(word, next, <<>>)
      BY <3>1, <3>2, <3>5, AnswersAre, Zenon DEF HandleCompressedBox
    <3> QED BY <3>3, <3>4, NonePlaced, AnswersAre, RefusalGives, OutcomeGives
  <2> QED BY <1>1, <2>1, <2>2, Zenon
<1>3. \/ ReadValue(i) = Refusal("past limit", reader)
      \/ ReadValue(i) = told
      \/ ReadValue(i) = HandleBox(told.reader, Boxes, i)
  BY <1>1, Zenon DEF ReadValue
<1>4. Reading(told.reader)
  BY <1>2 DEF Gives
<1>5. Gives(HandleBox(told.reader, file.boxes, i))
  BY <1>4, HandleBoxGives
<1> QED BY <1>2, <1>3, <1>5, AnswersAre, RefusalGives DEF Boxes

-------------------------------------------------------------------------------
(* THE ORDER OF THE SAMPLES                                                *)

(* What a sequence of locations has left without some tracks.              *)
Left(s, gone) == Picked(s, {i \in DOMAIN s : s[i].track \notin gone})

Without(s, track) == Picked(s, {i \in DOMAIN s : s[i].track # track})

AllIn(s, U) == \A i \in DOMAIN s : s[i] \in U

LEMMA LeftIs ==
  ASSUME NEW s, NEW gone, NEW U, AllIn(s, U)
  PROVE  Left(s, gone) = Those(s, {e \in U : e.track \notin gone})
<1>1. {i \in DOMAIN s : s[i].track \notin gone} = {i \in DOMAIN s : s[i] \in {e \in U : e.track \notin gone}}
  BY DEF AllIn
<1> QED BY <1>1, Zenon DEF Left, Those

LEMMA WithoutIs ==
  ASSUME NEW s, NEW track, NEW U, AllIn(s, U)
  PROVE  Without(s, track) = Those(s, {e \in U : e.track # track})
<1>1. {i \in DOMAIN s : s[i].track # track} = {i \in DOMAIN s : s[i] \in {e \in U : e.track # track}}
  BY DEF AllIn
<1> QED BY <1>1, Zenon DEF Without, Those

LEMMA LeftSequence ==
  ASSUME NEW s, Sequence(s), NEW gone
  PROVE  Sequence(Left(s, gone))
<1>1. {i \in DOMAIN s : s[i].track \notin gone} \subseteq DOMAIN s
  OBVIOUS
<1> QED BY <1>1, PickedIs DEF Left

LEMMA ConcatAgain ==
  ASSUME NEW a, NEW b, NEW c, Sequence(a), Sequence(b), Sequence(c)
  PROVE  (a \o b) \o c = a \o (b \o c)
<1> DEFINE S == Range(a) \cup Range(b) \cup Range(c)
<1>1. a \in Seq(S) /\ b \in Seq(S) /\ c \in Seq(S)
  BY DEF Sequence
<1> HIDE DEF S
<1> QED BY <1>1, ConcatAssociative

LEMMA ConcatRange ==
  ASSUME NEW s, NEW t, Sequence(s), Sequence(t)
  PROVE  \A i \in DOMAIN (s \o t) : (s \o t)[i] \in Range(s) \cup Range(t)
<1>1. /\ DOMAIN (s \o t) = 1..Len(s) + Len(t) /\ Len(s) \in Nat /\ Len(t) \in Nat
      /\ \A i \in 1..Len(s) : (s \o t)[i] = s[i]
      /\ \A i \in 1..Len(t) : (s \o t)[Len(s) + i] = t[i]
  BY ConcatAny
<1>2. DOMAIN s = 1..Len(s) /\ DOMAIN t = 1..Len(t)
  BY SequenceShape
<1> SUFFICES ASSUME NEW i \in 1..Len(s) + Len(t)
             PROVE  (s \o t)[i] \in Range(s) \cup Range(t)
  BY <1>1
<1>3. CASE i <= Len(s)
  <2>1. i \in DOMAIN s /\ (s \o t)[i] = s[i]
    BY <1>1, <1>2, <1>3
  <2> QED BY <2>1 DEF Range
<1>4. CASE ~(i <= Len(s))
  <2>1. i - Len(s) \in 1..Len(t) /\ Len(s) + (i - Len(s)) = i
    BY <1>1, <1>4
  <2>2. (s \o t)[i] = t[i - Len(s)] /\ i - Len(s) \in DOMAIN t
    BY <1>1, <1>2, <2>1
  <2> QED BY <2>2 DEF Range
<1> QED BY <1>3, <1>4

(* Samples located go behind those held, but for the tracks discarded.     *)
LEMMA LocatedBehind ==
  ASSUME NEW through, NEW come, NEW more, NEW gone,
         Sequence(through), Sequence(come), Sequence(more), Left(through, gone) = Left(come, gone)
  PROVE  Left(through \o Left(more, gone), gone) = Left(come \o more, gone)
<1> DEFINE U == Range(through) \cup Range(come) \cup Range(more)
           T == {e \in U : e.track \notin gone}
<1>1. AllIn(through, U) /\ AllIn(come, U) /\ AllIn(more, U)
  BY DEF Range, AllIn
<1>2. AllIn(come \o more, U)
  BY ConcatRange DEF AllIn
<1>3. PICK left : left = Left(more, gone)
  OBVIOUS
<1>4. Sequence(left)
  BY <1>3, LeftSequence
<1> HIDE DEF U
<1>15. \A s : AllIn(s, U) => Left(s, gone) = Those(s, T)
  BY LeftIs, Zenon
<1>5. left = Those(more, T)
  BY <1>1, <1>3, <1>15, Zenon
<1>6. AllIn(left, U)
  <2>1. \A k \in DOMAIN Those(more, T) : Those(more, T)[k] \in T
    <3> HIDE DEF T
    <3> QED BY ThoseAny
  <2>2. T \subseteq U
    OBVIOUS
  <2> QED BY <1>5, <2>1, <2>2 DEF AllIn
<1>7. AllIn(through \o left, U)
  <2>1. \A i \in DOMAIN (through \o left) : (through \o left)[i] \in Range(through) \cup Range(left)
    BY <1>4, ConcatRange
  <2>2. Range(through) \subseteq U /\ Range(left) \subseteq U
    BY <1>1, <1>6 DEF Range, AllIn
  <2> QED BY <2>1, <2>2 DEF AllIn
<1>8. /\ Left(through, gone) = Those(through, T)
      /\ Left(come, gone) = Those(come, T)
      /\ Left(come \o more, gone) = Those(come \o more, T)
      /\ Left(through \o left, gone) = Those(through \o left, T)
  BY <1>1, <1>2, <1>7, <1>15, Zenon
<1> HIDE DEF T
<1>9. /\ Those(through \o left, T) = Those(through, T) \o Those(left, T)
      /\ Those(come \o more, T) = Those(come, T) \o Those(more, T)
  BY <1>4, ThoseConcat
<1>10. Those(left, T) = left
  <2>1. \A i \in DOMAIN left : left[i] \in T
    BY <1>5, ThoseAny
  <2> QED BY <1>4, <2>1, ThoseAll
<1> QED BY <1>3, <1>5, <1>8, <1>9, <1>10

(* A track is discarded of those held, and of what there is to come.       *)
LEMMA DiscardedBehind ==
  ASSUME NEW first, NEW rest, NEW come, NEW gone, NEW track,
         Sequence(first), Sequence(rest), Sequence(come),
         Left(first \o rest, gone) = Left(come, gone)
  PROVE  Left(first \o Without(rest, track), gone \cup {track}) = Left(come, gone \cup {track})
<1> DEFINE U == Range(first) \cup Range(rest) \cup Range(come)
           more == gone \cup {track}
           T == {e \in U : e.track \notin gone}
           V == {e \in U : e.track \notin more}
           W == {e \in U : e.track # track}
<1>1. AllIn(first, U) /\ AllIn(rest, U) /\ AllIn(come, U)
  BY DEF Range, AllIn
<1>2. PICK all : all = first \o rest
  OBVIOUS
<1>3. Sequence(all) /\ AllIn(all, U)
  BY <1>2, ConcatRange, ConcatAny DEF AllIn
<1>4. PICK left : left = Without(rest, track)
  OBVIOUS
<1> HIDE DEF U
<1>16. /\ \A s : AllIn(s, U) => Left(s, gone) = Those(s, T)
       /\ \A s : AllIn(s, U) => Left(s, more) = Those(s, V)
       /\ \A s : AllIn(s, U) => Without(s, track) = Those(s, W)
  <2>1. \A s : AllIn(s, U) => Left(s, gone) = Those(s, T)
    BY LeftIs, Zenon
  <2>2. \A s : AllIn(s, U) => Left(s, more) = Those(s, V)
    <3>1. \A g, s : AllIn(s, U) => Left(s, g) = Those(s, {e \in U : e.track \notin g})
      BY LeftIs, Zenon
    <3> QED BY <3>1, Zenon
  <2>3. \A s : AllIn(s, U) => Without(s, track) = Those(s, W)
    BY WithoutIs, Zenon
  <2> QED BY <2>1, <2>2, <2>3
<1>5. left = Those(rest, W)
  BY <1>1, <1>4, <1>16, Zenon
<1>6. Sequence(left) /\ AllIn(left, U)
  <2>1. Sequence(Those(rest, W)) /\ \A k \in DOMAIN Those(rest, W) : Those(rest, W)[k] \in W
    <3> HIDE DEF W
    <3> QED BY ThoseAny
  <2>2. W \subseteq U
    OBVIOUS
  <2> QED BY <1>5, <2>1, <2>2 DEF AllIn
<1>7. AllIn(first \o left, U)
  <2>1. \A i \in DOMAIN (first \o left) : (first \o left)[i] \in Range(first) \cup Range(left)
    BY <1>6, ConcatRange
  <2>2. Range(first) \subseteq U /\ Range(left) \subseteq U
    BY <1>1, <1>6 DEF Range, AllIn
  <2> QED BY <2>1, <2>2 DEF AllIn
<1>8. Left(all, gone) = Those(all, T) /\ Left(come, gone) = Those(come, T)
  BY <1>1, <1>3, <1>16, Zenon
<1>9. Left(first \o left, more) = Those(first \o left, V) /\ Left(come, more) = Those(come, V)
  <2> HIDE DEF more
  <2> QED BY <1>1, <1>7, <1>16, Zenon
<1>10. \A e : e \in V => e \in T /\ e \in W
  OBVIOUS
<1> HIDE DEF T, V, W, more
<1>11. Those(first \o left, V) = Those(first, V) \o Those(left, V)
  BY <1>6, ThoseConcat
<1>12. Those(left, V) = Those(rest, V)
  BY <1>5, <1>10, ThoseThose
<1>13. Those(first, V) \o Those(rest, V) = Those(all, V)
  BY <1>2, ThoseConcat
<1>14. Those(all, V) = Those(Those(all, T), V)
  BY <1>3, <1>10, ThoseThose
<1>15. Those(come, V) = Those(Those(come, T), V)
  BY <1>10, ThoseThose
<1> QED BY <1>2, <1>4, <1>8, <1>9, <1>11, <1>12, <1>13, <1>14, <1>15 DEF more
-------------------------------------------------------------------------------
(* THE SAMPLES BEING GATHERED                                              *)

Stretch == [start : Int, end : Int]

(* Runs that are not empty and lie behind one another.                     *)
Ordered(runs) ==
  /\ \A i \in 1..Len(runs) : runs[i].start < runs[i].end
  /\ \A i, j \in 1..Len(runs) : i < j => runs[i].end <= runs[j].start

(* What of a run the input leaves: a run inside of it, of none of its      *)
(* bytes.                                                                  *)
Outside(run, input) == run.end <= input.start \/ input.end <= run.start

Leaves(run, whole, input) ==
  /\ whole.start <= run.start /\ run.end <= whole.end
  /\ input.start < input.end => Outside(run, input)

IsSample(sample) ==
  /\ sample = [location |-> sample.location, data |-> sample.data, missing |-> sample.missing]
  /\ sample.missing \in Seq(Stretch)
  /\ Ordered(sample.missing)

Gathering(samples) == Sequence(samples) /\ \A k \in 1..Len(samples) : IsSample(samples[k])

Locations(samples) == [k \in DOMAIN samples |-> samples[k].location]

LEMMA LocationsAre ==
  ASSUME NEW s, Sequence(s)
  PROVE  /\ Sequence(Locations(s)) /\ Len(Locations(s)) = Len(s)
         /\ Len(s) \in Nat /\ DOMAIN s = 1..Len(s) /\ DOMAIN Locations(s) = 1..Len(s)
         /\ \A k \in 1..Len(s) : Locations(s)[k] = s[k].location
<1>1. DOMAIN s = 1..Len(s) /\ Len(s) \in Nat
  BY SequenceShape
<1>2. PICK l : l = Locations(s)
  OBVIOUS
<1>3. l = [k \in 1..Len(s) |-> l[k]] /\ \A k \in 1..Len(s) : l[k] = s[k].location
  BY <1>1, <1>2 DEF Locations
<1> QED BY <1>1, <1>2, <1>3, SequenceOfAny

LEMMA StretchIs ==
  ASSUME NEW run \in Stretch
  PROVE  run.start \in Int /\ run.end \in Int
BY DEF Stretch

LEMMA RunOfIs ==
  ASSUME NEW start \in Int, NEW stop \in Int
  PROVE  /\ Media!RunOf(start, stop) \in Seq(Stretch)
         /\ Ordered(Media!RunOf(start, stop))
         /\ \A k \in 1..Len(Media!RunOf(start, stop)) :
              /\ Media!RunOf(start, stop)[k].start = start
              /\ Media!RunOf(start, stop)[k].end = stop
<1>1. PICK run : run = [start |-> start, end |-> stop]
  OBVIOUS
<1>2. run \in Stretch /\ run.start = start /\ run.end = stop
  BY <1>1 DEF Stretch
<1>3. PICK runs : runs = Media!RunOf(start, stop)
  OBVIOUS
<1>4. (start < stop /\ runs = <<run>>) \/ runs = <<>>
  BY <1>1, <1>3, Zenon DEF Media!RunOf
<1>5. CASE start < stop /\ runs = <<run>>
  <2>1. runs \in Seq(Stretch) /\ Len(runs) = 1 /\ runs[1] = run
    BY <1>2, <1>5
  <2>2. \A k \in 1..Len(runs) : runs[k] = run
    BY <2>1
  <2>3. \A i, j \in 1..Len(runs) : ~(i < j)
    BY <2>1
  <2> QED BY <1>2, <1>3, <1>5, <2>1, <2>2, <2>3 DEF Ordered
<1>6. CASE runs = <<>>
  <2>1. runs \in Seq(Stretch) /\ 1..Len(runs) = {}
    BY <1>6
  <2> QED BY <1>3, <2>1 DEF Ordered
<1> QED BY <1>4, <1>5, <1>6

LEMMA OrderedConcat ==
  ASSUME NEW s \in Seq(Stretch), NEW t \in Seq(Stretch), Ordered(s), Ordered(t),
         \A i \in 1..Len(s) : \A j \in 1..Len(t) : s[i].end <= t[j].start
  PROVE  /\ s \o t \in Seq(Stretch)
         /\ Ordered(s \o t)
         /\ \A k \in 1..Len(s \o t) :
              \/ \E i \in 1..Len(s) : (s \o t)[k] = s[i]
              \/ \E j \in 1..Len(t) : (s \o t)[k] = t[j]
<1>1. PICK all : all = s \o t
  OBVIOUS
<1>2. PICK m \in Nat, n \in Nat : m = Len(s) /\ n = Len(t)
  OBVIOUS
<1>3. /\ all \in Seq(Stretch) /\ Len(all) = m + n
      /\ \A k \in 1..m : all[k] = s[k]
      /\ \A k \in m + 1..m + n : all[k] = t[k - m]
  BY <1>1, <1>2
<1>4. \A k \in 1..m + n : k \in 1..m \/ (k \in m + 1..m + n /\ k - m \in 1..n)
  BY <1>2
<1>5. \A k \in 1..Len(all) : (\E i \in 1..m : all[k] = s[i]) \/ (\E j \in 1..n : all[k] = t[j])
  BY <1>3, <1>4
<1>6. \A k \in 1..Len(all) : all[k].start < all[k].end
  BY <1>2, <1>5 DEF Ordered
<1>7. ASSUME NEW i \in 1..Len(all), NEW j \in 1..Len(all), i < j
      PROVE  all[i].end <= all[j].start
  <2>1. CASE j \in 1..m
    <3>1. i \in 1..m
      BY <1>2, <1>3, <1>7, <2>1
    <3> QED BY <1>2, <1>3, <1>7, <2>1, <3>1 DEF Ordered
  <2>2. CASE i \in 1..m /\ j \in m + 1..m + n
    <3>1. j - m \in 1..n
      BY <1>2, <2>2
    <3> QED BY <1>2, <1>3, <2>2, <3>1
  <2>3. CASE i \in m + 1..m + n /\ j \in m + 1..m + n
    <3>1. i - m \in 1..n /\ j - m \in 1..n /\ i - m < j - m
      BY <1>2, <1>7, <2>3
    <3>2. all[i] = t[i - m] /\ all[j] = t[j - m]
      BY <1>3, <2>3
    <3> QED BY <1>2, <3>1, <3>2 DEF Ordered
  <2> QED BY <1>2, <1>3, <1>7, <2>1, <2>2, <2>3
<1>8. Ordered(all)
  BY <1>6, <1>7 DEF Ordered
<1> QED BY <1>1, <1>2, <1>3, <1>5, <1>8

LEMMA LeftOfIs ==
  ASSUME NEW missing \in Stretch, missing.start < missing.end, NEW input \in Stretch
  PROVE  /\ Media!LeftOf(missing, input) \in Seq(Stretch)
         /\ Ordered(Media!LeftOf(missing, input))
         /\ \A k \in 1..Len(Media!LeftOf(missing, input)) :
              Leaves(Media!LeftOf(missing, input)[k], missing, input)
<1>1. /\ missing.start \in Int /\ missing.end \in Int
      /\ input.start \in Int /\ input.end \in Int
  BY StretchIs
<1>2. PICK start, stop : /\ start = Media!Max({missing.start, input.start})
                         /\ stop = Media!Min({missing.end, input.end})
  OBVIOUS
<1>3. /\ start \in Int /\ stop \in Int
      /\ start = IF missing.start >= input.start THEN missing.start ELSE input.start
      /\ stop = IF missing.end <= input.end THEN missing.end ELSE input.end
  BY <1>1, <1>2 DEF Media!Max, Media!Min
<1>4. PICK front, rest, left : /\ front = Media!RunOf(missing.start, start)
                               /\ rest = Media!RunOf(stop, missing.end)
                               /\ left = Media!LeftOf(missing, input)
  OBVIOUS
<1>5. /\ front \in Seq(Stretch) /\ Ordered(front)
      /\ \A k \in 1..Len(front) : front[k].start = missing.start /\ front[k].end = start
  <2>1. PICK a \in Int, b \in Int : a = missing.start /\ b = start
    BY <1>1, <1>3
  <2>2. front = Media!RunOf(a, b)
    BY <1>4, <2>1
  <2>3. a \in Int /\ b \in Int
    OBVIOUS
  <2>4. /\ Media!RunOf(a, b) \in Seq(Stretch)
        /\ Ordered(Media!RunOf(a, b))
        /\ \A k \in 1..Len(Media!RunOf(a, b)) :
             Media!RunOf(a, b)[k].start = a /\ Media!RunOf(a, b)[k].end = b
    BY ONLY <2>3, RunOfIs
  <2> QED BY <2>1, <2>2, <2>4
<1>6. /\ rest \in Seq(Stretch) /\ Ordered(rest)
      /\ \A k \in 1..Len(rest) : rest[k].start = stop /\ rest[k].end = missing.end
  <2>1. PICK a \in Int, b \in Int : a = stop /\ b = missing.end
    BY <1>1, <1>3
  <2>2. rest = Media!RunOf(a, b)
    BY <1>4, <2>1
  <2>3. a \in Int /\ b \in Int
    OBVIOUS
  <2>4. /\ Media!RunOf(a, b) \in Seq(Stretch)
        /\ Ordered(Media!RunOf(a, b))
        /\ \A k \in 1..Len(Media!RunOf(a, b)) :
             Media!RunOf(a, b)[k].start = a /\ Media!RunOf(a, b)[k].end = b
    BY ONLY <2>3, RunOfIs
  <2> QED BY <2>1, <2>2, <2>4
<1>7. left = IF start >= stop THEN <<missing>> ELSE front \o rest
  <2>1. Media!LeftOf(missing, input)
          = IF start >= stop THEN <<missing>>
            ELSE Media!RunOf(missing.start, start) \o Media!RunOf(stop, missing.end)
    BY <1>2 DEF Media!LeftOf
  <2> QED BY <1>4, <2>1
<1>8. CASE start >= stop
  <2>1. left \in Seq(Stretch) /\ Len(left) = 1 /\ \A k \in 1..1 : left[k] = missing
    BY <1>7, <1>8
  <2>2. \A i, j \in 1..Len(left) : ~(i < j)
    BY <2>1
  <2>3. Ordered(left)
    BY <2>1, <2>2 DEF Ordered
  <2>4. input.start < input.end => Outside(missing, input)
    BY <1>1, <1>3, <1>8 DEF Outside
  <2>5. Leaves(missing, missing, input)
    BY <1>1, <2>4 DEF Leaves
  <2> QED BY <1>4, <2>1, <2>3, <2>5
<1>9. CASE ~(start >= stop)
  <2>1. /\ left \in Seq(Stretch) /\ Ordered(left)
        /\ \A k \in 1..Len(left) : \/ \E i \in 1..Len(front) : left[k] = front[i]
                                   \/ \E j \in 1..Len(rest) : left[k] = rest[j]
    <3>1. \A i \in 1..Len(front) : \A j \in 1..Len(rest) : front[i].end <= rest[j].start
      BY <1>3, <1>5, <1>6, <1>9
    <3>2. left = front \o rest
      BY <1>7, <1>9
    <3> QED BY <1>5, <1>6, <3>1, <3>2, OrderedConcat
  <2>2. \A i \in 1..Len(front) : front[i].start < front[i].end
    BY <1>5 DEF Ordered
  <2>3. \A j \in 1..Len(rest) : rest[j].start < rest[j].end
    BY <1>6 DEF Ordered
  <2>4. \A i \in 1..Len(front) : Leaves(front[i], missing, input)
    BY <1>1, <1>3, <1>5, <1>9, <2>2 DEF Leaves, Outside
  <2>5. \A j \in 1..Len(rest) : Leaves(rest[j], missing, input)
    BY <1>1, <1>3, <1>6, <1>9, <2>3 DEF Leaves, Outside
  <2> QED BY <1>4, <2>1, <2>4, <2>5
<1> QED BY <1>8, <1>9

(* All that the input leaves of what a sample lacks.                       *)
LEMMA AllLeft ==
  ASSUME NEW runs \in Seq(Stretch), Ordered(runs), runs # <<>>, NEW input \in Stretch,
         NEW left, left = [i \in 1..Len(runs) |-> Media!LeftOf(runs[i], input)]
  PROVE  /\ FlattenSeq(left) \in Seq(Stretch)
         /\ Ordered(FlattenSeq(left))
         /\ \A k \in 1..Len(FlattenSeq(left)) :
              \E i \in 1..Len(runs) : Leaves(FlattenSeq(left)[k], runs[i], input)
<1>1. PICK n \in Nat : n = Len(runs)
  OBVIOUS
<1>2. n # 0 /\ \A i \in 1..n : runs[i] \in Stretch
  BY <1>1, EmptySeq
<1>3. \A i \in 1..n : /\ left[i] \in Seq(Stretch)
                      /\ Ordered(left[i])
                      /\ \A k \in 1..Len(left[i]) : Leaves(left[i][k], runs[i], input)
  <2> SUFFICES ASSUME NEW i \in 1..n
               PROVE  /\ left[i] \in Seq(Stretch)
                      /\ Ordered(left[i])
                      /\ \A k \in 1..Len(left[i]) : Leaves(left[i][k], runs[i], input)
    OBVIOUS
  <2>1. PICK run \in Stretch : run = runs[i]
    BY <1>2
  <2>2. run.start < run.end
    BY <1>1, <2>1 DEF Ordered
  <2>3. left[i] = Media!LeftOf(run, input)
    BY <1>1, <2>1
  <2> QED BY <2>1, <2>2, <2>3, LeftOfIs
<1>4. left \in Seq(Seq(Stretch)) /\ Len(left) = n /\ left # <<>>
  <2>1. left \in [1..n -> Seq(Stretch)]
    BY <1>1, <1>3
  <2>2. left \in Seq(Seq(Stretch)) /\ Len(left) = n
    BY <2>1
  <2>3. left # <<>>
    BY <1>2, <2>2
  <2> QED BY <2>2, <2>3
<1>5. PICK f \in [1..n -> Seq(Stretch)] : Joins(left, f, n) /\ FlattenSeq(left) = f[n]
  BY <1>4, FlattenSteps
<1> DEFINE Good(m) == /\ Ordered(f[m])
                      /\ \A k \in 1..Len(f[m]) : \E i \in 1..m : Leaves(f[m][k], runs[i], input)
           T == {m \in Nat : m \in 1..n => Good(m)}
<1>6. 0 \in T
  OBVIOUS
<1>7. ASSUME NEW m \in Nat, m \in T PROVE m + 1 \in T
  <2> SUFFICES ASSUME m + 1 \in 1..n PROVE Good(m + 1)
    BY <1>7
  <2>1. PICK last \in Seq(Stretch) : last = left[m + 1]
    BY <1>3
  <2>2. Ordered(last) /\ \A k \in 1..Len(last) : Leaves(last[k], runs[m + 1], input)
    BY <1>3, <2>1
  <2>5. /\ m = 0 => f[m + 1] = left[m + 1]
        /\ m # 0 => m \in 1..n /\ f[m + 1] = f[m] \o left[m + 1]
    <3>1. m \in Nat /\ n \in Nat /\ m + 1 \in 1..n /\ Joins(left, f, n)
      BY <1>5
    <3> QED BY ONLY <3>1, JoinsSteps
  <2>3. CASE m = 0
    <3>1. f[m + 1] = last
      BY <2>1, <2>3, <2>5
    <3>2. m + 1 \in 1..m + 1
      OBVIOUS
    <3> QED BY <2>2, <3>1, <3>2
  <2>4. CASE m # 0
    <3>1. m \in 1..n /\ f[m + 1] = f[m] \o last
      BY <2>1, <2>4, <2>5
    <3>2. PICK before \in Seq(Stretch) : before = f[m]
      BY <3>1
    <3>3. /\ Ordered(before)
          /\ \A k \in 1..Len(before) : \E i \in 1..m : Leaves(before[k], runs[i], input)
      BY <1>7, <3>1, <3>2
    <3>4. \A k \in 1..Len(before) : \A j \in 1..Len(last) : before[k].end <= last[j].start
      <4> SUFFICES ASSUME NEW k \in 1..Len(before), NEW j \in 1..Len(last)
                   PROVE  before[k].end <= last[j].start
        OBVIOUS
      <4>1. PICK i \in 1..m : Leaves(before[k], runs[i], input)
        BY <3>3
      <4>2. Leaves(last[j], runs[m + 1], input)
        BY <2>2
      <4>3. i \in 1..n /\ i < m + 1
        BY <1>1, <3>1
      <4>4. runs[i].end <= runs[m + 1].start
        BY <1>1, <4>3 DEF Ordered
      <4>5. /\ runs[i] \in Stretch /\ runs[m + 1] \in Stretch
            /\ before[k] \in Stretch /\ last[j] \in Stretch
        BY <1>2, <4>3
      <4>6. /\ runs[i].end \in Int /\ runs[m + 1].start \in Int
            /\ before[k].end \in Int /\ last[j].start \in Int
        BY <4>5, StretchIs
      <4>7. before[k].end <= runs[i].end /\ runs[m + 1].start <= last[j].start
        BY ONLY <4>1, <4>2 DEF Leaves
      <4> QED BY ONLY <4>4, <4>6, <4>7
    <3>5. PICK joined : joined = before \o last
      OBVIOUS
    <3>6. /\ Ordered(joined)
          /\ \A k \in 1..Len(joined) : \/ \E i \in 1..Len(before) : joined[k] = before[i]
                                       \/ \E j \in 1..Len(last) : joined[k] = last[j]
      BY <2>2, <3>3, <3>4, <3>5, OrderedConcat
    <3>7. \A k \in 1..Len(joined) : \E i \in 1..m + 1 : Leaves(joined[k], runs[i], input)
      <4>1. m + 1 \in 1..m + 1 /\ \A i \in 1..m : i \in 1..m + 1
        OBVIOUS
      <4> QED BY <2>2, <3>3, <3>6, <4>1
    <3> QED BY <3>1, <3>2, <3>5, <3>6, <3>7
  <2> QED BY <2>3, <2>4
<1>8. Good(n)
  <2>1. n \in 1..n
    BY <1>2
  <2> HIDE DEF Good
  <2>2. \A m \in Nat : m \in T
    <3> HIDE DEF T
    <3> QED BY <1>6, <1>7, SetInduction
  <2> QED BY <2>1, <2>2
<1>9. n \in 1..n
  BY <1>2
<1> QED BY <1>1, <1>5, <1>8, <1>9

LEMMA NoOverlap ==
  ASSUME NEW run \in Stretch, run.start < run.end, NEW input \in Stretch,
         input.start < input.end, Media!Overlap(run, input) = {}
  PROVE  Outside(run, input)
<1>1. /\ run.start \in Int /\ run.end \in Int
      /\ input.start \in Int /\ input.end \in Int
  BY StretchIs
<1>2. PICK start, stop : /\ start = Media!Max({run.start, input.start})
                         /\ stop = Media!Min({run.end, input.end})
  OBVIOUS
<1>3. /\ start \in Int /\ stop \in Int
      /\ start = IF run.start >= input.start THEN run.start ELSE input.start
      /\ stop = IF run.end <= input.end THEN run.end ELSE input.end
  BY <1>1, <1>2 DEF Media!Max, Media!Min
<1>4. start..stop - 1 = {}
  BY <1>2 DEF Media!Overlap
<1>5. start > stop - 1
  BY <1>3, <1>4
<1> QED BY <1>1, <1>3, <1>5 DEF Outside

(* What the input leaves missing.  A sample that lacks nothing is left as  *)
(* it is.                                                                  *)
FilledAs(sample, new, input) ==
  /\ IsSample(new)
  /\ new.location = sample.location
  /\ \A k \in 1..Len(new.missing) :
       /\ input.start < input.end => Outside(new.missing[k], input)
       /\ \E i \in 1..Len(sample.missing) : sample.missing[i].start <= new.missing[k].start

LEMMA FillIs ==
  ASSUME NEW sample, IsSample(sample), NEW input \in Stretch
  PROVE  FilledAs(sample, Media!Fill(sample, input), input)
<1>1. PICK missing : missing = sample.missing
  OBVIOUS
<1>2. /\ missing \in Seq(Stretch) /\ Len(missing) \in Nat /\ DOMAIN missing = 1..Len(missing)
      /\ Ordered(missing)
  BY <1>1 DEF IsSample
<1>3. PICK left : left = [i \in 1..Len(missing) |-> Media!LeftOf(missing[i], input)]
  OBVIOUS
<1>4. PICK rest : rest = Media!FlattenSeq(left)
  OBVIOUS
<1>5. missing # <<>> => /\ rest \in Seq(Stretch) /\ Ordered(rest)
                        /\ \A k \in 1..Len(rest) :
                             \E i \in 1..Len(missing) : Leaves(rest[k], missing[i], input)
  <2>1. rest = FlattenSeq(left)
    BY <1>4 DEF Media!FlattenSeq, FlattenSeq
  <2> QED BY <1>2, <1>3, <2>1, AllLeft
<1>6. PICK arrived : arrived = UNION {Media!Overlap(missing[i], input) : i \in DOMAIN missing}
  OBVIOUS
<1>7. missing = <<>> => arrived = {}
  BY <1>6
<1>8. PICK new : new = Media!Fill(sample, input)
  OBVIOUS
<1>9. \/ arrived = {} /\ new = sample
      \/ \E data : arrived # {} /\ new = [sample EXCEPT !.data = data, !.missing = rest]
  <2>1. PICK start, allocated : /\ start = sample.location.start
                                /\ allocated = IF sample.data # <<>> THEN sample.data
                                               ELSE Media!Allocation(sample.location)
    OBVIOUS
  <2>2. PICK data : data = [i \in DOMAIN allocated |-> IF start + i - 1 \in arrived
                                                       THEN start + i - 1 ELSE allocated[i]]
    OBVIOUS
  <2>3. \/ arrived = {} /\ new = sample
        \/ /\ arrived # {}
           /\ new = [sample EXCEPT !.data = data,
                       !.missing = Media!FlattenSeq([i \in DOMAIN @ |-> Media!LeftOf(@[i], input)])]
    <3>1. new = IF arrived = {} THEN sample
                ELSE [sample EXCEPT !.data = data,
                        !.missing = Media!FlattenSeq([i \in DOMAIN @ |-> Media!LeftOf(@[i], input)])]
      BY <1>1, <1>6, <1>8, <2>1, <2>2 DEF Media!Fill
    <3> QED BY <3>1
  <2>4. [sample EXCEPT !.data = data,
           !.missing = Media!FlattenSeq([i \in DOMAIN @ |-> Media!LeftOf(@[i], input)])]
          = [sample EXCEPT !.data = data, !.missing = rest]
    BY <1>1, <1>2, <1>3, <1>4 DEF IsSample
  <2> QED BY <2>3, <2>4, Zenon
<1>10. CASE arrived = {} /\ new = sample
  <2>1. ASSUME NEW k \in 1..Len(missing), input.start < input.end
        PROVE  Outside(missing[k], input)
    <3>1. PICK run \in Stretch : run = missing[k]
      BY <1>2
    <3>2. run.start < run.end
      BY <1>2, <3>1 DEF Ordered
    <3>3. Media!Overlap(run, input) = {}
      BY <1>2, <1>6, <1>10, <3>1
    <3> QED BY <2>1, <3>1, <3>2, <3>3, NoOverlap
  <2>2. ASSUME NEW k \in 1..Len(missing)
        PROVE  \E i \in 1..Len(missing) : missing[i].start <= missing[k].start
    <3>1. PICK run \in Stretch : run = missing[k]
      BY <1>2
    <3>2. run.start <= run.start
      BY StretchIs
    <3> QED BY <3>1, <3>2
  <2>3. \A k \in 1..Len(missing) :
          /\ input.start < input.end => Outside(missing[k], input)
          /\ \E i \in 1..Len(missing) : missing[i].start <= missing[k].start
    BY <2>1, <2>2
  <2> QED BY <1>1, <1>8, <1>10, <2>3 DEF FilledAs
<1>11. CASE \E data : arrived # {} /\ new = [sample EXCEPT !.data = data, !.missing = rest]
  <2>1. PICK data : arrived # {} /\ new = [sample EXCEPT !.data = data, !.missing = rest]
    BY <1>11
  <2>2. new = [location |-> sample.location, data |-> data, missing |-> rest]
    BY <2>1 DEF IsSample
  <2>3. /\ rest \in Seq(Stretch) /\ Ordered(rest)
        /\ \A k \in 1..Len(rest) :
             \E i \in 1..Len(missing) : Leaves(rest[k], missing[i], input)
    BY <1>5, <1>7, <2>1
  <2>4. /\ new.location = sample.location /\ new.missing = rest
        /\ new = [location |-> new.location, data |-> new.data, missing |-> new.missing]
    BY <2>2
  <2>5. \A k \in 1..Len(rest) :
          /\ input.start < input.end => Outside(rest[k], input)
          /\ \E i \in 1..Len(missing) : missing[i].start <= rest[k].start
    BY <2>3 DEF Leaves
  <2>6. IsSample(new)
    BY <2>3, <2>4 DEF IsSample
  <2> QED BY <1>1, <1>8, <2>4, <2>5, <2>6 DEF FilledAs
<1> QED BY <1>9, <1>10, <1>11

LEMMA HeldWithIs ==
  ASSUME NEW s, Gathering(s), NEW kept, AllPlaced(kept)
  PROVE  /\ Gathering(Media!HeldWith(s, kept))
         /\ Locations(Media!HeldWith(s, kept)) = Locations(s) \o kept
<1> DEFINE new == [i \in DOMAIN kept |-> Media!NewlyHeld(kept[i])]
<1>1. Sequence(s) /\ DOMAIN kept = 1..Len(kept) /\ Len(kept) \in Nat
  BY SequenceShape DEF Gathering, AllPlaced
<1>2. new = [i \in 1..Len(kept) |-> new[i]]
  BY <1>1
<1>3. ASSUME NEW i \in 1..Len(kept) PROVE IsSample(new[i]) /\ new[i].location = kept[i]
  <2>1. PICK run : run = Media!RunOf(kept[i].start, kept[i].end)
    OBVIOUS
  <2>2. run \in Seq(Stretch) /\ Ordered(run)
    BY <2>1, RunOfIs DEF AllPlaced, IsPlaced
  <2>3. new[i] = [location |-> kept[i], data |-> <<>>, missing |-> run]
    BY <1>1, <2>1 DEF Media!NewlyHeld
  <2> QED BY <2>2, <2>3 DEF IsSample
<1> HIDE DEF new
<1>4. Sequence(new) /\ Len(new) = Len(kept)
  BY <1>1, <1>2, SequenceOfAny
<1>5. PICK all : all = s \o new
  OBVIOUS
<1>6. /\ Sequence(all) /\ Len(all) = Len(s) + Len(kept) /\ Len(s) \in Nat
      /\ \A i \in 1..Len(s) : all[i] = s[i]
      /\ \A i \in 1..Len(kept) : all[Len(s) + i] = new[i]
  <2>1. Sequence(s) /\ Sequence(new)
    BY <1>1, <1>4
  <2>2. /\ Sequence(s \o new) /\ Len(s \o new) = Len(s) + Len(new) /\ Len(s) \in Nat
        /\ \A i \in 1..Len(s) : (s \o new)[i] = s[i]
        /\ \A i \in 1..Len(new) : (s \o new)[Len(s) + i] = new[i]
    BY ONLY <2>1, ConcatAny
  <2> QED BY <1>4, <1>5, <2>2
<1>7. \A k \in 1..Len(all) : k \in 1..Len(s) \/ \E i \in 1..Len(kept) : k = Len(s) + i
  <2> SUFFICES ASSUME NEW k \in 1..Len(all), ~(k \in 1..Len(s))
               PROVE  \E i \in 1..Len(kept) : k = Len(s) + i
    OBVIOUS
  <2>1. k - Len(s) \in 1..Len(kept) /\ k = Len(s) + (k - Len(s))
    BY <1>1, <1>6
  <2> QED BY <2>1
<1>8. Gathering(all)
  <2>1. \A k \in 1..Len(all) : IsSample(all[k])
    BY <1>3, <1>6, <1>7 DEF Gathering
  <2> QED BY <1>6, <2>1 DEF Gathering
<1>9. Locations(all) = Locations(s) \o kept
  <2>1. /\ Sequence(Locations(all)) /\ Len(Locations(all)) = Len(all)
        /\ \A k \in 1..Len(all) : Locations(all)[k] = all[k].location
    BY <1>6, LocationsAre
  <2>2. /\ Sequence(Locations(s)) /\ Len(Locations(s)) = Len(s)
        /\ \A k \in 1..Len(s) : Locations(s)[k] = s[k].location
    BY <1>1, LocationsAre
  <2>3. PICK both : both = Locations(s) \o kept
    OBVIOUS
  <2>4. /\ Sequence(both) /\ Len(both) = Len(s) + Len(kept)
        /\ \A i \in 1..Len(s) : both[i] = Locations(s)[i]
        /\ \A i \in 1..Len(kept) : both[Len(s) + i] = kept[i]
    <3> DEFINE l == Locations(s)
    <3>1. Sequence(l) /\ Sequence(kept)
      BY <2>2 DEF AllPlaced
    <3>2. both = l \o kept /\ Len(l) = Len(s)
      BY <2>2, <2>3
    <3> HIDE DEF l
    <3>3. /\ Sequence(l \o kept) /\ Len(l \o kept) = Len(l) + Len(kept)
          /\ \A i \in 1..Len(l) : (l \o kept)[i] = l[i]
          /\ \A i \in 1..Len(kept) : (l \o kept)[Len(l) + i] = kept[i]
      BY ONLY <3>1, ConcatAny
    <3> QED BY <3>2, <3>3 DEF l
  <2>5. \A k \in 1..Len(all) : Locations(all)[k] = both[k]
    <3> SUFFICES ASSUME NEW k \in 1..Len(all) PROVE all[k].location = both[k]
      BY <2>1
    <3>1. CASE k \in 1..Len(s)
      BY <1>6, <2>2, <2>4, <3>1
    <3>2. ASSUME NEW i \in 1..Len(kept), k = Len(s) + i PROVE all[k].location = both[k]
      BY <1>3, <1>6, <2>4, <3>2
    <3> QED BY <1>7, <3>1, <3>2
  <2> QED BY <1>6, <2>1, <2>3, <2>4, <2>5, EqualAny
<1> QED BY <1>5, <1>8, <1>9 DEF Media!HeldWith, new

LEMMA HeldAfterIs ==
  ASSUME NEW s, Gathering(s), NEW input \in Stretch
  PROVE  /\ Gathering(Media!HeldAfter(s, input))
         /\ Locations(Media!HeldAfter(s, input)) = Locations(s)
<1>1. Sequence(s) /\ DOMAIN s = 1..Len(s) /\ Len(s) \in Nat
  BY SequenceShape DEF Gathering
<1>2. PICK after : after = Media!HeldAfter(s, input)
  OBVIOUS
<1>3. after = [k \in 1..Len(s) |-> after[k]]
  BY <1>1, <1>2 DEF Media!HeldAfter
<1>4. ASSUME NEW k \in 1..Len(s) PROVE IsSample(after[k]) /\ after[k].location = s[k].location
  <2>1. PICK sample : sample = s[k]
    OBVIOUS
  <2>2. IsSample(sample)
    BY <2>1 DEF Gathering
  <2>3. after[k] = sample \/ after[k] = Media!Fill(sample, input)
    BY <1>1, <1>2, <2>1, Zenon DEF Media!HeldAfter
  <2> QED BY <2>1, <2>2, <2>3, FillIs DEF FilledAs
<1>5. Sequence(after) /\ Len(after) = Len(s)
  BY <1>1, <1>3, SequenceOfAny
<1>6. Locations(after) = Locations(s)
  <2>1. /\ Sequence(Locations(after)) /\ Len(Locations(after)) = Len(after)
        /\ \A k \in 1..Len(after) : Locations(after)[k] = after[k].location
    BY <1>5, LocationsAre
  <2>2. /\ Sequence(Locations(s)) /\ Len(Locations(s)) = Len(s)
        /\ \A k \in 1..Len(s) : Locations(s)[k] = s[k].location
    BY <1>1, LocationsAre
  <2>3. \A k \in 1..Len(Locations(after)) : Locations(after)[k] = Locations(s)[k]
    BY <1>4, <1>5, <2>1, <2>2
  <2> QED BY <1>5, <2>1, <2>2, <2>3, EqualAny
<1> QED BY <1>2, <1>4, <1>5, <1>6 DEF Gathering

HeldWithout(s, track) == Where(s, LAMBDA sample : sample.location.track # track)

LEMMA HeldWithoutIs ==
  ASSUME NEW s, Gathering(s), NEW track
  PROVE  /\ Gathering(HeldWithout(s, track))
         /\ Locations(HeldWithout(s, track)) = Without(Locations(s), track)
<1> DEFINE P == {k \in DOMAIN s : s[k].location.track # track}
           l == Locations(s)
<1>1. Sequence(s) /\ DOMAIN s = 1..Len(s) /\ Len(s) \in Nat
  BY SequenceShape DEF Gathering
<1>2. /\ Sequence(l) /\ DOMAIN l = 1..Len(s)
      /\ \A k \in 1..Len(s) : l[k] = s[k].location
  BY <1>1, LocationsAre
<1> HIDE DEF l
<1>3. P = {k \in DOMAIN l : l[k].track # track}
  BY <1>1, <1>2
<1>4. P \subseteq DOMAIN s /\ P \subseteq DOMAIN l
  BY <1>1, <1>2
<1>5. HeldWithout(s, track) = Picked(s, P)
  BY DEF HeldWithout, Where
<1>6. Without(l, track) = Picked(l, P)
  BY <1>3 DEF Without
<1> HIDE DEF P
<1>7. PICK rest : rest = Picked(s, P)
  OBVIOUS
<1>8. /\ Sequence(rest) /\ Len(rest) = Cardinality(P) /\ Cardinality(P) \in Nat
      /\ \A k \in 1..Cardinality(P) : Nth(P, k) \in P /\ rest[k] = s[Nth(P, k)]
  BY <1>1, <1>4, <1>7, PickedIs
<1>9. /\ Sequence(Picked(l, P)) /\ Len(Picked(l, P)) = Cardinality(P)
      /\ \A k \in 1..Cardinality(P) : Picked(l, P)[k] = l[Nth(P, k)]
  BY <1>2, <1>4, PickedIs
<1>10. Gathering(rest)
  <2>1. \A k \in 1..Len(rest) : IsSample(rest[k])
    BY <1>1, <1>4, <1>8 DEF Gathering
  <2> QED BY <1>8, <2>1 DEF Gathering
<1>11. Locations(rest) = Picked(l, P)
  <2>1. /\ Sequence(Locations(rest)) /\ Len(Locations(rest)) = Len(rest)
        /\ \A k \in 1..Len(rest) : Locations(rest)[k] = rest[k].location
    BY <1>8, LocationsAre
  <2>2. \A k \in 1..Len(Locations(rest)) : Locations(rest)[k] = Picked(l, P)[k]
    <3> SUFFICES ASSUME NEW k \in 1..Cardinality(P) PROVE rest[k].location = l[Nth(P, k)]
      BY <1>8, <1>9, <2>1
    <3>1. Nth(P, k) \in 1..Len(s) /\ rest[k] = s[Nth(P, k)]
      BY <1>1, <1>4, <1>8
    <3> QED BY <1>2, <3>1
  <2> QED BY <1>8, <1>9, <2>1, <2>2, EqualAny
<1> QED BY <1>5, <1>6, <1>7, <1>10, <1>11 DEF l
-------------------------------------------------------------------------------
(* A STEP OF THE BOXES                                                     *)

(* The samples that a step locates are those that it holds, but for the    *)
(* tracks discarded, behind those held before.                             *)
Locating(step) ==
  /\ Reading(step.reader)
  /\ Sequence(step.samples)
  /\ Gathering(step.held)
  /\ Locations(step.held) = Locations(held) \o Left(step.samples, discarded)

LEMMA StepLocates ==
  ASSUME Reading(reader), Gathering(held), NEW event, NEW at, NEW next
  PROVE  /\ Locating(Step(event, at, next))
         /\ Step(event, at, next).open = next
         /\ Step(event, at, next).position = at
         /\ Step(event, at, next).answer = event
<1>1. PICK step : step = Step(event, at, next)
  OBVIOUS
<1>2. /\ step.reader = reader /\ step.held = held /\ step.samples = <<>>
      /\ step.open = next /\ step.position = at /\ step.answer = event
  BY <1>1 DEF Step
<1>3. Left(<<>>, discarded) = <<>>
  <2>1. AllIn(<<>>, {})
    BY DEF AllIn
  <2>2. Left(<<>>, discarded) = Those(<<>>, {e \in {} : e.track \notin discarded})
    BY <2>1, LeftIs
  <2>3. \A i \in DOMAIN <<>> : <<>>[i] \notin {e \in {} : e.track \notin discarded}
    OBVIOUS
  <2> QED BY <2>2, <2>3, ThoseNone
<1>4. Locations(held) \o <<>> = Locations(held)
  <2>1. Sequence(Locations(held))
    BY LocationsAre DEF Gathering
  <2> QED BY <2>1, ConcatFew
<1> QED BY <1>1, <1>2, <1>3, <1>4, NoElement DEF Locating

LEMMA ClosedLocates ==
  ASSUME Reading(reader), Gathering(held), NEW read, Gives(read), NEW i, NEW at
  PROVE  /\ Locating(Closed(read, i, at))
         /\ Closed(read, i, at).open = i + 1
         /\ Closed(read, i, at).position = at
         /\ Closed(read, i, at).answer \notin {"none", "end"}
<1>1. PICK samples : samples = InThisFile(read.samples)
  OBVIOUS
<1>2. PICK kept : kept = Left(samples, discarded)
  OBVIOUS
<1>3. AllPlaced(samples)
  <2> DEFINE P == {k \in DOMAIN read.samples : read.samples[k].here}
  <2>1. P \subseteq DOMAIN read.samples
    OBVIOUS
  <2>2. samples = Picked(read.samples, P)
    BY <1>1 DEF InThisFile, Where
  <2> HIDE DEF P
  <2> QED BY <2>1, <2>2, PickedPlaced DEF Gives
<1>4. AllPlaced(kept)
  <2> DEFINE P == {k \in DOMAIN samples : samples[k].track \notin discarded}
  <2>1. P \subseteq DOMAIN samples
    OBVIOUS
  <2>2. kept = Picked(samples, P)
    BY <1>2 DEF Left
  <2> HIDE DEF P
  <2> QED BY <1>3, <2>1, <2>2, PickedPlaced
<1>5. PICK step : step = Step(read.answer, at, i + 1)
  OBVIOUS
<1>6. /\ Locating(step) /\ step.open = i + 1 /\ step.position = at /\ step.answer = read.answer
  BY <1>5, StepLocates
<1>7. step = [answer |-> read.answer, position |-> at, open |-> i + 1,
              reader |-> reader, held |-> held, samples |-> <<>>]
  BY <1>5 DEF Step
<1>8. PICK closed : closed = [step EXCEPT !.reader = read.reader]
  OBVIOUS
<1>9. /\ closed.reader = read.reader /\ closed.held = step.held /\ closed.samples = step.samples
      /\ closed.answer = read.answer /\ closed.open = i + 1 /\ closed.position = at
      /\ closed = [answer |-> read.answer, position |-> at, open |-> i + 1,
                   reader |-> read.reader, held |-> held, samples |-> <<>>]
  BY <1>7, <1>8
<1>10. Locating(closed)
  BY <1>6, <1>9 DEF Locating, Gives
<1>11. kept = Where(samples, IsKept)
  BY <1>2 DEF Left, Where, IsKept
<1>12. PICK gathers : gathers = Media!HeldWith(held, kept)
  OBVIOUS
<1>13. PICK new : new = Closed(read, i, at)
  OBVIOUS
<1>18. read.answer # "none" /\ read.answer # "end"
  BY AnswersAreNoOthers DEF Gives
<1>14. \/ new = closed /\ read.answer # "ok"
       \/ new = [closed EXCEPT !.answer = "past limit"]
       \/ new = [closed EXCEPT !.answer = "event", !.held = gathers, !.samples = samples]
  BY <1>1, <1>5, <1>8, <1>11, <1>12, <1>13, Zenon DEF Closed
<1>15. CASE new = closed
  BY <1>9, <1>10, <1>13, <1>15, <1>18
<1>16. CASE new = [closed EXCEPT !.answer = "past limit"]
  <2>1. /\ new.reader = closed.reader /\ new.held = closed.held /\ new.samples = closed.samples
        /\ new.open = closed.open /\ new.position = closed.position /\ new.answer = "past limit"
    BY <1>9, <1>16
  <2>2. Locating(new)
    BY <1>10, <2>1 DEF Locating
  <2> QED BY <1>9, <1>13, <2>1, <2>2
<1>17. CASE new = [closed EXCEPT !.answer = "event", !.held = gathers, !.samples = samples]
  <2>1. /\ new.reader = read.reader /\ new.held = gathers /\ new.samples = samples
        /\ new.open = i + 1 /\ new.position = at /\ new.answer = "event"
    BY <1>9, <1>17
  <2>2. Gathering(gathers) /\ Locations(gathers) = Locations(held) \o kept
    BY <1>4, <1>12, HeldWithIs
  <2>3. Locating(new)
    BY <1>2, <1>3, <2>1, <2>2 DEF Locating, Gives, AllPlaced
  <2> QED BY <1>13, <2>1, <2>3
<1> QED BY <1>14, <1>15, <1>16, <1>17

LEMMA BoxIs ==
  ASSUME file \in Files, open \in Nat \ {0}
  PROVE  /\ Len(Boxes) \in Nat /\ DOMAIN Boxes = 1..Len(Boxes)
         /\ ~(open > Len(Boxes)) => open \in DOMAIN Boxes
<1>1. Boxes \in Seq(Contents!FileBox)
  BY FilesAssumption DEF Boxes
<1> QED BY <1>1

(* The cases of a step of the boxes, and where it leads.                   *)
LEMMA BoxStepCases ==
  ASSUME NEW upTo
  PROVE  \/ /\ ~BoxesWant \/ upTo <= position \/ open > Len(Boxes)
            /\ BoxStep(upTo) = Step("none", position, open)
         \/ /\ BoxesWant /\ ~(upTo <= position) /\ ~(open > Len(Boxes))
            /\ \/ \E at, next : /\ next \in {open, open + 1}
                               /\ BoxStep(upTo) = Step("event", at, next)
               \/ BoxStep(upTo) = Step("past limit", position, open)
               \/ /\ ~Skipped(Boxes[open])
                  /\ BoxStep(upTo) = Close(open, BoxEnd(open))
               \/ /\ ~Skipped(Boxes[open])
                  /\ ~(upTo >= GatheredUpTo(open)) \/ RunsToFileEnd(open)
                  /\ BoxStep(upTo) = Step("none", Min({upTo, GatheredUpTo(open)}), open)
<1>1. open \in {open, open + 1} /\ open + 1 \in {open, open + 1}
  OBVIOUS
<1>2. CASE ~BoxesWant \/ upTo <= position \/ open > Len(Boxes)
  BY <1>2, Zenon DEF BoxStep
<1>3. CASE ~(~BoxesWant \/ upTo <= position \/ open > Len(Boxes)) /\ Skipped(Boxes[open])
  <2>1. \/ BoxStep(upTo) = Step("event", GatheredUpTo(open), open)
        \/ BoxStep(upTo) = Step("event", BoxEnd(open), open + 1)
    BY <1>3, Zenon DEF BoxStep
  <2> QED BY <1>1, <1>3, <2>1, Zenon
<1>4. CASE ~(~BoxesWant \/ upTo <= position \/ open > Len(Boxes)) /\ ~Skipped(Boxes[open])
  <2>1. \/ BoxStep(upTo) = Step("past limit", position, open)
        \/ BoxStep(upTo) = Close(open, BoxEnd(open))
        \/ /\ ~(upTo >= GatheredUpTo(open)) \/ RunsToFileEnd(open)
           /\ BoxStep(upTo) = Step("none", Min({upTo, GatheredUpTo(open)}), open)
    BY <1>4, Zenon DEF BoxStep
  <2> QED BY <1>4, <2>1, Zenon
<1> QED BY <1>2, <1>3, <1>4

LEMMA BoxStepLocates ==
  ASSUME file \in Files, open \in Nat \ {0}, Reading(reader), Gathering(held), NEW upTo
  PROVE  Locating(BoxStep(upTo)) /\ BoxStep(upTo).open \in Nat \ {0}
<1>1. \/ \E event, at, next : /\ next \in {open, open + 1}
                             /\ BoxStep(upTo) = Step(event, at, next)
      \/ /\ open \in DOMAIN Boxes
         /\ BoxStep(upTo) = Close(open, BoxEnd(open))
  <2>1. open \in {open, open + 1}
    OBVIOUS
  <2> QED BY <2>1, BoxStepCases, BoxIs, Zenon
<1>2. CASE \E event, at, next : /\ next \in {open, open + 1}
                              /\ BoxStep(upTo) = Step(event, at, next)
  <2>1. PICK event, at, next : /\ next \in {open, open + 1}
                               /\ BoxStep(upTo) = Step(event, at, next)
    BY <1>2
  <2>2. Locating(Step(event, at, next)) /\ Step(event, at, next).open = next
    BY StepLocates
  <2> QED BY <2>1, <2>2
<1>3. CASE open \in DOMAIN Boxes /\ BoxStep(upTo) = Close(open, BoxEnd(open))
  <2>1. Gives(ReadValue(open))
    BY <1>3, ReadValueGives DEF Boxes
  <2>2. /\ Locating(Closed(ReadValue(open), open, BoxEnd(open)))
        /\ Closed(ReadValue(open), open, BoxEnd(open)).open = open + 1
    BY <2>1, ClosedLocates
  <2> QED BY <1>3, <2>2 DEF Close
<1> QED BY <1>1, <1>2, <1>3

LEMMA LastStepLocates ==
  ASSUME file \in Files, open \in Nat \ {0}, Reading(reader), Gathering(held)
  PROVE  Locating(LastStep) /\ LastStep.open \in Nat \ {0}
<1>1. \/ \E event : LastStep = Step(event, position, open)
      \/ open \in DOMAIN Boxes /\ LastStep = Close(open, position)
  BY Zenon DEF LastStep, EndsWithFile
<1>2. ASSUME NEW event, LastStep = Step(event, position, open)
      PROVE  Locating(LastStep) /\ LastStep.open \in Nat \ {0}
  <2>1. /\ Locating(Step(event, position, open))
        /\ Step(event, position, open).open = open
    BY StepLocates
  <2> QED BY <1>2, <2>1
<1>3. CASE open \in DOMAIN Boxes /\ LastStep = Close(open, position)
  <2>1. Gives(ReadValue(open))
    BY <1>3, ReadValueGives DEF Boxes
  <2>2. /\ Locating(Closed(ReadValue(open), open, position))
        /\ Closed(ReadValue(open), open, position).open = open + 1
    BY <2>1, ClosedLocates
  <2> QED BY <1>3, <2>2 DEF Close
<1> QED BY <1>1, <1>2, <1>3
-------------------------------------------------------------------------------
(* THE SAMPLES COME IN THEIR ORDER                                         *)

(* The samples taken, and those held behind them, are those located.       *)
DemuxerInv ==
  /\ file \in Files
  /\ open \in Nat \ {0}
  /\ Reading(reader)
  /\ Gathering(held)
  /\ Sequence(taken)
  /\ Sequence(located)
  /\ answer # "past limit" => Left(Locations(taken) \o Locations(held), discarded)
                                = Left(located, discarded)

LEMMA InvIsInOrder ==
  DemuxerInv => InOrderLocated
BY Zenon DEF DemuxerInv, InOrderLocated, Through, Where, IsKept, Left, Locations

LEMMA NothingGathered ==
  Gathering(<<>>) /\ Locations(<<>>) = <<>>
<1>1. Gathering(<<>>)
  <2>1. \A k \in 1..Len(<<>>) : IsSample(<<>>[k])
    BY NoElement
  <2> QED BY <2>1, NoElement DEF Gathering
<1>2. Locations(<<>>) = <<>>
  <2>1. Sequence(Locations(<<>>)) /\ Len(Locations(<<>>)) = 0
    BY NoElement, LocationsAre
  <2>2. \A i \in 1..Len(Locations(<<>>)) : Locations(<<>>)[i] = <<>>[i]
    BY <2>1
  <2> QED BY <2>1, <2>2, NoElement, EqualAny
<1> QED BY <1>1, <1>2

LEMMA InitInv ==
  Init => DemuxerInv
<1> SUFFICES ASSUME Init PROVE DemuxerInv
  OBVIOUS
<1>1. Reading(reader)
  <2>1. reader = [movie |-> FALSE, times |-> <<>>, leniencies |-> <<>>,
                  identified |-> <<>>, waiting |-> <<>>, indexes |-> <<>>,
                  randomAccess |-> FALSE, compressed |-> NoCompressedBox]
    BY DEF Init, NewReader
  <2>2. IsReader(reader) /\ reader.waiting = <<>>
    BY <2>1 DEF IsReader
  <2>3. NoCompressedBox.boxes = <<>> /\ IsRecord(NoCompressedBox)
    BY DEF NoCompressedBox, IsRecord
  <2>4. Recording(NoCompressedBox)
    BY <2>3 DEF Recording
  <2>5. reader.compressed = NoCompressedBox /\ reader.identified = <<>>
    BY <2>1
  <2>6. \A id : id \notin DOMAIN <<>>
    OBVIOUS
  <2>7. \A id \in DOMAIN reader.identified : reader.identified[id] \in Int
    BY <2>5, <2>6, Zenon
  <2> QED BY <2>2, <2>4, <2>5, <2>7, NonePlaced DEF Reading
<1>2. /\ file \in Files /\ open = 1 /\ held = <<>> /\ taken = <<>> /\ located = <<>>
  BY DEF Init
<1>3. Locations(taken) \o Locations(held) = located
  BY <1>2, NothingGathered, NoElement, ConcatFew
<1>4. Gathering(held) /\ Sequence(taken) /\ Sequence(located) /\ open \in Nat \ {0}
  BY <1>2, NothingGathered, NoElement
<1>5. Left(Locations(taken) \o Locations(held), discarded) = Left(located, discarded)
  BY <1>3, Zenon
<1> QED BY <1>1, <1>2, <1>4, <1>5, Zenon DEF DemuxerInv

(* A step that locates samples.                                            *)
LEMMA LocatingKeeps ==
  ASSUME DemuxerInv, answer # "past limit",
         NEW step, Locating(step), NEW after, Gathering(after), Locations(after) = Locations(step.held)
  PROVE  /\ Sequence(located \o step.samples)
         /\ Left(Locations(taken) \o Locations(after), discarded)
              = Left(located \o step.samples, discarded)
<1>1. PICK first, rest, more, new :
        /\ first = Locations(taken) /\ rest = Locations(held) /\ more = step.samples
        /\ new = Left(more, discarded)
  OBVIOUS
<1>2. Sequence(first) /\ Sequence(rest) /\ Sequence(more) /\ Sequence(located)
  BY <1>1, LocationsAre DEF DemuxerInv, Gathering, Locating
<1>3. Sequence(new)
  BY <1>1, <1>2, LeftSequence
<1>4. Left(first \o rest, discarded) = Left(located, discarded)
  BY <1>1 DEF DemuxerInv
<1>5. Sequence(first \o rest)
  BY <1>2, ConcatAny
<1>6. Left((first \o rest) \o new, discarded) = Left(located \o more, discarded)
  <2>1. PICK all : all = first \o rest
    OBVIOUS
  <2>2. Sequence(all) /\ Sequence(located) /\ Sequence(more)
    BY <1>2, <1>5, <2>1
  <2>3. Left(all, discarded) = Left(located, discarded)
    BY <1>4, <2>1
  <2>4. Left(all \o Left(more, discarded), discarded) = Left(located \o more, discarded)
    BY ONLY <2>2, <2>3, LocatedBehind
  <2>5. new = Left(more, discarded)
    BY <1>1
  <2> QED BY ONLY <2>1, <2>4, <2>5
<1>7. (first \o rest) \o new = first \o (rest \o new)
  BY ONLY <1>2, <1>3, ConcatAgain
<1>8. Locations(after) = rest \o new
  BY <1>1 DEF Locating
<1> QED BY <1>1, <1>2, <1>6, <1>7, <1>8, ConcatAny

LEMMA HandleInputKeeps ==
  ASSUME DemuxerInv, NEW offset \in Int, NEW upTo \in Int, HandleInput(offset, upTo)
  PROVE  DemuxerInv'
<1>1. PICK step, gathered :
        /\ step = BoxStep(upTo)
        /\ gathered = Gathered(step, [start |-> offset, end |-> upTo])
        /\ held' = gathered.held
        /\ open' = step.open
        /\ reader' = step.reader
        /\ located' = located \o step.samples
  BY Zenon DEF HandleInput
<1>2. /\ ~Failed /\ file' = file /\ discarded' = discarded /\ taken' = taken
  BY DEF HandleInput
<1>3. Locating(step) /\ step.open \in Nat \ {0}
  BY <1>1, BoxStepLocates DEF DemuxerInv
<1>4. Gathering(gathered.held) /\ Locations(gathered.held) = Locations(step.held)
  <2>1. Gathering(step.held)
    BY <1>3 DEF Locating
  <2>0. PICK input \in Stretch : input = [start |-> offset, end |-> upTo]
    BY DEF Stretch
  <2>2. \/ gathered = [answer |-> "full", held |-> step.held]
        \/ gathered = [answer |-> "none", held |-> Media!HeldAfter(step.held, input)]
    BY <1>1, <2>0, Zenon DEF Gathered
  <2>3. \A a, h : [answer |-> a, held |-> h].held = h
    OBVIOUS
  <2>4. gathered.held = step.held \/ gathered.held = Media!HeldAfter(step.held, input)
    BY <2>2, <2>3, Zenon
  <2> QED BY <2>1, <2>4, HeldAfterIs
<1>5. answer # "past limit"
  BY <1>2 DEF Failed
<1>6. /\ Sequence(located')
      /\ Left(Locations(taken) \o Locations(held'), discarded) = Left(located', discarded)
  BY <1>1, <1>3, <1>4, <1>5, LocatingKeeps
<1>7. Reading(reader')
  BY <1>1, <1>3 DEF Locating
<1> QED BY <1>1, <1>2, <1>3, <1>4, <1>6, <1>7 DEF DemuxerInv

LEMMA FinishKeeps ==
  ASSUME DemuxerInv, Finish
  PROVE  DemuxerInv'
<1>1. PICK step :
        /\ step = LastStep
        /\ held' = step.held
        /\ open' = step.open
        /\ reader' = step.reader
        /\ located' = located \o step.samples
  BY Zenon DEF Finish
<1>2. /\ ~Failed /\ file' = file /\ discarded' = discarded /\ taken' = taken
  BY DEF Finish
<1>3. Locating(step) /\ step.open \in Nat \ {0}
  BY <1>1, LastStepLocates DEF DemuxerInv
<1>4. Gathering(step.held) /\ Reading(reader')
  BY <1>1, <1>3 DEF Locating
<1>5. answer # "past limit"
  BY <1>2 DEF Failed
<1>6. /\ Sequence(located')
      /\ Left(Locations(taken) \o Locations(held'), discarded) = Left(located', discarded)
  BY <1>1, <1>3, <1>4, <1>5, LocatingKeeps
<1> QED BY <1>1, <1>2, <1>3, <1>4, <1>6 DEF DemuxerInv

LEMMA PollSampleKeeps ==
  ASSUME DemuxerInv, PollSample
  PROVE  DemuxerInv'
<1>1. PICK sample, rest : sample = Head(held) /\ rest = Tail(held)
  OBVIOUS
<1>2. PICK out : out = [location |-> sample.location, data |-> sample.data]
  OBVIOUS
<1>3. /\ held # <<>> /\ held' = rest /\ taken' = Append(taken, out)
      /\ file' = file /\ open' = open /\ reader' = reader /\ discarded' = discarded
      /\ answer' = answer /\ located' = located
  BY <1>1, <1>2 DEF PollSample, boxReader
<1>4. Sequence(held) /\ Sequence(taken) /\ \A k \in 1..Len(held) : IsSample(held[k])
  BY DEF DemuxerInv, Gathering
<1>5. Len(held) \in Nat /\ Len(held) > 0
  <2>1. held \in Seq(Range(held))
    BY <1>4 DEF Sequence
  <2> QED BY <1>3, <2>1, EmptySeq
<1>6. /\ Sequence(rest) /\ Len(rest) = Len(held) - 1
      /\ \A i \in 1..Len(held) - 1 : rest[i] = held[i + 1]
      /\ sample = held[1]
  BY <1>1, <1>4, <1>5, TailAny
<1>7. Gathering(rest)
  <2>1. \A k \in 1..Len(rest) : IsSample(rest[k])
    <3> SUFFICES ASSUME NEW k \in 1..Len(held) - 1 PROVE IsSample(rest[k])
      BY <1>6
    <3>1. k + 1 \in 1..Len(held) /\ rest[k] = held[k + 1]
      BY <1>5, <1>6
    <3> QED BY <1>4, <3>1
  <2> QED BY <1>6, <2>1 DEF Gathering
<1>8. PICK first, place : first = Locations(taken) /\ place = out.location
  OBVIOUS
<1>9. place = sample.location
  BY <1>2, <1>8
<1>10. PICK new : new = Append(taken, out)
  OBVIOUS
<1>11. /\ Sequence(new) /\ Len(new) = Len(taken) + 1 /\ Len(taken) \in Nat
       /\ \A i \in 1..Len(taken) : new[i] = taken[i]
       /\ new[Len(taken) + 1] = out
  BY <1>4, <1>10, AppendAny
<1>12. /\ Sequence(first) /\ Len(first) = Len(taken)
       /\ \A k \in 1..Len(taken) : first[k] = taken[k].location
  BY <1>4, <1>8, LocationsAre
<1>13. Sequence(<<place>>) /\ Len(<<place>>) = 1 /\ <<place>>[1] = place
  BY OneElement
<1>14. Locations(new) = first \o <<place>>
  <2>1. /\ Sequence(Locations(new)) /\ Len(Locations(new)) = Len(new)
        /\ \A k \in 1..Len(new) : Locations(new)[k] = new[k].location
    BY <1>11, LocationsAre
  <2>2. /\ Sequence(first \o <<place>>) /\ Len(first \o <<place>>) = Len(first) + Len(<<place>>)
        /\ \A i \in 1..Len(first) : (first \o <<place>>)[i] = first[i]
        /\ \A i \in 1..Len(<<place>>) : (first \o <<place>>)[Len(first) + i] = <<place>>[i]
    BY <1>12, <1>13, ConcatAny
  <2>4. (first \o <<place>>)[Len(taken) + 1] = place
    <3>1. 1 \in 1..Len(<<place>>)
      BY <1>13
    <3>2. (first \o <<place>>)[Len(first) + 1] = <<place>>[1]
      BY <2>2, <3>1
    <3> QED BY <1>12, <1>13, <3>2
  <2>3. \A k \in 1..Len(new) : Locations(new)[k] = (first \o <<place>>)[k]
    <3> SUFFICES ASSUME NEW k \in 1..Len(taken) + 1 PROVE new[k].location = (first \o <<place>>)[k]
      BY <1>11, <2>1
    <3>1. CASE k = Len(taken) + 1
      <4>1. new[k] = out
        BY <1>11, <3>1
      <4> QED BY <1>8, <2>4, <3>1, <4>1
    <3>2. CASE k \in 1..Len(taken)
      <4>1. new[k] = taken[k] /\ first[k] = taken[k].location
        BY <1>11, <1>12, <3>2
      <4>2. (first \o <<place>>)[k] = first[k]
        BY <1>12, <2>2, <3>2
      <4> QED BY <4>1, <4>2
    <3>3. k = Len(taken) + 1 \/ k \in 1..Len(taken)
      BY <1>11
    <3> QED BY <3>1, <3>2, <3>3
  <2> QED BY <1>11, <1>12, <1>13, <2>1, <2>2, <2>3, EqualAny
<1>15. Locations(held) = <<place>> \o Locations(rest)
  <2>1. PICK l : l = Locations(rest)
    OBVIOUS
  <2>2. /\ Sequence(l) /\ Len(l) = Len(held) - 1
        /\ \A k \in 1..Len(held) - 1 : l[k] = rest[k].location
    BY <1>6, <2>1, LocationsAre
  <2>3. /\ Sequence(Locations(held)) /\ Len(Locations(held)) = Len(held)
        /\ \A k \in 1..Len(held) : Locations(held)[k] = held[k].location
    BY <1>4, LocationsAre
  <2>4. /\ Sequence(<<place>> \o l) /\ Len(<<place>> \o l) = 1 + Len(l)
        /\ (<<place>> \o l)[1] = place
        /\ \A i \in 1..Len(l) : (<<place>> \o l)[1 + i] = l[i]
    BY <1>13, <2>2, ConcatAny
  <2>5. \A k \in 1..Len(held) : Locations(held)[k] = (<<place>> \o l)[k]
    <3> SUFFICES ASSUME NEW k \in 1..Len(held) PROVE held[k].location = (<<place>> \o l)[k]
      BY <2>3
    <3>1. CASE k = 1
      BY <1>6, <1>9, <2>4, <3>1
    <3>2. CASE k # 1
      <4>1. k - 1 \in 1..Len(held) - 1 /\ 1 + (k - 1) = k /\ (k - 1) + 1 = k
        BY <1>5, <3>2
      <4>2. (<<place>> \o l)[k] = l[k - 1]
        BY <2>2, <2>4, <4>1
      <4>3. l[k - 1] = rest[k - 1].location /\ rest[k - 1] = held[k]
        BY <1>6, <2>2, <4>1
      <4> QED BY <4>2, <4>3
    <3> QED BY <3>1, <3>2
  <2>6. 1 + Len(l) = Len(held)
    BY <1>5, <2>2
  <2> QED BY <2>1, <2>3, <2>4, <2>5, <2>6, EqualAny
<1>16. Locations(new) \o Locations(rest) = first \o Locations(held)
  <2>1. Sequence(Locations(rest))
    BY <1>6, LocationsAre
  <2>2. (first \o <<place>>) \o Locations(rest) = first \o (<<place>> \o Locations(rest))
    BY <1>12, <1>13, <2>1, ConcatAgain
  <2> QED BY <1>14, <1>15, <2>2
<1> QED BY <1>3, <1>7, <1>8, <1>10, <1>11, <1>16 DEF DemuxerInv

LEMMA DiscardTrackKeeps ==
  ASSUME DemuxerInv, NEW track, DiscardTrack(track)
  PROVE  DemuxerInv'
<1>1. PICK rest : rest = HeldWithout(held, track)
  OBVIOUS
<1>2. /\ held' = rest /\ discarded' = discarded \cup {track}
      /\ file' = file /\ open' = open /\ reader' = reader /\ taken' = taken
      /\ answer' = answer /\ located' = located
  BY <1>1 DEF DiscardTrack, HeldWithout, boxReader
<1>3. Gathering(rest) /\ Locations(rest) = Without(Locations(held), track)
  <2>1. Gathering(held)
    BY DEF DemuxerInv
  <2>2. Gathering(HeldWithout(held, track))
        /\ Locations(HeldWithout(held, track)) = Without(Locations(held), track)
    BY ONLY <2>1, HeldWithoutIs
  <2> QED BY <1>1, <2>2
<1>4. ASSUME answer # "past limit"
      PROVE  Left(Locations(taken) \o Locations(rest), discarded \cup {track})
               = Left(located, discarded \cup {track})
  <2>1. PICK first, places : first = Locations(taken) /\ places = Locations(held)
    OBVIOUS
  <2>2. /\ Sequence(first) /\ Sequence(places) /\ Sequence(located)
        /\ Left(first \o places, discarded) = Left(located, discarded)
    BY <1>4, <2>1, LocationsAre DEF DemuxerInv, Gathering
  <2>3. Left(first \o Without(places, track), discarded \cup {track})
          = Left(located, discarded \cup {track})
    BY <2>2, DiscardedBehind
  <2> QED BY <1>3, <2>1, <2>3
<1> QED BY <1>2, <1>3, <1>4 DEF DemuxerInv

LEMMA ResumeAtKeeps ==
  ASSUME DemuxerInv, NEW i \in DOMAIN Boxes, ResumeAt(i)
  PROVE  DemuxerInv'
<1>1. /\ held' = <<>> /\ taken' = <<>> /\ located' = <<>>
      /\ open' = i /\ reader' = Resume(reader) /\ file' = file
  BY DEF ResumeAt, HeldOnResume
<1>2. i \in Nat \ {0}
  <2>1. DOMAIN Boxes = 1..Len(Boxes)
    BY BoxIs DEF DemuxerInv
  <2>2. i \in 1..Len(Boxes)
    BY <2>1
  <2> QED BY <2>2
<1>3. Reading(Resume(reader))
  <2>1. PICK times, compressed :
          /\ times = [t \in DOMAIN reader.times |-> [time |-> None, afterSample |-> FALSE]]
          /\ compressed = Resumed(reader.compressed)
    OBVIOUS
  <2>2. Resume(reader) = [reader EXCEPT !.times = times, !.waiting = <<>>, !.compressed = compressed]
    BY <2>1 DEF Resume
  <2>3. /\ IsReader(Resume(reader)) /\ Resume(reader).waiting = <<>>
        /\ Resume(reader).compressed = compressed /\ Resume(reader).identified = reader.identified
    BY <2>2 DEF DemuxerInv, Reading, IsReader
  <2>4. Recording(compressed)
    BY <2>1 DEF Resumed, DemuxerInv, Reading, Recording, IsRecord
  <2> QED BY <2>3, <2>4, NonePlaced DEF Reading, DemuxerInv
<1>4. Locations(taken') \o Locations(held') = located'
  BY <1>1, NothingGathered, NoElement, ConcatFew
<1> QED BY <1>1, <1>2, <1>3, <1>4, NothingGathered, NoElement DEF DemuxerInv

LEMMA NextKeeps ==
  DemuxerInv /\ [Next]_vars => DemuxerInv'
<1> SUFFICES ASSUME DemuxerInv, [Next]_vars PROVE DemuxerInv'
  OBVIOUS
<1>1. CASE Read
  <2>1. PICK offset \in 0..file.length : \E upTo \in offset..file.length : HandleInput(offset, upTo)
    BY <1>1 DEF Read
  <2>2. PICK upTo \in offset..file.length : HandleInput(offset, upTo)
    BY <2>1
  <2>3. offset \in Int /\ upTo \in Int
    OBVIOUS
  <2> QED BY <2>2, <2>3, HandleInputKeeps
<1>2. CASE Finish
  BY <1>2, FinishKeeps
<1>3. CASE PollSample
  BY <1>3, PollSampleKeeps
<1>4. CASE \E track \in Tracks : DiscardTrack(track)
  BY <1>4, DiscardTrackKeeps
<1>5. CASE \E i \in DOMAIN Boxes : ResumeAt(i)
  BY <1>5, ResumeAtKeeps
<1>6. CASE UNCHANGED vars
  BY <1>6 DEF vars, boxReader, DemuxerInv
<1> QED BY <1>1, <1>2, <1>3, <1>4, <1>5, <1>6 DEF Next

(* The samples that poll_sample has returned and those still held are, but *)
(* for the tracks discarded, the ones that the events have located, in     *)
(* their order and each once: however the input is cut, repeated or        *)
(* refused, and wherever tracks are discarded between.                     *)
THEOREM SamplesInOrder ==
  Spec => []InOrderLocated
<1>1. Init => DemuxerInv
  BY InitInv
<1>2. DemuxerInv /\ [Next]_vars => DemuxerInv'
  BY NextKeeps
<1>3. DemuxerInv => InOrderLocated
  BY InvIsInOrder
<1> QED BY <1>1, <1>2, <1>3, PTL DEF Spec

-------------------------------------------------------------------------------
(* NO INPUT IS REFUSED                                                     *)

(* Where the boxes of the file lie.                                        *)
LEMMA BoxesLie ==
  ASSUME file \in Files
  PROVE  /\ Len(Boxes) \in Nat /\ DOMAIN Boxes = 1..Len(Boxes)
         /\ BoxStart(1) = 0
         /\ \A i \in 1..Len(Boxes) + 1 : BoxStart(i) \in Nat
         /\ \A i \in 1..Len(Boxes) : BoxEnd(i) = BoxStart(i + 1)
         /\ file.length \in Nat /\ file.length <= BoxStart(Len(Boxes) + 1)
<1>1. /\ file.boxes \in Seq(Contents!FileBox)
      /\ file.length \in Nat
      /\ file.length <= Contents!LengthBefore(file.boxes, Len(file.boxes) + 1)
  BY FilesAssumption
<1> QED BY <1>1, BeforeIs DEF Boxes, BoxStart, BoxEnd, Before

LEMMA GatheredIs ==
  ASSUME file \in Files, NEW i \in 1..Len(Boxes)
  PROVE  /\ GatheredUpTo(i) \in Nat
         /\ BoxStart(i) < GatheredUpTo(i) /\ GatheredUpTo(i) <= BoxEnd(i)
         /\ ~Skipped(Boxes[i]) /\ ~GathersHead(Boxes[i]) => GatheredUpTo(i) = BoxEnd(i)
<1>1. /\ file.boxes \in Seq(Contents!FileBox)
      /\ \A n \in DOMAIN file.boxes : file.boxes[n].payload > 0
  BY FilesAssumption
<1>2. /\ Boxes[i].payload \in Nat /\ Boxes[i].payload > 0
      /\ Contents!Length(Boxes[i]) = Boxes[i].payload + 1
  BY <1>1, LengthsAre DEF Boxes
<1>3. PICK start : start = BoxStart(i)
  OBVIOUS
<1>4. start \in Nat
  BY <1>3, BoxesLie
<1>5. /\ HeaderEnd(i) = start + 1
      /\ IdentifierEnd(i) = start + 2
      /\ BoxEnd(i) = start + (Boxes[i].payload + 1)
  BY <1>2, <1>3, <1>4 DEF HeaderEnd, IdentifierEnd, BoxEnd
<1>6. /\ Skipped(Boxes[i]) => GatheredUpTo(i) = HeaderEnd(i)
      /\ ~Skipped(Boxes[i]) /\ GathersHead(Boxes[i]) => GatheredUpTo(i) = IdentifierEnd(i)
      /\ ~Skipped(Boxes[i]) /\ ~GathersHead(Boxes[i]) => GatheredUpTo(i) = BoxEnd(i)
  BY DEF GatheredUpTo, Skipped, GathersHead
<1> QED BY <1>2, <1>3, <1>4, <1>5, <1>6

(* The reader of the boxes is inside of the box that is open, or where it  *)
(* starts, and never past what it gathers of it.                           *)
Inside(i, at) ==
  BoxStart(i) <= at /\ (i <= Len(Boxes) => at <= GatheredUpTo(i))

Reached ==
  /\ open \in 1..Len(Boxes) + 1
  /\ position \in Nat
  /\ ~atEnd => Inside(open, position)

(* The head of a box to the end of the file is in.                         *)
HeadIsIn(i, at) ==
  /\ i \in DOMAIN Boxes
  /\ RunsToFileEnd(i)
  /\ Skipped(Boxes[i]) \/ GathersHead(Boxes[i])
  /\ at >= GatheredUpTo(i)

LEMMA BoxesWantIs ==
  BoxesWant <=> ~Failed /\ ~atEnd /\ ~HeadIsIn(open, position)
BY DEF BoxesWant, HeadIsIn

(* A step of the boxes fails, or ends what they want, or goes on: to the   *)
(* end of its input where no event came of it.                             *)
GoesForward(step, upTo) ==
  \/ step.answer \notin {"none", "event", "end"}
  \/ HeadIsIn(step.open, step.position)
  \/ /\ BoxesWant
     /\ position <= step.position
     /\ step.answer # "event" => upTo <= step.position

Lands(step) ==
  /\ step.open \in 1..Len(Boxes) + 1
  /\ step.position \in Nat
  /\ Inside(step.open, step.position)

LEMMA FieldsAre ==
  ASSUME NEW event, NEW at, NEW next
  PROVE  /\ Step(event, at, next).open = next
         /\ Step(event, at, next).position = at
         /\ Step(event, at, next).answer = event
BY DEF Step

LEMMA NextBoxStarts ==
  ASSUME file \in Files, NEW i \in 1..Len(Boxes)
  PROVE  /\ BoxEnd(i) \in Nat
         /\ i + 1 \in 1..Len(Boxes) + 1
         /\ Inside(i + 1, BoxEnd(i))
         /\ Inside(i, GatheredUpTo(i))
<1>1. /\ Len(Boxes) \in Nat
      /\ i + 1 \in 1..Len(Boxes) + 1
      /\ \A n \in 1..Len(Boxes) + 1 : BoxStart(n) \in Nat
      /\ BoxEnd(i) = BoxStart(i + 1)
  BY BoxesLie
<1>2. BoxEnd(i) \in Nat /\ BoxStart(i + 1) <= BoxEnd(i)
  BY <1>1
<1>3. ASSUME i + 1 <= Len(Boxes) PROVE BoxEnd(i) <= GatheredUpTo(i + 1)
  <2>1. i + 1 \in 1..Len(Boxes)
    BY <1>1, <1>3
  <2>2. GatheredUpTo(i + 1) \in Nat /\ BoxStart(i + 1) < GatheredUpTo(i + 1)
    BY <2>1, GatheredIs
  <2> QED BY <1>1, <1>2, <2>2
<1>4. BoxStart(i) \in Nat /\ GatheredUpTo(i) \in Nat /\ BoxStart(i) < GatheredUpTo(i)
  BY <1>1, GatheredIs
<1> QED BY <1>1, <1>2, <1>3, <1>4 DEF Inside

LEMMA BoxStepMoves ==
  ASSUME DemuxerInv, Reached, ~Failed, ~atEnd, NEW upTo \in Int, upTo <= file.length
  PROVE  Lands(BoxStep(upTo)) /\ GoesForward(BoxStep(upTo), upTo)
<1>1. /\ Len(Boxes) \in Nat /\ DOMAIN Boxes = 1..Len(Boxes)
      /\ \A i \in 1..Len(Boxes) + 1 : BoxStart(i) \in Nat
      /\ \A i \in 1..Len(Boxes) : BoxEnd(i) = BoxStart(i + 1)
      /\ file.length \in Nat /\ file.length <= BoxStart(Len(Boxes) + 1)
  BY BoxesLie DEF DemuxerInv
<1>2. open \in 1..Len(Boxes) + 1 /\ position \in Nat /\ Inside(open, position)
  BY DEF Reached
<1>3. PICK step : step = BoxStep(upTo)
  OBVIOUS
<1>4. CASE ~BoxesWant \/ upTo <= position \/ open > Len(Boxes)
  <2>1. step = Step("none", position, open)
    BY <1>3, <1>4, Zenon DEF BoxStep
  <2>2. step.open = open /\ step.position = position /\ step.answer = "none"
    BY <2>1, FieldsAre
  <2>3. Lands(step)
    BY <1>2, <2>2 DEF Lands
  <2>4. CASE ~BoxesWant
    <3>1. HeadIsIn(open, position)
      BY <2>4, BoxesWantIs
    <3> QED BY <1>3, <2>2, <2>3, <3>1 DEF GoesForward
  <2>5. CASE BoxesWant /\ upTo <= position
    BY <1>2, <1>3, <2>2, <2>3, <2>5 DEF GoesForward
  <2>6. CASE BoxesWant /\ open > Len(Boxes)
    <3>1. open = Len(Boxes) + 1
      BY <1>1, <1>2, <2>6
    <3>2. BoxStart(Len(Boxes) + 1) <= position /\ BoxStart(Len(Boxes) + 1) \in Nat
      BY <1>1, <1>2, <3>1 DEF Inside
    <3>3. upTo <= position
      BY <1>1, <1>2, <3>2
    <3> QED BY <2>5, <2>6, <3>3
  <2> QED BY <1>4, <2>4, <2>5, <2>6
<1>5. CASE BoxesWant /\ ~(upTo <= position) /\ ~(open > Len(Boxes))
  <2>1. open \in 1..Len(Boxes)
    BY <1>1, <1>2, <1>5
  <2>2. /\ GatheredUpTo(open) \in Nat
        /\ GatheredUpTo(open) <= BoxEnd(open)
        /\ ~Skipped(Boxes[open]) /\ ~GathersHead(Boxes[open]) => GatheredUpTo(open) = BoxEnd(open)
    BY <2>1, GatheredIs DEF DemuxerInv
  <2>3. /\ BoxEnd(open) \in Nat
        /\ open + 1 \in 1..Len(Boxes) + 1
        /\ Inside(open + 1, BoxEnd(open))
        /\ Inside(open, GatheredUpTo(open))
    BY <2>1, NextBoxStarts DEF DemuxerInv
  <2>4. position <= GatheredUpTo(open) /\ position <= BoxEnd(open) /\ position < upTo
    BY <1>1, <1>2, <1>5, <2>1, <2>2, <2>3 DEF Inside
  <2>5. \/ /\ Skipped(Boxes[open]) /\ RunsToFileEnd(open)
           /\ step = Step("event", GatheredUpTo(open), open)
        \/ step = Step("event", BoxEnd(open), open + 1)
        \/ step = Step("past limit", position, open)
        \/ ~Skipped(Boxes[open]) /\ step = Close(open, BoxEnd(open))
        \/ /\ ~Skipped(Boxes[open])
           /\ ~(upTo >= GatheredUpTo(open)) \/ RunsToFileEnd(open)
           /\ step = Step("none", Min({upTo, GatheredUpTo(open)}), open)
    <3>1. CASE Skipped(Boxes[open])
      BY <1>3, <1>5, <3>1, Zenon DEF BoxStep
    <3>2. CASE ~Skipped(Boxes[open])
      <4>1. \/ step = Step("past limit", position, open)
            \/ step = Close(open, BoxEnd(open))
            \/ /\ ~(upTo >= GatheredUpTo(open)) \/ RunsToFileEnd(open)
               /\ step = Step("none", Min({upTo, GatheredUpTo(open)}), open)
        BY <1>3, <1>5, <3>2, Zenon DEF BoxStep
      <4> QED BY <3>2, <4>1, Zenon
    <3> QED BY <3>1, <3>2
  <2>6. CASE /\ Skipped(Boxes[open]) /\ RunsToFileEnd(open)
             /\ step = Step("event", GatheredUpTo(open), open)
    <3>1. step.open = open /\ step.position = GatheredUpTo(open)
      BY <2>6, FieldsAre
    <3>2. GatheredUpTo(open) >= GatheredUpTo(open)
      BY <2>2
    <3>3. HeadIsIn(open, GatheredUpTo(open))
      BY <1>1, <2>1, <2>6, <3>2 DEF HeadIsIn
    <3> QED BY <1>2, <1>3, <2>2, <2>3, <3>1, <3>3 DEF Lands, GoesForward
  <2>7. CASE step = Step("event", BoxEnd(open), open + 1)
    <3>1. step.open = open + 1 /\ step.position = BoxEnd(open) /\ step.answer = "event"
      BY <2>7, FieldsAre
    <3> QED BY <1>3, <1>5, <2>3, <2>4, <3>1 DEF Lands, GoesForward
  <2>8. CASE step = Step("past limit", position, open)
    <3>1. step.open = open /\ step.position = position /\ step.answer = "past limit"
      <4>1. PICK word : word = "past limit"
        OBVIOUS
      <4>2. step = Step(word, position, open)
        BY <2>8, <4>1
      <4>3. step.open = open /\ step.position = position /\ step.answer = word
        BY <4>2, FieldsAre
      <4> QED BY <4>1, <4>3
    <3> QED BY <1>2, <1>3, <3>1 DEF Lands, GoesForward
  <2>9. CASE ~Skipped(Boxes[open]) /\ step = Close(open, BoxEnd(open))
    <3>1. Gives(ReadValue(open))
      BY <1>1, <2>1, ReadValueGives DEF Boxes, DemuxerInv
    <3>2. /\ step.open = open + 1 /\ step.position = BoxEnd(open)
          /\ step.answer \notin {"none", "end"}
      <4>1. Reading(reader) /\ Gathering(held)
        BY DEF DemuxerInv
      <4>2. step = Closed(ReadValue(open), open, BoxEnd(open))
        BY <2>9 DEF Close
      <4> QED BY ONLY <3>1, <4>1, <4>2, ClosedLocates
    <3> QED BY <1>3, <1>5, <2>3, <2>4, <3>2 DEF Lands, GoesForward
  <2>10. CASE /\ ~Skipped(Boxes[open])
              /\ ~(upTo >= GatheredUpTo(open)) \/ RunsToFileEnd(open)
              /\ step = Step("none", Min({upTo, GatheredUpTo(open)}), open)
    <3>1. PICK at : at = Min({upTo, GatheredUpTo(open)})
      OBVIOUS
    <3>2. at = IF upTo <= GatheredUpTo(open) THEN upTo ELSE GatheredUpTo(open)
      <4>1. PICK last \in Int : last = GatheredUpTo(open)
        BY <2>2
      <4>2. Min({upTo, last}) = IF upTo <= last THEN upTo ELSE last
        BY OfTwo
      <4> QED BY <3>1, <4>1, <4>2
    <3>3. step.open = open /\ step.position = at /\ step.answer = "none"
      BY <2>10, <3>1, FieldsAre
    <3>4. at \in Nat /\ at <= GatheredUpTo(open) /\ position <= at
      BY <1>2, <2>2, <2>4, <3>2
    <3>5. Lands(step)
      <4>1. Inside(open, at)
        BY <1>1, <1>2, <2>1, <3>4 DEF Inside
      <4> QED BY <1>2, <3>3, <3>4, <4>1 DEF Lands
    <3>6. CASE upTo <= at
      BY <1>3, <1>5, <3>3, <3>4, <3>5, <3>6 DEF GoesForward
    <3>7. CASE ~(upTo <= at)
      <4>1. at = GatheredUpTo(open) /\ at < upTo /\ RunsToFileEnd(open)
        BY <2>2, <2>10, <3>2, <3>4, <3>7
      <4>2. CASE GathersHead(Boxes[open])
        <5>1. at >= GatheredUpTo(open)
          BY <2>2, <4>1
        <5>2. HeadIsIn(open, at)
          BY <1>1, <2>1, <4>1, <4>2, <5>1 DEF HeadIsIn
        <5> QED BY <1>3, <3>3, <3>5, <5>2 DEF GoesForward
      <4>3. CASE ~GathersHead(Boxes[open])
        <5>1. open = Len(Boxes)
          BY <4>1 DEF RunsToFileEnd
        <5>2. at = BoxStart(Len(Boxes) + 1)
          BY <1>1, <2>1, <2>2, <2>10, <4>1, <4>3, <5>1
        <5>3. upTo <= at
          BY <1>1, <3>4, <5>2
        <5> QED BY <3>7, <5>3
      <4> QED BY <4>2, <4>3
    <3> QED BY <3>6, <3>7
  <2> QED BY <2>5, <2>6, <2>7, <2>8, <2>9, <2>10
<1> QED BY <1>2, <1>4, <1>5

LEMMA HandleInputMoves ==
  ASSUME DemuxerInv, Reached, NEW offset, NEW upTo \in Int, upTo <= file.length,
         HandleInput(offset, upTo)
  PROVE  /\ Reached'
         /\ BoxesWant' => /\ BoxesWant
                          /\ position <= position'
                          /\ answer' # "event" => upTo <= position'
<1>1. PICK step, gathered :
        /\ step = BoxStep(upTo)
        /\ gathered = Gathered(step, [start |-> offset, end |-> upTo])
        /\ answer' = IF step.answer = "none" THEN gathered.answer ELSE step.answer
        /\ open' = step.open
        /\ position' = step.position
  BY Zenon DEF HandleInput
<1>2. ~Failed /\ file' = file /\ atEnd' = atEnd
  BY DEF HandleInput
<1>3. Boxes' = Boxes /\ \A i : BoxStart(i)' = BoxStart(i) /\ GatheredUpTo(i)' = GatheredUpTo(i)
  BY <1>2 DEF Boxes, BoxStart, GatheredUpTo, HeaderEnd, IdentifierEnd, BoxEnd
<1>4. \A i, at : Inside(i, at)' = Inside(i, at) /\ HeadIsIn(i, at)' = HeadIsIn(i, at)
  BY <1>2, <1>3 DEF Inside, HeadIsIn, RunsToFileEnd
<1>5. BoxesWant' <=> ~Failed' /\ ~atEnd' /\ ~HeadIsIn(open', position')
  BY <1>2, <1>3 DEF BoxesWant, HeadIsIn, RunsToFileEnd
<1>6. CASE atEnd
  <2>1. BoxStep(upTo) = Step("none", position, open)
    BY <1>6, Zenon DEF BoxStep, BoxesWant
  <2>2. step.open = open /\ step.position = position
    BY <1>1, <2>1, FieldsAre
  <2> QED BY <1>1, <1>2, <1>3, <1>5, <1>6, <2>2 DEF Reached
<1>7. CASE ~atEnd
  <2>1. Lands(step) /\ GoesForward(step, upTo)
    BY <1>1, <1>2, <1>7, BoxStepMoves
  <2>2. Reached'
    BY <1>1, <1>2, <1>3, <1>4, <2>1 DEF Lands, Reached, Inside
  <2>3. ASSUME BoxesWant'
        PROVE  BoxesWant /\ position <= position' /\ (answer' # "event" => upTo <= position')
    <3>1. ~Failed' /\ ~HeadIsIn(open', position')
      BY <1>5, <2>3
    <3>2. answer' \in {"none", "event", "end"}
      BY <3>1 DEF Failed
    <3>3. step.answer \in {"none", "event", "end"}
      BY <1>1, <3>2
    <3>4. answer' = "event" \/ step.answer # "event"
      BY <1>1
    <3> QED BY <1>1, <2>1, <3>1, <3>3, <3>4 DEF GoesForward
  <2> QED BY <2>2, <2>3
<1> QED BY <1>6, <1>7

LEMMA FinishReaches ==
  ASSUME DemuxerInv, Reached, Finish
  PROVE  Reached' /\ ~BoxesWant'
<1>1. PICK step : step = LastStep /\ open' = step.open
  BY Zenon DEF Finish
<1>2. file' = file /\ position' = position /\ atEnd' = TRUE
  BY DEF Finish
<1>3. Len(Boxes) \in Nat /\ DOMAIN Boxes = 1..Len(Boxes)
  BY BoxesLie DEF DemuxerInv
<1>4. \/ \E event : step = Step(event, position, open)
      \/ open \in DOMAIN Boxes /\ step = Close(open, position)
  BY <1>1, Zenon DEF LastStep, EndsWithFile
<1>5. step.open \in 1..Len(Boxes) + 1
  <2>1. CASE \E event : step = Step(event, position, open)
    BY <2>1, FieldsAre DEF Reached
  <2>2. CASE open \in DOMAIN Boxes /\ step = Close(open, position)
    <3>1. Gives(ReadValue(open))
      BY <2>2, ReadValueGives DEF Boxes, DemuxerInv
    <3>2. Reading(reader) /\ Gathering(held)
      BY DEF DemuxerInv
    <3>3. step = Closed(ReadValue(open), open, position)
      BY <2>2 DEF Close
    <3>4. step.open = open + 1
      BY ONLY <3>1, <3>2, <3>3, ClosedLocates
    <3> QED BY <1>3, <2>2, <3>4
  <2> QED BY <1>4, <2>1, <2>2
<1> QED BY <1>1, <1>2, <1>5 DEF Reached, Boxes, BoxesWant

LEMMA StartsInside ==
  ASSUME file \in Files, NEW i \in 1..Len(Boxes) + 1
  PROVE  BoxStart(i) \in Nat /\ Inside(i, BoxStart(i))
<1>1. Len(Boxes) \in Nat /\ BoxStart(i) \in Nat
  BY BoxesLie
<1>2. ASSUME i <= Len(Boxes) PROVE BoxStart(i) <= GatheredUpTo(i)
  <2>1. i \in 1..Len(Boxes)
    BY <1>1, <1>2
  <2> QED BY <1>1, <2>1, GatheredIs
<1> QED BY <1>1, <1>2 DEF Inside

LEMMA InitReaches ==
  Init => Reached
<1> SUFFICES ASSUME Init PROVE Reached
  OBVIOUS
<1>1. file \in Files /\ open = 1 /\ position = 0
  BY DEF Init
<1>2. Len(Boxes) \in Nat /\ BoxStart(1) = 0
  BY <1>1, BoxesLie
<1>3. 1 \in 1..Len(Boxes) + 1
  BY <1>2
<1> QED BY <1>1, <1>2, <1>3, StartsInside DEF Reached

LEMMA NextReaches ==
  DemuxerInv /\ Reached /\ [Next]_vars => Reached'
<1> SUFFICES ASSUME DemuxerInv, Reached, [Next]_vars PROVE Reached'
  OBVIOUS
<1>1. file \in Files /\ file.length \in Nat
  BY BoxesLie DEF DemuxerInv
<1>2. CASE Read
  <2>1. PICK offset \in 0..file.length : \E upTo \in offset..file.length : HandleInput(offset, upTo)
    BY <1>2 DEF Read
  <2>2. PICK upTo \in offset..file.length : HandleInput(offset, upTo)
    BY <2>1
  <2>3. upTo \in Int /\ upTo <= file.length
    BY <1>1
  <2> QED BY <2>2, <2>3, HandleInputMoves
<1>3. CASE Finish
  BY <1>3, FinishReaches
<1>4. CASE PollSample \/ (\E track \in Tracks : DiscardTrack(track)) \/ UNCHANGED vars
  <2>1. file' = file /\ open' = open /\ position' = position /\ atEnd' = atEnd
    BY <1>4 DEF PollSample, DiscardTrack, vars, boxReader
  <2> QED BY <2>1 DEF Reached, Inside, Boxes, BoxStart, GatheredUpTo, HeaderEnd, IdentifierEnd, BoxEnd
<1>5. CASE \E i \in DOMAIN Boxes : ResumeAt(i)
  <2>1. PICK i \in DOMAIN Boxes : ResumeAt(i)
    BY <1>5
  <2>2. file' = file /\ open' = i /\ position' = BoxStart(i)
    BY <2>1 DEF ResumeAt
  <2>3. i \in 1..Len(Boxes) + 1 /\ i \in DOMAIN Boxes
    BY <1>1, BoxesLie
  <2>4. BoxStart(i) \in Nat /\ Inside(i, BoxStart(i))
    BY <1>1, <2>3, StartsInside
  <2>5. Boxes' = Boxes /\ \A n : BoxStart(n)' = BoxStart(n) /\ GatheredUpTo(n)' = GatheredUpTo(n)
    BY <2>2 DEF Boxes, BoxStart, GatheredUpTo, HeaderEnd, IdentifierEnd, BoxEnd
  <2> QED BY <2>2, <2>3, <2>4, <2>5 DEF Reached, Inside
<1> QED BY <1>2, <1>3, <1>4, <1>5 DEF Next
-------------------------------------------------------------------------------
(* THE CALLERS                                                             *)

(* A sample that a call leaves without a byte of its input has no data.    *)
NoneOf(samples, input) ==
  \A k \in DOMAIN samples : Lacks(samples[k], input) => samples[k].data = <<>>

LEMMA NotFilledIs ==
  ASSUME NEW s, NEW k \in DOMAIN s, NEW input, ~Media!Filled(s, k, input), Lacks(s[k], input)
  PROVE  s[k].data = <<>>
<1>1. Media!Reached(s[k], input)
  BY DEF Lacks, Media!Reached
<1> QED BY <1>1 DEF Media!Filled, Media!Refused, Media!Allocates

LEMMA FailureLeaves ==
  ASSUME NEW s, NEW input, Media!Fails(s, input)
  PROVE  NoneOf(s, input)
<1>1. \A k \in DOMAIN s : ~Media!Filled(s, k, input)
  BY DEF Media!Fails, Media!Keeps
<1> QED BY <1>1, NotFilledIs DEF NoneOf

LEMMA HeldAfterLacks ==
  ASSUME NEW s, Gathering(s), NEW input \in Stretch, input.start < input.end
  PROVE  NoneOf(Media!HeldAfter(s, input), input)
<1>1. PICK after : after = Media!HeldAfter(s, input)
  OBVIOUS
<1>2. DOMAIN s = 1..Len(s) /\ DOMAIN after = DOMAIN s
  BY <1>1, SequenceShape DEF Gathering, Media!HeldAfter
<1>3. ASSUME NEW k \in DOMAIN s, Lacks(after[k], input) PROVE after[k].data = <<>>
  <2>1. CASE ~Media!Filled(s, k, input)
    <3>1. after[k] = s[k]
      BY <1>1, <2>1 DEF Media!HeldAfter
    <3> QED BY <1>3, <2>1, <3>1, NotFilledIs
  <2>2. CASE Media!Filled(s, k, input)
    <3>1. PICK sample : sample = s[k] /\ IsSample(sample)
      BY <1>2 DEF Gathering
    <3>2. PICK new : new = Media!Fill(sample, input)
      OBVIOUS
    <3>3. after[k] = new
      BY <1>1, <2>2, <3>1, <3>2 DEF Media!HeldAfter
    <3>4. FilledAs(sample, new, input)
      BY <3>1, <3>2, FillIs
    <3>5. /\ new.missing \in Seq(Stretch)
          /\ \A i \in 1..Len(new.missing) : Outside(new.missing[i], input)
      BY <3>4 DEF FilledAs, IsSample
    <3>6. PICK i \in 1..Len(new.missing) :
            new.missing[i].start < input.end /\ input.start < new.missing[i].end
      BY <1>3, <3>3, <3>5 DEF Lacks
    <3>7. PICK run \in Stretch : run = new.missing[i]
      BY <3>5
    <3> QED BY <3>5, <3>6, <3>7, StretchIs DEF Outside
  <2> QED BY <2>1, <2>2
<1> QED BY <1>1, <1>2, <1>3 DEF NoneOf

LEMMA GatheredLacks ==
  ASSUME NEW step, Gathering(step.held), NEW input \in Stretch, input.start < input.end
  PROVE  NoneOf(Gathered(step, input).held, input)
<1>1. PICK after : after = Media!HeldAfter(step.held, input)
  OBVIOUS
<1>2. NoneOf(after, input)
  BY <1>1, HeldAfterLacks
<1>3. \/ Media!Fails(step.held, input) /\ Gathered(step, input) = [answer |-> "full", held |-> step.held]
      \/ Gathered(step, input) = [answer |-> "none", held |-> after]
  BY <1>1, Zenon DEF Gathered
<1>4. \A a, h : [answer |-> a, held |-> h].held = h
  OBVIOUS
<1>5. \/ Media!Fails(step.held, input) /\ Gathered(step, input).held = step.held
      \/ Gathered(step, input).held = after
  BY <1>3, <1>4, Zenon
<1> QED BY <1>2, <1>5, FailureLeaves

LEMMA HandleInputLacks ==
  ASSUME DemuxerInv, NEW offset \in Int, NEW upTo \in Int, offset < upTo, HandleInput(offset, upTo)
  PROVE  NoneOf(held', [start |-> offset, end |-> upTo])
<1>1. PICK step, gathered :
        /\ step = BoxStep(upTo)
        /\ gathered = Gathered(step, [start |-> offset, end |-> upTo])
        /\ held' = gathered.held
  BY Zenon DEF HandleInput
<1>2. Gathering(step.held)
  BY <1>1, BoxStepLocates DEF DemuxerInv, Locating
<1>3. PICK input \in Stretch : input = [start |-> offset, end |-> upTo]
  BY DEF Stretch
<1>4. input.start < input.end
  BY <1>3
<1> QED BY <1>1, <1>2, <1>3, <1>4, GatheredLacks

(* The piece at hand is of the file.  What the boxes want starts inside of *)
(* it, or before what came next of it, for the caller that passes the file *)
(* in order also once it is passed: behind it, where no event came.  No    *)
(* sample that it has data of then lacks a byte of the piece.              *)
CallerInv ==
  /\ DemuxerInv
  /\ Reached
  /\ caller = "any" <=> turn = "any"
  /\ turn # "any" => /\ piece.start \in Int
                     /\ piece.end \in Int
                     /\ piece = [start |-> piece.start, end |-> piece.end]
                     /\ piece.start <= piece.end
                     /\ ~Ended => piece.start < piece.end
                     /\ piece.end <= file.length
  /\ NeverRefused
  /\ caller = "passing" /\ turn = "take" /\ ~Ended /\ BoxesWant =>
       /\ piece.start <= position
       /\ answer # "event" => piece.end <= position
  /\ caller = "passing" /\ turn = "take" /\ ~Ended => NoneOf(held, piece)

(* The first wanted offset is one, and none that the boxes want is before. *)
OffsetsOf(want, at, samples) ==
  (IF want THEN {at} ELSE {}) \cup {range.start : range \in Media!Wanted(samples)}

LEMMA FirstIs ==
  ASSUME NEW want, NEW at \in Int, NEW s, Gathering(s), OffsetsOf(want, at, s) # {}
  PROVE  /\ WantedFirst(OffsetsOf(want, at, s)) \in Int
         /\ WantedFirst(OffsetsOf(want, at, s)) \in OffsetsOf(want, at, s)
         /\ \A offset \in OffsetsOf(want, at, s) : WantedFirst(OffsetsOf(want, at, s)) <= offset
         /\ want => WantedFirst(OffsetsOf(want, at, s)) <= at
<1> DEFINE starts == {range.start : range \in Media!Wanted(s)}
<1>1. \A range \in Media!Wanted(s) : range \in Stretch
  <2> SUFFICES ASSUME NEW range \in Media!FirstMissing(s) PROVE range \in Stretch
    BY DEF Media!Wanted
  <2>1. PICK k \in DOMAIN s : s[k].missing # <<>> /\ range = s[k].missing[1]
    BY DEF Media!FirstMissing
  <2>2. IsSample(s[k])
    BY SequenceShape DEF Gathering
  <2>3. PICK missing \in Seq(Stretch) : missing = s[k].missing
    BY <2>2 DEF IsSample
  <2>4. missing # <<>> /\ range = missing[1]
    BY <2>1, <2>3
  <2>5. Len(missing) \in Nat /\ Len(missing) # 0
    BY <2>4, EmptySeq
  <2>6. 1 \in 1..Len(missing)
    BY <2>5
  <2> QED BY <2>4, <2>6
<1>2. \A a, b \in starts : a \in Int /\ b \in Int /\ a = b
  <2> SUFFICES ASSUME NEW x \in Media!Wanted(s), NEW y \in Media!Wanted(s)
               PROVE  x.start \in Int /\ y.start \in Int /\ x.start = y.start
    OBVIOUS
  <2>1. x.start \in Int /\ y.start \in Int
    BY <1>1 DEF Stretch
  <2>2. x.start <= y.start /\ y.start <= x.start
    BY DEF Media!Wanted
  <2> QED BY <2>1, <2>2
<1> HIDE DEF starts
<1>4. PICK offsets : offsets = OffsetsOf(want, at, s)
  OBVIOUS
<1>3. offsets = (IF want THEN {at} ELSE {}) \cup starts
  BY <1>4 DEF OffsetsOf, starts
<1>5. PICK offset \in Int, other \in Int : /\ offsets = {offset, other}
                                           /\ want => at \in {offset, other}
  <2>1. CASE starts = {}
    BY <1>3, <1>4, <2>1
  <2>2. CASE starts # {}
    <3>1. PICK a \in Int : starts = {a}
      BY <1>2, <2>2
    <3>2. CASE want
      <4>1. offsets = {at, a}
        BY <1>3, <3>1, <3>2
      <4> QED BY <1>4, <4>1
    <3>3. CASE ~want
      <4>1. offsets = {a, a}
        BY <1>3, <3>1, <3>3
      <4> QED BY <3>3, <4>1
    <3> QED BY <3>2, <3>3
  <2> QED BY <2>1, <2>2
<1>6. WantedFirst(offsets) = IF offset <= other THEN offset ELSE other
  BY <1>5, OfTwo DEF WantedFirst
<1> QED BY <1>4, <1>5, <1>6

LEMMA WantedIs ==
  ASSUME DemuxerInv, Reached, WantedOffsets # {}
  PROVE  /\ WantedFirst(WantedOffsets) \in Int
         /\ WantedFirst(WantedOffsets) \in WantedOffsets
         /\ \A offset \in WantedOffsets : WantedFirst(WantedOffsets) <= offset
         /\ BoxesWant => WantedFirst(WantedOffsets) <= position
<1>1. WantedOffsets = OffsetsOf(BoxesWant, position, held)
  BY DEF WantedOffsets, OffsetsOf
<1>2. position \in Int
  BY DEF Reached
<1>3. Gathering(held)
  BY DEF DemuxerInv
<1> QED BY <1>1, <1>2, <1>3, FirstIs

LEMMA PiecesAre ==
  ASSUME file.length \in Nat, NEW at \in Int, NEW p \in Pieces(at)
  PROVE  /\ at < file.length => p.start = at /\ p.end \in Int /\ at < p.end /\ p.end <= file.length
         /\ ~(at < file.length) => p.start = file.length /\ p.end = file.length
         /\ p = [start |-> p.start, end |-> p.end]
<1>1. PICK last : last = Min({at + PieceBytes, file.length})
  OBVIOUS
<1>2. last \in Int /\ last <= file.length
  <2>1. at + PieceBytes \in Int
    BY PieceAssumption
  <2>2. PICK limit \in Int : limit = at + PieceBytes
    BY <2>1
  <2>3. file.length \in Int
    OBVIOUS
  <2>4. Min({limit, file.length}) = IF limit <= file.length THEN limit ELSE file.length
    BY ONLY <2>3, OfTwo
  <2> QED BY <1>1, <2>2, <2>3, <2>4
<1>3. CASE at >= file.length
  BY <1>3 DEF Pieces
<1>4. CASE ~(at >= file.length)
  <2>1. PICK upTo \in (at + 1)..last : p = [start |-> at, end |-> upTo]
    BY <1>1, <1>4 DEF Pieces
  <2> QED BY <1>2, <1>4, <2>1
<1> QED BY <1>3, <1>4

(* A piece cut where the boxes want no byte before it.                     *)
LEMMA PieceHolds ==
  ASSUME CallerInv, NEW at \in Int, piece' \in Pieces(at),
         BoxesWant => at <= position,
         turn' = "pass", caller' = caller, caller # "any", UNCHANGED vars
  PROVE  CallerInv'
<1>1. file.length \in Nat
  BY BoxesLie DEF CallerInv, DemuxerInv
<1>2. file' = file /\ open' = open /\ position' = position /\ atEnd' = atEnd /\ answer' = answer
  BY DEF vars, boxReader
<1>3. DemuxerInv' /\ Reached'
  BY NextKeeps, NextReaches DEF CallerInv
<1>4. /\ piece'.start \in Int /\ piece'.end \in Int
      /\ piece'.start <= piece'.end /\ piece'.end <= file.length
      /\ piece' = [start |-> piece'.start, end |-> piece'.end]
      /\ piece'.start # file.length => piece'.start < piece'.end
      /\ at < file.length => piece'.start = at
      /\ ~(at < file.length) => piece'.start = file.length
  BY <1>1, PiecesAre
<1>5. BoxesWant' <=> BoxesWant
  BY <1>2 DEF BoxesWant, Failed, Boxes, RunsToFileEnd, GatheredUpTo, HeaderEnd, IdentifierEnd,
              BoxEnd, BoxStart
<1>6. NeverRefused'
  BY <1>2, <1>4, <1>5 DEF NeverRefused, Ended
<1> QED BY <1>2, <1>3, <1>4, <1>6 DEF CallerInv, Ended

LEMMA InitCaller ==
  CallerInit => CallerInv
<1> SUFFICES ASSUME CallerInit PROVE CallerInv
  OBVIOUS
<1>1. Init
  BY DEF CallerInit
<1>2. DemuxerInv /\ Reached
  BY <1>1, InitInv, InitReaches
<1>3. file.length \in Nat /\ position = 0 /\ 0 \in Int
  BY <1>1, <1>2, BoxesLie DEF DemuxerInv, Init
<1>4. CASE caller = "any"
  <2>1. turn = "any"
    BY <1>4 DEF CallerInit
  <2> QED BY <1>2, <1>4, <2>1 DEF CallerInv, NeverRefused
<1>5. CASE caller # "any"
  <2>1. piece \in Pieces(0) /\ turn = "pass"
    BY <1>5 DEF CallerInit
  <2>2. /\ 0 < file.length => piece.start = 0 /\ piece.end \in Int /\ 0 < piece.end /\ piece.end <= file.length
        /\ ~(0 < file.length) => piece.start = file.length /\ piece.end = file.length
        /\ piece = [start |-> piece.start, end |-> piece.end]
    BY <1>3, <2>1, PiecesAre
  <2>3. /\ piece.start \in Int /\ piece.end \in Int
        /\ piece = [start |-> piece.start, end |-> piece.end]
        /\ piece.start <= piece.end /\ piece.end <= file.length /\ piece.start <= position
        /\ piece.start # file.length => piece.start < piece.end
    BY <1>3, <2>2
  <2> QED BY <1>2, <1>5, <2>1, <2>3 DEF CallerInv, NeverRefused, Ended
<1> QED BY <1>4, <1>5

LEMMA CallerNextKeeps ==
  CallerInv /\ [CallerNext]_callerVars => CallerInv'
<1> SUFFICES ASSUME CallerInv, [CallerNext]_callerVars PROVE CallerInv'
  OBVIOUS
<1>1. DemuxerInv /\ Reached /\ file.length \in Nat
  BY BoxesLie DEF CallerInv, DemuxerInv
<1>2. CASE UNCHANGED callerVars
  BY <1>2 DEF callerVars, vars, boxReader, CallerInv, DemuxerInv, Reached, NeverRefused, Ended,
              BoxesWant, Failed, Inside, Boxes, RunsToFileEnd, GatheredUpTo, HeaderEnd,
              IdentifierEnd, BoxEnd, BoxStart, Reading, Gathering, InOrderLocated
<1>3. CASE AnyCall /\ UNCHANGED caller
  <2>1. DemuxerInv' /\ Reached'
    BY <1>1, <1>3, NextKeeps, NextReaches DEF AnyCall
  <2>2. turn' = turn /\ turn = "any" /\ caller' = caller
    BY <1>3 DEF AnyCall
  <2> QED BY <2>1, <2>2 DEF CallerInv, NeverRefused
<1>4. CASE Pass /\ UNCHANGED caller
  <2>1. /\ turn = "pass" /\ turn' = "take" /\ piece' = piece /\ caller' = caller /\ ~Ended
        /\ HandleInput(piece.start, piece.end)
    BY <1>4 DEF Pass
  <2>2. /\ piece.start \in Int /\ piece.end \in Int
        /\ piece = [start |-> piece.start, end |-> piece.end]
        /\ piece.start <= piece.end /\ piece.end <= file.length
        /\ piece.start < piece.end
    BY <2>1 DEF CallerInv
  <2>3. file' = file
    BY <2>1 DEF HandleInput
  <2>8. NoneOf(held', piece)
    BY <1>1, <2>1, <2>2, HandleInputLacks
  <2>4. DemuxerInv'
    BY <1>1, <2>1, <2>2, HandleInputKeeps
  <2>5. /\ Reached'
        /\ BoxesWant' => /\ BoxesWant
                         /\ position <= position'
                         /\ answer' # "event" => piece.end <= position'
    BY <1>1, <2>1, <2>2, HandleInputMoves
  <2>6. BoxesWant => piece.start <= position
    BY <2>1 DEF CallerInv, NeverRefused
  <2>7. BoxesWant' => piece.start <= position'
    BY <1>1, <2>2, <2>5, <2>6 DEF Reached
  <2>9. NoneOf(held, piece)'
    BY <2>1, <2>8 DEF NoneOf, Lacks
  <2>10. \/ ~BoxesWant'
         \/ (piece.start <= position)' /\ (answer # "event" => piece.end <= position)'
    BY <2>1, <2>5, <2>7
  <2> QED BY <2>1, <2>2, <2>3, <2>4, <2>5, <2>9, <2>10 DEF CallerInv, NeverRefused, Ended
<1>5. CASE FinishFile /\ UNCHANGED caller
  <2>1. /\ turn = "pass" /\ turn' = "take" /\ piece' = piece /\ caller' = caller /\ Finish /\ Ended
    BY <1>5 DEF FinishFile
  <2>2. DemuxerInv' /\ Reached' /\ ~BoxesWant'
    BY <1>1, <2>1, FinishKeeps, FinishReaches
  <2>3. file' = file
    BY <2>1 DEF Finish
  <2>4. Ended'
    BY <2>1, <2>3 DEF Ended
  <2> QED BY <2>1, <2>2, <2>3, <2>4 DEF CallerInv, NeverRefused
<1>6. CASE Take /\ UNCHANGED caller
  <2>1. turn = "take" /\ turn' = "take" /\ piece' = piece /\ caller' = caller /\ PollSample
    BY <1>6 DEF Take
  <2>2. DemuxerInv' /\ Reached'
    BY <1>1, <2>1, NextKeeps, NextReaches DEF Next
  <2>3. file' = file /\ open' = open /\ position' = position /\ atEnd' = atEnd /\ answer' = answer
    BY <2>1 DEF PollSample, boxReader
  <2>4. BoxesWant' <=> BoxesWant
    BY <2>3 DEF BoxesWant, Failed, Boxes, RunsToFileEnd, GatheredUpTo, HeaderEnd, IdentifierEnd,
                BoxEnd, BoxStart
  <2>5. ASSUME NoneOf(held, piece) PROVE NoneOf(held, piece)'
    <3>1. held' = Tail(held) /\ held # <<>>
      BY <2>1 DEF PollSample
    <3>2. Sequence(held)
      BY <1>1 DEF DemuxerInv, Gathering
    <3>3. Len(held) \in Nat /\ Len(held) > 0 /\ DOMAIN held = 1..Len(held)
      <4>1. held \in Seq(Range(held))
        BY <3>2 DEF Sequence
      <4> QED BY <3>1, <4>1, EmptySeq
    <3>4. /\ Sequence(held') /\ Len(held') = Len(held) - 1
          /\ \A i \in 1..Len(held) - 1 : held'[i] = held[i + 1]
      BY <3>1, <3>2, <3>3, TailAny
    <3>5. DOMAIN held' = 1..Len(held) - 1
      BY <3>4, SequenceShape
    <3>6. \A k \in DOMAIN held' : k + 1 \in DOMAIN held /\ held'[k] = held[k + 1]
      BY <3>3, <3>4, <3>5
    <3> QED BY <2>1, <2>5, <3>6 DEF NoneOf, Lacks
  <2> QED BY <2>1, <2>2, <2>3, <2>4, <2>5 DEF CallerInv, NeverRefused, Ended
<1>7. CASE Stop /\ UNCHANGED caller
  <2>1. /\ turn = "take" /\ turn' = "stop" /\ piece' = piece /\ caller' = caller
        /\ UNCHANGED vars
    BY <1>7 DEF Stop, Taken
  <2>2. DemuxerInv' /\ Reached' /\ file' = file
    BY <1>1, <2>1, NextKeeps, NextReaches DEF vars
  <2> QED BY <2>1, <2>2 DEF CallerInv, NeverRefused, Ended
<1>8. CASE Seek /\ UNCHANGED caller
  <2>1. PICK at : at = IF WantedOffsets = {} THEN file.length ELSE WantedFirst(WantedOffsets)
    OBVIOUS
  <2>2. /\ caller = "seeking" /\ caller' = caller /\ ~Failed
        /\ turn' = "pass" /\ piece' \in Pieces(at) /\ UNCHANGED vars
    BY <1>8, <2>1 DEF Seek, PassNext
  <2>3. at \in Int /\ (BoxesWant => at <= position)
    <3>1. CASE WantedOffsets = {}
      BY <1>1, <2>1, <2>2, <3>1 DEF WantedOffsets
    <3>2. CASE WantedOffsets # {}
      BY <1>1, <2>1, <3>2, WantedIs
    <3> QED BY <3>1, <3>2
  <2> QED BY <2>2, <2>3, PieceHolds
<1>9. CASE Follow /\ UNCHANGED caller
  <2>1. /\ caller = "passing" /\ caller' = caller /\ turn = "take" /\ turn' = "pass"
        /\ UNCHANGED vars
        /\ piece' \in IF Again THEN {piece} ELSE Pieces(piece.end)
    BY <1>9 DEF Follow, PassNext, Taken
  <2>2. /\ piece.start \in Int /\ piece.end \in Int
        /\ piece = [start |-> piece.start, end |-> piece.end]
        /\ piece.start <= piece.end /\ piece.end <= file.length
        /\ ~Ended => piece.start < piece.end
        /\ ~Ended /\ BoxesWant => /\ piece.start <= position
                                  /\ answer # "event" => piece.end <= position
    BY <2>1 DEF CallerInv
  <2>3. DemuxerInv' /\ Reached'
    BY <1>1, <2>1, NextKeeps, NextReaches
  <2>4. file' = file /\ open' = open /\ position' = position /\ atEnd' = atEnd /\ answer' = answer
    BY <2>1 DEF vars, boxReader
  <2>5. BoxesWant' <=> BoxesWant
    BY <2>4 DEF BoxesWant, Failed, Boxes, RunsToFileEnd, GatheredUpTo, HeaderEnd, IdentifierEnd,
                BoxEnd, BoxStart
  <2>6. CASE Again
    <3>1. piece' = piece
      BY <2>1, <2>6
    <3> QED BY <2>1, <2>2, <2>3, <2>4, <2>5, <3>1 DEF CallerInv, NeverRefused, Ended
  <2>7. CASE ~Again
    <3>1. piece' \in Pieces(piece.end)
      BY <2>1, <2>7
    <3>2. CASE Ended
      <4>1. /\ piece'.start = file.length /\ piece'.end = file.length
            /\ piece' = [start |-> piece'.start, end |-> piece'.end]
        BY <1>1, <2>2, <3>1, <3>2, PiecesAre DEF Ended
      <4>2. Ended'
        BY <2>4, <4>1 DEF Ended
      <4> QED BY <1>1, <2>1, <2>3, <2>4, <4>1, <4>2 DEF CallerInv, NeverRefused
    <3>3. CASE ~Ended
      <4>1. BoxesWant => piece.end <= position
        BY <2>2, <2>7, <3>3 DEF Again
      <4> QED BY <2>1, <2>2, <3>1, <4>1, PieceHolds
    <3> QED BY <3>2, <3>3
  <2> QED BY <2>6, <2>7
<1>10. CASE Stopped /\ UNCHANGED caller
  BY <1>2, <1>10 DEF Stopped
<1> QED BY <1>2, <1>3, <1>4, <1>5, <1>6, <1>7, <1>8, <1>9, <1>10 DEF CallerNext

(* Neither caller of the documentation passes a piece that starts past     *)
(* what the boxes want: whatever the file, however the pieces are cut, and *)
(* whatever events and failures come between, its input is not refused.    *)
THEOREM CallersNeverRefused ==
  CallerSpec => []NeverRefused
<1>1. CallerInit => CallerInv
  BY InitCaller
<1>2. CallerInv /\ [CallerNext]_callerVars => CallerInv'
  BY CallerNextKeeps
<1>3. CallerInv => NeverRefused
  BY DEF CallerInv
<1> QED BY <1>1, <1>2, <1>3, PTL DEF CallerSpec

(* The callers get the samples in their order too.                         *)
THEOREM CallersGetInOrder ==
  CallerSpec => []InOrderLocated
<1>1. CallerInit => CallerInv
  BY InitCaller
<1>2. CallerInv /\ [CallerNext]_callerVars => CallerInv'
  BY CallerNextKeeps
<1>3. CallerInv => InOrderLocated
  BY InvIsInOrder DEF CallerInv
<1> QED BY <1>1, <1>2, <1>3, PTL DEF CallerSpec

-------------------------------------------------------------------------------
(* WHAT IS WANTED                                                          *)

(* Of some places, the one of the least value.                             *)
LEMMA LeastOf ==
  ASSUME NEW n \in Nat, NEW P, P \subseteq 1..n, P # {}, NEW f, \A k \in P : f[k] \in Int
  PROVE  \E k \in P : \A j \in P : f[k] <= f[j]
<1> DEFINE Up(m) == {k \in P : k <= m}
           T == {m \in Nat : Up(m) # {} => \E k \in Up(m) : \A j \in Up(m) : f[k] <= f[j]}
<1>0. \A k \in P : k \in Nat /\ 1 <= k /\ k <= n
  OBVIOUS
<1>1. 0 \in T
  <2>1. \A k \in P : ~(k <= 0)
    BY <1>0
  <2>2. Up(0) = {}
    BY <2>1
  <2> QED BY <2>2
<1>2. ASSUME NEW m \in Nat, m \in T PROVE m + 1 \in T
  <2> SUFFICES ASSUME Up(m + 1) # {}
               PROVE  \E k \in Up(m + 1) : \A j \in Up(m + 1) : f[k] <= f[j]
    OBVIOUS
  <2>1. \A k \in Up(m + 1) : k \in P /\ (k \in Up(m) \/ k = m + 1)
    OBVIOUS
  <2>2. \A k \in Up(m) : k \in Up(m + 1) /\ k \in P
    OBVIOUS
  <2>3. CASE m + 1 \notin P
    <3>1. Up(m + 1) = Up(m)
      BY <2>1, <2>2, <2>3
    <3> QED BY <1>2, <3>1
  <2>4. CASE m + 1 \in P /\ Up(m) = {}
    <3>1. Up(m + 1) = {m + 1}
      BY <2>1, <2>4
    <3>2. f[m + 1] \in Int
      BY <2>4
    <3> QED BY <3>1, <3>2
  <2>5. CASE m + 1 \in P /\ Up(m) # {}
    <3>1. PICK k \in Up(m) : \A j \in Up(m) : f[k] <= f[j]
      BY <1>2, <2>5
    <3>2. m + 1 \in Up(m + 1) /\ k \in Up(m + 1) /\ k \in P
      BY <2>2, <2>5
    <3>3. f[m + 1] \in Int /\ f[k] \in Int
      BY <2>5, <3>2
    <3>4. \A j \in Up(m) : f[j] \in Int
      BY <2>2
    <3>5. CASE f[k] <= f[m + 1]
      <4>1. \A j \in Up(m + 1) : f[k] <= f[j]
        BY <2>1, <3>1, <3>5
      <4> QED BY <3>2, <4>1
    <3>6. CASE ~(f[k] <= f[m + 1])
      <4>1. \A j \in Up(m) : f[m + 1] <= f[j]
        BY <3>1, <3>3, <3>4, <3>6
      <4>2. \A j \in Up(m + 1) : f[m + 1] <= f[j]
        BY <2>1, <3>3, <4>1
      <4> QED BY <3>2, <4>2
    <3> QED BY <3>5, <3>6
  <2> QED BY <2>3, <2>4, <2>5
<1>3. n \in T
  <2> HIDE DEF T
  <2> QED BY <1>1, <1>2, SetInduction
<1>4. Up(n) = P
  BY <1>0
<1> QED BY <1>3, <1>4

(* What is wanted of the samples is before all that they lack.             *)
LEMMA WantedBefore ==
  ASSUME NEW s, Gathering(s), NEW k \in DOMAIN s, NEW i \in DOMAIN s[k].missing
  PROVE  \E range \in Media!Wanted(s) : range.start <= s[k].missing[i].start
<1> DEFINE P == {j \in DOMAIN s : s[j].missing # <<>>}
           first == [j \in DOMAIN s |-> s[j].missing[1]]
           f == [j \in DOMAIN s |-> first[j].start]
<1>1. DOMAIN s = 1..Len(s) /\ Len(s) \in Nat
  BY SequenceShape DEF Gathering
<1>2. \A j \in DOMAIN s : IsSample(s[j])
  BY <1>1 DEF Gathering
<1>3. \A j \in P : /\ s[j].missing \in Seq(Stretch) /\ Ordered(s[j].missing)
                   /\ Len(s[j].missing) \in Nat
                   /\ 1 \in 1..Len(s[j].missing) /\ DOMAIN s[j].missing = 1..Len(s[j].missing)
  <2> SUFFICES ASSUME NEW j \in P
               PROVE  /\ s[j].missing \in Seq(Stretch) /\ Ordered(s[j].missing)
                      /\ Len(s[j].missing) \in Nat
                      /\ 1 \in 1..Len(s[j].missing)
                      /\ DOMAIN s[j].missing = 1..Len(s[j].missing)
    OBVIOUS
  <2>1. PICK missing \in Seq(Stretch) : missing = s[j].missing /\ Ordered(missing)
    BY <1>2 DEF IsSample
  <2>2. Len(missing) \in Nat /\ Len(missing) # 0 /\ DOMAIN missing = 1..Len(missing)
    BY <2>1, EmptySeq
  <2>3. 1 \in 1..Len(missing)
    BY <2>2
  <2> QED BY <2>1, <2>2, <2>3
<1>4. \A j \in P : first[j] \in Stretch /\ f[j] = first[j].start /\ f[j] \in Int
  <2> SUFFICES ASSUME NEW j \in P
               PROVE  first[j] \in Stretch /\ f[j] = first[j].start /\ f[j] \in Int
    OBVIOUS
  <2>1. PICK run \in Stretch : run = s[j].missing[1]
    BY <1>3
  <2> QED BY <2>1, StretchIs
<1>5. k \in P
  <2>1. PICK missing \in Seq(Stretch) : missing = s[k].missing
    BY <1>2 DEF IsSample
  <2>2. DOMAIN <<>> = {}
    OBVIOUS
  <2> QED BY <2>1, <2>2
<1>6. Media!FirstMissing(s) = {first[j] : j \in P}
  BY DEF Media!FirstMissing
<1>7. PICK least \in P : \A j \in P : f[least] <= f[j]
  <2> HIDE DEF f, first, P
  <2>1. P \subseteq 1..Len(s)
    BY <1>1 DEF P
  <2> QED BY <1>1, <1>4, <1>5, <2>1, LeastOf
<1> HIDE DEF f, first, P
<1>8. first[least] \in Media!Wanted(s)
  <2>1. \A j \in P : first[least].start <= first[j].start
    BY <1>4, <1>7
  <2> QED BY <1>6, <2>1 DEF Media!Wanted
<1>9. f[k] <= s[k].missing[i].start
  <2>1. PICK missing \in Seq(Stretch) : missing = s[k].missing /\ Ordered(missing)
    BY <1>3, <1>5
  <2>2. i \in 1..Len(missing) /\ 1 \in 1..Len(missing)
    BY <1>3, <1>5, <2>1
  <2>3. f[k] = missing[1].start
    BY <1>4, <1>5, <2>1 DEF first
  <2>4. CASE i = 1
    BY <1>4, <1>5, <2>1, <2>3, <2>4
  <2>5. CASE i # 1
    <3>1. 1 < i
      BY <2>2, <2>5
    <3>2. missing[1].start < missing[1].end /\ missing[1].end <= missing[i].start
      BY <2>1, <2>2, <3>1 DEF Ordered
    <3>3. PICK one \in Stretch, other \in Stretch : one = missing[1] /\ other = missing[i]
      BY <2>2
    <3>4. one.start \in Int /\ one.end \in Int /\ other.start \in Int
      BY StretchIs
    <3> QED BY <2>1, <2>3, <3>2, <3>3, <3>4
  <2> QED BY <2>4, <2>5
<1>10. f[least] \in Int /\ f[k] \in Int /\ f[least] <= f[k] /\ s[k].missing[i].start \in Int
  <2>1. PICK run \in Stretch : run = s[k].missing[i]
    BY <1>3, <1>5
  <2> QED BY <1>4, <1>5, <1>7, <2>1, StretchIs
<1> QED BY <1>4, <1>8, <1>9, <1>10

(* What is wanted of samples is a run that one of them lacks.              *)
LEMMA WantedLacks ==
  ASSUME NEW s, Gathering(s), NEW range \in Media!Wanted(s)
  PROVE  /\ range.start \in Int
         /\ \E k \in DOMAIN s : 1 \in DOMAIN s[k].missing /\ range = s[k].missing[1]
<1>1. PICK k \in DOMAIN s : s[k].missing # <<>> /\ range = s[k].missing[1]
  BY DEF Media!Wanted, Media!FirstMissing
<1>2. IsSample(s[k])
  BY SequenceShape DEF Gathering
<1>3. PICK missing \in Seq(Stretch) : missing = s[k].missing
  BY <1>2 DEF IsSample
<1>4. Len(missing) \in Nat /\ Len(missing) # 0 /\ DOMAIN missing = 1..Len(missing)
  BY <1>1, <1>3, EmptySeq
<1>5. 1 \in DOMAIN missing /\ range \in Stretch
  BY <1>1, <1>3, <1>4
<1> QED BY <1>1, <1>3, <1>5, StretchIs

LEMMA InvKeepsItsInput ==
  CallerInv => KeepsItsInput
<1> SUFFICES ASSUME CallerInv, caller = "passing", Taken, ~Ended, ~Again, ~LacksBefore,
                    NEW k \in DOMAIN held, Lacks(held[k], piece)
             PROVE  Failed /\ held[k].data = <<>>
  BY DEF KeepsItsInput
<1>1. turn = "take"
  BY DEF Taken
<1>2. held[k].data = <<>>
  BY <1>1 DEF CallerInv, NoneOf
<1>3. ASSUME ~Failed PROVE FALSE
  <2>1. PICK i \in DOMAIN held[k].missing :
          held[k].missing[i].start < piece.end /\ piece.start < held[k].missing[i].end
    BY DEF Lacks
  <2>2. Gathering(held) /\ DemuxerInv /\ Reached
    BY DEF CallerInv, DemuxerInv
  <2>3. PICK range \in Media!Wanted(held) : range.start <= held[k].missing[i].start
    BY <2>2, WantedBefore
  <2>4. piece.start \in Int /\ piece.end \in Int
    BY <1>1 DEF CallerInv
  <2>5. \A other \in Media!Wanted(held) : other.start \in Int /\ piece.start <= other.start
    <3> SUFFICES ASSUME NEW other \in Media!Wanted(held)
                 PROVE  other.start \in Int /\ piece.start <= other.start
      OBVIOUS
    <3>1. other.start \in Int
      BY <2>2, WantedLacks
    <3>2. PICK j \in DOMAIN held : 1 \in DOMAIN held[j].missing /\ other = held[j].missing[1]
      BY <2>2, WantedLacks
    <3>3. ~(held[j].missing[1].start < piece.start)
      BY <3>2 DEF LacksBefore
    <3> QED BY <2>4, <3>1, <3>2, <3>3
  <2>6. WantedOffsets = (IF BoxesWant THEN {position} ELSE {})
                          \cup {other.start : other \in Media!Wanted(held)}
    BY <1>3 DEF WantedOffsets
  <2>7. range.start \in WantedOffsets
    BY <2>6
  <2>8. PICK first \in Int : /\ first = WantedFirst(WantedOffsets)
                             /\ first \in WantedOffsets
                             /\ first <= range.start
    BY <2>2, <2>7, WantedIs
  <2>9. piece.start <= first
    <3>1. CASE first \in {other.start : other \in Media!Wanted(held)}
      BY <2>5, <3>1
    <3>2. CASE BoxesWant /\ first = position
      BY <1>1, <3>2 DEF CallerInv
    <3> QED BY <2>6, <2>8, <3>1, <3>2
  <2>10. first < piece.end
    <3>1. range.start \in Int
      BY <2>5
    <3>2. held[k].missing[i].start \in Int
      <4>1. IsSample(held[k])
        BY <2>2, SequenceShape DEF Gathering
      <4>2. PICK missing \in Seq(Stretch) : missing = held[k].missing
        BY <4>1 DEF IsSample
      <4>3. missing[i] \in Stretch
        BY <4>2
      <4> QED BY <4>2, <4>3, StretchIs
    <3> QED BY <2>1, <2>3, <2>4, <2>8, <3>1, <3>2
  <2>11. first \in piece.start..piece.end - 1
    BY <2>4, <2>9, <2>10
  <2> QED BY <2>7, <2>8, <2>11 DEF Again
<1> QED BY <1>2, <1>3

(* The caller that passes the file in order leaves no byte of a piece that *)
(* a sample lacks, but where a failing call had no memory for the sample,  *)
(* or where it has left bytes of an earlier piece: however the pieces are  *)
(* cut, and whatever boxes of theirs fail.                                 *)
THEOREM SequentialKeepsItsInput ==
  CallerSpec => []KeepsItsInput
<1>1. CallerInit => CallerInv
  BY InitCaller
<1>2. CallerInv /\ [CallerNext]_callerVars => CallerInv'
  BY CallerNextKeeps
<1>3. CallerInv => KeepsItsInput
  BY InvKeepsItsInput
<1> QED BY <1>1, <1>2, <1>3, PTL DEF CallerSpec
-------------------------------------------------------------------------------
(* WHAT IS WANTED DOES NOT GO BACK                                         *)

(* Each run that the samples after lack starts no earlier than one that    *)
(* the samples before lacked.                                              *)
NotBefore(samples, after) ==
  \A k \in DOMAIN after : \A i \in DOMAIN after[k].missing :
    \E j \in DOMAIN samples : \E n \in DOMAIN samples[j].missing :
      samples[j].missing[n].start <= after[k].missing[i].start

(* Where the samples after are some of those before.                       *)
LEMMA SomeNotBefore ==
  ASSUME NEW s, Gathering(s), NEW after, \A k \in DOMAIN after : \E j \in DOMAIN s : after[k] = s[j]
  PROVE  NotBefore(s, after)
<1> SUFFICES ASSUME NEW k \in DOMAIN after, NEW i \in DOMAIN after[k].missing
             PROVE  \E j \in DOMAIN s : \E n \in DOMAIN s[j].missing :
                      s[j].missing[n].start <= after[k].missing[i].start
  BY DEF NotBefore
<1>1. PICK j \in DOMAIN s : after[k] = s[j]
  OBVIOUS
<1>2. IsSample(s[j])
  BY SequenceShape DEF Gathering
<1>3. PICK missing \in Seq(Stretch) : missing = s[j].missing
  BY <1>2 DEF IsSample
<1>4. missing[i] \in Stretch
  BY <1>1, <1>3
<1>5. missing[i].start <= missing[i].start
  BY <1>4, StretchIs
<1> QED BY <1>1, <1>3, <1>5

LEMMA HeldAfterNotBefore ==
  ASSUME NEW s, Gathering(s), NEW input \in Stretch
  PROVE  NotBefore(s, Media!HeldAfter(s, input))
<1>1. PICK after : after = Media!HeldAfter(s, input)
  OBVIOUS
<1>2. DOMAIN s = 1..Len(s) /\ DOMAIN after = DOMAIN s
  BY <1>1, SequenceShape DEF Gathering, Media!HeldAfter
<1>3. ASSUME NEW k \in DOMAIN s, NEW i \in DOMAIN after[k].missing
      PROVE  \E n \in DOMAIN s[k].missing : s[k].missing[n].start <= after[k].missing[i].start
  <2>1. PICK sample : sample = s[k] /\ IsSample(sample)
    BY <1>2 DEF Gathering
  <2>2. PICK missing \in Seq(Stretch) : missing = sample.missing
    BY <2>1 DEF IsSample
  <2>3. CASE ~Media!Filled(s, k, input)
    <3>1. after[k] = sample
      BY <1>1, <2>1, <2>3 DEF Media!HeldAfter
    <3>2. i \in DOMAIN missing /\ missing[i] \in Stretch
      BY <1>3, <2>2, <3>1
    <3>3. missing[i].start <= missing[i].start
      BY <3>2, StretchIs
    <3> QED BY <2>1, <2>2, <3>1, <3>2, <3>3
  <2>4. CASE Media!Filled(s, k, input)
    <3>1. PICK new : new = Media!Fill(sample, input)
      OBVIOUS
    <3>2. after[k] = new
      BY <1>1, <2>1, <2>4, <3>1 DEF Media!HeldAfter
    <3>3. FilledAs(sample, new, input)
      BY <2>1, <3>1, FillIs
    <3>4. PICK left \in Seq(Stretch) : left = new.missing
      BY <3>3 DEF FilledAs, IsSample
    <3>5. i \in 1..Len(left)
      BY <1>3, <3>2, <3>4
    <3>6. PICK n \in 1..Len(missing) : missing[n].start <= left[i].start
      BY <2>2, <3>3, <3>4, <3>5 DEF FilledAs
    <3>7. n \in DOMAIN missing
      BY <2>2
    <3> QED BY <2>1, <2>2, <3>2, <3>4, <3>6, <3>7
  <2> QED BY <2>3, <2>4
<1> QED BY <1>1, <1>2, <1>3 DEF NotBefore

(* A step of the boxes that locates no sample leaves those held.           *)
HoldsOrLocates(step) == step.held = held \/ Len(step.samples) > 0

LEMMA StepHolds ==
  ASSUME NEW event, NEW at, NEW next
  PROVE  HoldsOrLocates(Step(event, at, next))
<1>1. Step(event, at, next).held = held
  BY DEF Step
<1> QED BY <1>1 DEF HoldsOrLocates

LEMMA ClosedHolds ==
  ASSUME Gathering(held), NEW read, Gives(read), NEW i, NEW at
  PROVE  HoldsOrLocates(Closed(read, i, at))
<1>1. PICK samples : samples = InThisFile(read.samples)
  OBVIOUS
<1>2. PICK kept : kept = Where(samples, IsKept)
  OBVIOUS
<1>3. PICK step : step = Step(read.answer, at, i + 1)
  OBVIOUS
<1>4. step = [answer |-> read.answer, position |-> at, open |-> i + 1,
              reader |-> reader, held |-> held, samples |-> <<>>]
  BY <1>3 DEF Step
<1>5. PICK closed : closed = [step EXCEPT !.reader = read.reader]
  OBVIOUS
<1>6. closed = [answer |-> read.answer, position |-> at, open |-> i + 1,
                reader |-> read.reader, held |-> held, samples |-> <<>>]
  BY <1>4, <1>5
<1>7. PICK gathers : gathers = Media!HeldWith(held, kept)
  OBVIOUS
<1>8. PICK new : new = Closed(read, i, at)
  OBVIOUS
<1>9. \/ new = closed
      \/ new = [closed EXCEPT !.answer = "past limit"]
      \/ new = [closed EXCEPT !.answer = "event", !.held = gathers, !.samples = samples]
  BY <1>1, <1>2, <1>3, <1>5, <1>7, <1>8, Zenon DEF Closed
<1>10. CASE new = closed \/ new = [closed EXCEPT !.answer = "past limit"]
  <2>1. new.held = held
    <3>1. closed.held = held /\ [closed EXCEPT !.answer = "past limit"].held = closed.held
      BY <1>6
    <3> QED BY <1>10, <3>1
  <2> QED BY <1>8, <2>1 DEF HoldsOrLocates
<1>11. CASE new = [closed EXCEPT !.answer = "event", !.held = gathers, !.samples = samples]
  <2>1. new.held = gathers /\ new.samples = samples
    BY <1>6, <1>11
  <2>2. Sequence(samples)
    <3> DEFINE P == {k \in DOMAIN read.samples : read.samples[k].here}
    <3>1. P \subseteq DOMAIN read.samples
      OBVIOUS
    <3>2. samples = Picked(read.samples, P)
      BY <1>1 DEF InThisFile, Where
    <3> HIDE DEF P
    <3>3. AllPlaced(samples)
      BY <3>1, <3>2, PickedPlaced DEF Gives
    <3> QED BY <3>3 DEF AllPlaced
  <2>3. Len(samples) \in Nat /\ DOMAIN samples = 1..Len(samples)
    BY <2>2, SequenceShape
  <2>4. CASE Len(samples) > 0
    BY <1>8, <2>1, <2>4 DEF HoldsOrLocates
  <2>5. CASE Len(samples) = 0
    <3>1. DOMAIN samples = {}
      BY <2>3, <2>5
    <3>2. kept = Picked(samples, {})
      <4>1. {k \in DOMAIN samples : IsKept(samples[k])} = {}
        BY <3>1
      <4> QED BY <1>2, <4>1 DEF Where
    <3>3. Sequence(kept) /\ Len(kept) = Cardinality({})
      BY <2>2, <3>2, PickedIs
    <3>4. Cardinality({}) = 0
      BY FS_EmptySet
    <3>5. DOMAIN kept = {}
      <4>1. DOMAIN kept = 1..0
        BY <3>3, <3>4, SequenceShape
      <4> QED BY <4>1
    <3>6. [k \in DOMAIN kept |-> Media!NewlyHeld(kept[k])] = <<>>
      BY <3>5
    <3>7. gathers = held \o <<>>
      BY <1>7, <3>6 DEF Media!HeldWith
    <3>8. gathers = held
      BY <3>7, ConcatFew DEF Gathering
    <3> QED BY <1>8, <2>1, <3>8 DEF HoldsOrLocates
  <2> QED BY <2>3, <2>4, <2>5
<1> QED BY <1>9, <1>10, <1>11

LEMMA BoxStepHolds ==
  ASSUME file \in Files, open \in Nat \ {0}, Reading(reader), Gathering(held), NEW upTo
  PROVE  HoldsOrLocates(BoxStep(upTo))
<1>1. \/ \E event, at, next : BoxStep(upTo) = Step(event, at, next)
      \/ /\ open \in DOMAIN Boxes
         /\ BoxStep(upTo) = Close(open, BoxEnd(open))
  BY BoxStepCases, BoxIs, Zenon
<1>2. CASE open \in DOMAIN Boxes /\ BoxStep(upTo) = Close(open, BoxEnd(open))
  <2>1. Gives(ReadValue(open))
    BY <1>2, ReadValueGives DEF Boxes
  <2>2. HoldsOrLocates(Closed(ReadValue(open), open, BoxEnd(open)))
    BY <2>1, ClosedHolds
  <2> QED BY <1>2, <2>2 DEF Close
<1> QED BY <1>1, <1>2, StepHolds

LEMMA LastStepHolds ==
  ASSUME file \in Files, Reading(reader), Gathering(held)
  PROVE  HoldsOrLocates(LastStep)
<1>1. \/ \E event : LastStep = Step(event, position, open)
      \/ open \in DOMAIN Boxes /\ LastStep = Close(open, position)
  BY Zenon DEF LastStep, EndsWithFile
<1>2. CASE open \in DOMAIN Boxes /\ LastStep = Close(open, position)
  <2>1. Gives(ReadValue(open))
    BY <1>2, ReadValueGives DEF Boxes
  <2>2. HoldsOrLocates(Closed(ReadValue(open), open, position))
    BY <2>1, ClosedHolds
  <2> QED BY <1>2, <2>2 DEF Close
<1> QED BY <1>1, <1>2, StepHolds

(* The step is one of GoesBackToLocated.                                   *)
GoesBack ==
  \/ WantedOffsets = {} \/ WantedOffsets' = {}
  \/ WantedFirst(WantedOffsets)' >= WantedFirst(WantedOffsets)
  \/ Len(located') > Len(located)
  \/ located' = <<>> /\ held' = <<>>

LEMMA WantedGoesOn ==
  ASSUME DemuxerInv, Reached, DemuxerInv', Reached', NotBefore(held, held'),
         BoxesWant' => BoxesWant /\ position <= position'
  PROVE  GoesBack
<1> SUFFICES ASSUME WantedOffsets # {}, WantedOffsets' # {}
             PROVE  WantedFirst(WantedOffsets') >= WantedFirst(WantedOffsets)
  BY DEF GoesBack, WantedFirst
<1>1. PICK offset : /\ offset = WantedFirst(WantedOffsets)
                    /\ offset \in Int /\ \A other \in WantedOffsets : offset <= other
                    /\ BoxesWant => offset <= position
  BY WantedIs
<1>2. PICK want : want = BoxesWant'
  OBVIOUS
<1>3. WantedOffsets' = OffsetsOf(want, position', held')
  BY <1>2 DEF WantedOffsets, OffsetsOf
<1>4. position' \in Int /\ Gathering(held') /\ Gathering(held) /\ position \in Int
  <2>1. position' \in Int /\ position \in Int
    BY DEF Reached
  <2>2. Gathering(held') /\ Gathering(held)
    BY DEF DemuxerInv
  <2> QED BY <2>1, <2>2
<1>5. PICK next : /\ next = WantedFirst(WantedOffsets')
                  /\ next \in Int /\ next \in OffsetsOf(want, position', held')
  BY <1>3, <1>4, FirstIs
<1>6. CASE want /\ next = position'
  BY <1>1, <1>2, <1>4, <1>5, <1>6
<1>7. ASSUME NEW range \in Media!Wanted(held'), next = range.start
      PROVE  offset <= next
  <2>1. PICK k \in DOMAIN held' : 1 \in DOMAIN held'[k].missing /\ range = held'[k].missing[1]
    BY <1>4, <1>7, WantedLacks
  <2>2. PICK j \in DOMAIN held : \E n \in DOMAIN held[j].missing :
          held[j].missing[n].start <= held'[k].missing[1].start
    BY <2>1 DEF NotBefore
  <2>3. PICK n \in DOMAIN held[j].missing : held[j].missing[n].start <= held'[k].missing[1].start
    BY <2>2
  <2>4. PICK first \in Media!Wanted(held) : first.start <= held[j].missing[n].start
    BY <1>4, WantedBefore
  <2>5. first.start \in Int /\ held[j].missing[n].start \in Int
    <3>1. IsSample(held[j])
      BY <1>4, SequenceShape DEF Gathering
    <3>2. PICK missing \in Seq(Stretch) : missing = held[j].missing
      BY <3>1 DEF IsSample
    <3>3. missing[n] \in Stretch
      BY <3>2
    <3> QED BY <1>4, <3>2, <3>3, StretchIs, WantedLacks
  <2>6. first.start \in WantedOffsets
    BY DEF WantedOffsets
  <2> QED BY <1>1, <1>5, <1>7, <2>1, <2>3, <2>4, <2>5, <2>6
<1>8. \/ want /\ next = position'
      \/ \E range \in Media!Wanted(held') : next = range.start
  BY <1>5 DEF OffsetsOf
<1>9. offset <= next
  BY <1>6, <1>7, <1>8, <1>1, <1>2, <1>4
<1> QED BY <1>1, <1>5, <1>9

LEMMA LocatesMore ==
  ASSUME DemuxerInv, NEW more, Sequence(more), Len(more) > 0, located' = located \o more
  PROVE  GoesBack
<1>1. Len(located') = Len(located) + Len(more) /\ Len(located) \in Nat /\ Len(more) \in Nat
  BY ConcatAny DEF DemuxerInv
<1>2. Len(located') > Len(located)
  BY <1>1
<1> QED BY <1>2 DEF GoesBack

LEMMA SameNotBefore ==
  ASSUME NEW s, Gathering(s)
  PROVE  NotBefore(s, s)
BY SomeNotBefore

LEMMA HandleInputGoesBack ==
  ASSUME DemuxerInv, Reached, NEW offset \in Int, NEW upTo \in Int, upTo <= file.length,
         HandleInput(offset, upTo)
  PROVE  GoesBack
<1>1. PICK step, gathered :
        /\ step = BoxStep(upTo)
        /\ gathered = Gathered(step, [start |-> offset, end |-> upTo])
        /\ held' = gathered.held
        /\ located' = located \o step.samples
  BY Zenon DEF HandleInput
<1>2. Gathering(step.held) /\ Sequence(step.samples) /\ HoldsOrLocates(step)
  BY <1>1, BoxStepLocates, BoxStepHolds DEF DemuxerInv, Locating
<1>3. CASE Len(step.samples) > 0
  BY <1>1, <1>2, <1>3, LocatesMore
<1>4. CASE step.held = held
  <2>1. PICK input \in Stretch : input = [start |-> offset, end |-> upTo]
    BY DEF Stretch
  <2>2. \/ gathered = [answer |-> "full", held |-> held]
        \/ gathered = [answer |-> "none", held |-> Media!HeldAfter(held, input)]
    BY <1>1, <1>4, <2>1, Zenon DEF Gathered
  <2>3. \A a, h : [answer |-> a, held |-> h].held = h
    OBVIOUS
  <2>4. held' = held \/ held' = Media!HeldAfter(held, input)
    BY <1>1, <2>2, <2>3, Zenon
  <2>5. Gathering(held)
    BY DEF DemuxerInv
  <2>6. NotBefore(held, held) /\ NotBefore(held, Media!HeldAfter(held, input))
    BY <2>5, SameNotBefore, HeldAfterNotBefore
  <2>7. NotBefore(held, held')
    BY <2>4, <2>6, Zenon
  <2>8. /\ DemuxerInv' /\ Reached'
        /\ BoxesWant' => BoxesWant /\ position <= position'
    BY HandleInputKeeps, HandleInputMoves
  <2> QED BY <2>7, <2>8, WantedGoesOn
<1> QED BY <1>2, <1>3, <1>4 DEF HoldsOrLocates

LEMMA FinishGoesBack ==
  ASSUME DemuxerInv, Reached, Finish
  PROVE  GoesBack
<1>1. PICK step :
        /\ step = LastStep
        /\ held' = step.held
        /\ located' = located \o step.samples
  BY Zenon DEF Finish
<1>2. Sequence(step.samples) /\ HoldsOrLocates(step)
  BY <1>1, LastStepLocates, LastStepHolds DEF DemuxerInv, Locating
<1>3. CASE Len(step.samples) > 0
  BY <1>1, <1>2, <1>3, LocatesMore
<1>4. CASE step.held = held
  <2>1. NotBefore(held, held')
    BY <1>1, <1>4, SameNotBefore DEF DemuxerInv
  <2> QED BY <2>1, FinishKeeps, FinishReaches, WantedGoesOn
<1> QED BY <1>2, <1>3, <1>4 DEF HoldsOrLocates

(* Samples taken, discarded, or left as they are, while the boxes stay.    *)
LEMMA HeldFewerGoesBack ==
  ASSUME DemuxerInv, Reached, [Next]_vars,
         PollSample \/ (\E track \in Tracks : DiscardTrack(track)) \/ UNCHANGED vars
  PROVE  GoesBack
<1>1. /\ file' = file /\ open' = open /\ position' = position /\ atEnd' = atEnd
      /\ answer' = answer
  BY DEF PollSample, DiscardTrack, vars, boxReader
<1>2. BoxesWant' <=> BoxesWant
  BY <1>1 DEF BoxesWant, Failed, Boxes, RunsToFileEnd, GatheredUpTo, HeaderEnd, IdentifierEnd,
              BoxEnd, BoxStart
<1>3. position <= position'
  BY <1>1 DEF Reached
<1>4. Gathering(held) /\ Sequence(held) /\ DOMAIN held = 1..Len(held) /\ Len(held) \in Nat
  BY SequenceShape DEF DemuxerInv, Gathering
<1>5. \A k \in DOMAIN held' : \E j \in DOMAIN held : held'[k] = held[j]
  <2>1. CASE PollSample
    <3>1. held' = Tail(held) /\ held # <<>>
      BY <2>1 DEF PollSample
    <3>2. Len(held) > 0
      <4>1. held \in Seq(Range(held))
        BY <1>4 DEF Sequence
      <4> QED BY <3>1, <4>1, EmptySeq
    <3>3. /\ Sequence(held') /\ Len(held') = Len(held) - 1
          /\ \A i \in 1..Len(held) - 1 : held'[i] = held[i + 1]
      BY <1>4, <3>1, <3>2, TailAny
    <3>4. DOMAIN held' = 1..Len(held) - 1
      BY <3>3, SequenceShape
    <3>5. \A k \in DOMAIN held' : k + 1 \in DOMAIN held /\ held'[k] = held[k + 1]
      BY <1>4, <3>3, <3>4
    <3> QED BY <3>5
  <2>2. CASE \E track \in Tracks : DiscardTrack(track)
    <3>1. PICK track \in Tracks : DiscardTrack(track)
      BY <2>2
    <3> DEFINE P == {k \in DOMAIN held : held[k].location.track # track}
    <3>2. held' = Picked(held, P)
      BY <3>1 DEF DiscardTrack, Where
    <3>3. P \subseteq DOMAIN held
      OBVIOUS
    <3> HIDE DEF P
    <3>4. /\ Sequence(held') /\ Len(held') = Cardinality(P)
          /\ \A k \in 1..Cardinality(P) : Nth(P, k) \in P /\ held'[k] = held[Nth(P, k)]
      BY <1>4, <3>2, <3>3, PickedIs
    <3>5. DOMAIN held' = 1..Cardinality(P)
      BY <3>4, SequenceShape
    <3> QED BY <3>3, <3>4, <3>5
  <2>3. CASE UNCHANGED vars
    <3>1. held' = held
      BY <2>3 DEF vars
    <3> QED BY <3>1
  <2> QED BY <2>1, <2>2, <2>3
<1>6. NotBefore(held, held')
  BY <1>4, <1>5, SomeNotBefore
<1> QED BY <1>2, <1>3, <1>6, NextKeeps, NextReaches, WantedGoesOn

LEMMA NextGoesBack ==
  DemuxerInv /\ Reached /\ [Next]_vars => GoesBack
<1> SUFFICES ASSUME DemuxerInv, Reached, [Next]_vars PROVE GoesBack
  OBVIOUS
<1>1. CASE Read
  <2>1. PICK offset \in 0..file.length : \E upTo \in offset..file.length : HandleInput(offset, upTo)
    BY <1>1 DEF Read
  <2>2. PICK upTo \in offset..file.length : HandleInput(offset, upTo)
    BY <2>1
  <2>3. file.length \in Nat
    BY BoxesLie DEF DemuxerInv
  <2>4. offset \in Int /\ upTo \in Int /\ upTo <= file.length
    BY <2>3
  <2> QED BY <2>2, <2>4, HandleInputGoesBack
<1>2. CASE Finish
  BY <1>2, FinishGoesBack
<1>3. CASE PollSample \/ (\E track \in Tracks : DiscardTrack(track)) \/ UNCHANGED vars
  BY <1>3, HeldFewerGoesBack
<1>4. CASE \E i \in DOMAIN Boxes : ResumeAt(i)
  BY <1>4 DEF ResumeAt, HeldOnResume, GoesBack
<1> QED BY <1>1, <1>2, <1>3, <1>4 DEF Next

(* The first wanted offset goes back only where a box has located samples, *)
(* or the reading resumes: whatever input a call passes, and whichever     *)
(* samples are taken or discarded.                                         *)
THEOREM WantedGoesBackToLocated ==
  Spec => GoesBackToLocated
<1>1. Init => DemuxerInv /\ Reached
  BY InitInv, InitReaches
<1>2. DemuxerInv /\ Reached /\ [Next]_vars => DemuxerInv' /\ Reached'
  BY NextKeeps, NextReaches
<1>3. DemuxerInv /\ Reached /\ [Next]_vars
        => [ \/ WantedOffsets = {} \/ WantedOffsets' = {}
             \/ WantedFirst(WantedOffsets)' >= WantedFirst(WantedOffsets)
             \/ Len(located') > Len(located)
             \/ located' = <<>> /\ held' = <<>> ]_vars
  BY NextGoesBack DEF GoesBack
<1> QED BY <1>1, <1>2, <1>3, PTL DEF Spec, GoesBackToLocated

LEMMA CallerNextGoesBack ==
  CallerInv /\ [CallerNext]_callerVars => GoesBack
<1> SUFFICES ASSUME CallerInv, [CallerNext]_callerVars PROVE GoesBack
  OBVIOUS
<1>1. DemuxerInv /\ Reached
  BY DEF CallerInv
<1>2. CASE Pass
  <2>1. turn # "any" /\ HandleInput(piece.start, piece.end)
    BY <1>2 DEF Pass
  <2>2. piece.start \in Int /\ piece.end \in Int /\ piece.end <= file.length
    BY <2>1 DEF CallerInv
  <2> QED BY <1>1, <2>1, <2>2, HandleInputGoesBack
<1>3. CASE FinishFile
  BY <1>1, <1>3, FinishGoesBack DEF FinishFile
<1>4. CASE Take
  BY <1>1, <1>4, HeldFewerGoesBack DEF Take, Next
<1>5. CASE AnyCall
  BY <1>1, <1>5, NextGoesBack DEF AnyCall
<1>6. CASE Stop \/ Seek \/ Follow \/ Stopped \/ UNCHANGED callerVars
  <2>1. UNCHANGED vars
    BY <1>6 DEF Stop, Seek, Follow, PassNext, Stopped, callerVars
  <2> QED BY <1>1, <2>1, HeldFewerGoesBack
<1> QED BY <1>2, <1>3, <1>4, <1>5, <1>6 DEF CallerNext

(* So it does under the callers of the documentation: the sequential one   *)
(* and the one that seeks.                                                 *)
THEOREM CallersGoBackToLocated ==
  CallerSpec => GoesBackToLocated
<1>1. CallerInit => CallerInv
  BY InitCaller
<1>2. CallerInv /\ [CallerNext]_callerVars => CallerInv'
  BY CallerNextKeeps
<1>3. CallerInv /\ [CallerNext]_callerVars
        => [ \/ WantedOffsets = {} \/ WantedOffsets' = {}
             \/ WantedFirst(WantedOffsets)' >= WantedFirst(WantedOffsets)
             \/ Len(located') > Len(located)
             \/ located' = <<>> /\ held' = <<>> ]_vars
  BY CallerNextGoesBack DEF GoesBack
<1> QED BY <1>1, <1>2, <1>3, PTL DEF CallerSpec, GoesBackToLocated
================================================================================
