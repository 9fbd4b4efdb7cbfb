------------------------- MODULE StructureDataProofs -------------------------
(***************************************************************************)
(* Theorems about StructureDataReader: what it keeps of the boxes it has   *)
(* met and, whatever compressed boxes it was told of and in whatever       *)
(* order, how it takes offsets between the file and the file as it reads   *)
(* back.                                                                   *)
(***************************************************************************)
EXTENDS StructureDataReader, SequenceLemmas

(* NUMBERS                                                                 *)

LEMMA Positions ==
  MaxPosition \in Nat
  BY StructureAssumption

LEMMA SumWithin ==
  ASSUME NEW a \in Nat, NEW b \in Nat
  PROVE  /\ Sum(a, b) \in Nat
         /\ a + b <= MaxPosition => Sum(a, b) = a + b
<1>1. a + b \in Int /\ MaxPosition \in Int
  BY Positions
<1>2. Min({a + b, MaxPosition}) = IF a + b <= MaxPosition THEN a + b ELSE MaxPosition
  BY <1>1, OfTwo
<1> QED BY <1>2, Positions DEF Sum

LEMMA ShiftedWithin ==
  ASSUME NEW offset \in Nat, NEW from \in Nat, NEW to \in Nat, from <= offset,
         to + (offset - from) <= MaxPosition
  PROVE  Shifted(offset, from, to) = to + (offset - from)
<1>1. offset - from \in Nat
  OBVIOUS
<1>2. Max({offset - from, 0}) = offset - from
  <2>1. offset - from \in Int /\ 0 \in Int /\ offset - from >= 0
    BY <1>1
  <2> QED BY <2>1, OfTwo
<1> QED BY <1>1, <1>2, SumWithin DEF Shifted
-------------------------------------------------------------------------------
(* FILES                                                                   *)

Before(boxes, i) == Contents!LengthBefore(boxes, i)
Longer(box) == Max({Contents!Length(box), Contents!ReadBackLength(box)})

LEMMA LengthsAre ==
  ASSUME NEW boxes \in Seq(Contents!FileBox), NEW n \in 1..Len(boxes)
  PROVE  /\ Contents!Length(boxes[n]) \in Nat /\ Contents!Length(boxes[n]) > 0
         /\ Contents!ReadBackLength(boxes[n]) \in Nat /\ Contents!ReadBackLength(boxes[n]) > 0
         /\ Longer(boxes[n]) \in Nat
         /\ Contents!Length(boxes[n]) <= Longer(boxes[n])
         /\ Contents!ReadBackLength(boxes[n]) <= Longer(boxes[n])
<1>1. boxes[n].payload \in Nat /\ boxes[n].readBack \in Nat
  <2>1. boxes[n] \in Contents!FileBox
    OBVIOUS
  <2> QED BY <2>1 DEF Contents!FileBox
<1>2. Contents!Length(boxes[n]) = 1 + boxes[n].payload
  BY DEF Contents!Length
<1>3. Contents!ReadBackLength(boxes[n]) = 1 + boxes[n].readBack
  BY DEF Contents!ReadBackLength
<1>4. /\ Contents!Length(boxes[n]) \in Nat /\ Contents!Length(boxes[n]) > 0
      /\ Contents!ReadBackLength(boxes[n]) \in Nat /\ Contents!ReadBackLength(boxes[n]) > 0
  BY <1>1, <1>2, <1>3
<1>5. Longer(boxes[n]) = IF Contents!Length(boxes[n]) >= Contents!ReadBackLength(boxes[n])
                         THEN Contents!Length(boxes[n]) ELSE Contents!ReadBackLength(boxes[n])
  BY <1>4, OfTwo DEF Longer
<1> QED BY <1>4, <1>5

LEMMA BeforeIs ==
  ASSUME NEW boxes \in Seq(Contents!FileBox)
  PROVE  /\ Len(boxes) \in Nat /\ DOMAIN boxes = 1..Len(boxes)
         /\ Before(boxes, 1) = 0
         /\ \A i \in 1..Len(boxes) + 1 : Before(boxes, i) \in Nat
         /\ \A i \in 1..Len(boxes) :
              Before(boxes, i + 1) = Before(boxes, i) + Contents!Length(boxes[i])
<1> DEFINE N == Len(boxes)
           own == [n \in 1..N |-> Contents!Length(boxes[n])]
           Step(f) == [n \in 0..N |-> IF n = 0 THEN 0 ELSE f[n - 1] + Contents!Length(boxes[n])]
           first == CHOOSE f : f = Step(f)
<1>1. N \in Nat /\ DOMAIN boxes = 1..N
  OBVIOUS
<1>2. \A n \in 1..N : own[n] \in Nat /\ own[n] = Contents!Length(boxes[n])
  BY LengthsAre
<1>3. ASSUME NEW f PROVE Sums(f, N, own) <=> f = Step(f)
  <2>1. \A n \in 0..N : n # 0 => own[n] = Contents!Length(boxes[n])
    BY <1>1, <1>2
  <2>2. [n \in 0..N |-> IF n = 0 THEN 0 ELSE f[n - 1] + own[n]] = Step(f)
    <3> HIDE DEF own
    <3> QED BY <2>1
  <2> QED BY <2>2 DEF Sums
<1>4. \E f : Sums(f, N, own)
  <2> HIDE DEF own
  <2> QED BY <1>1, <1>2, SumsExist
<1>5. \E f : f = Step(f)
  BY <1>3, <1>4
<1>6. first = Step(first)
  <2> HIDE DEF Step
  <2> QED BY <1>5
<1>7. \A i : Before(boxes, i) = first[i - 1]
  BY DEF Before, Contents!LengthBefore
<1>8. Sums(first, N, own)
  BY <1>3, <1>6
<1> HIDE DEF first, own
<1>9. /\ first[0] = 0
      /\ \A n \in 0..N : first[n] \in Nat
      /\ \A n \in 1..N : first[n] = first[n - 1] + own[n]
  BY <1>1, <1>2, <1>8, SumsSteps
<1>10. \A i \in 1..N + 1 : i - 1 \in 0..N
  BY <1>1
<1>11. Before(boxes, 1) = 0 /\ \A i \in 1..N + 1 : Before(boxes, i) \in Nat
  BY <1>7, <1>9, <1>10
<1>12. \A i \in 1..N : Before(boxes, i + 1) = Before(boxes, i) + Contents!Length(boxes[i])
  <2> SUFFICES ASSUME NEW i \in 1..N
               PROVE  Before(boxes, i + 1) = Before(boxes, i) + Contents!Length(boxes[i])
    OBVIOUS
  <2>1. Before(boxes, i + 1) = first[i + 1 - 1] /\ i + 1 - 1 = i
    BY <1>7, <1>1
  <2> QED BY <1>2, <1>7, <1>9, <2>1
<1> QED BY <1>1, <1>11, <1>12

LEMMA FarthestIs ==
  ASSUME NEW boxes \in Seq(Contents!FileBox)
  PROVE  /\ Farthest(boxes, 1) = 0
         /\ \A i \in 1..Len(boxes) + 1 : Farthest(boxes, i) \in Nat
         /\ \A i \in 1..Len(boxes) :
              Farthest(boxes, i + 1) = Farthest(boxes, i) + Longer(boxes[i])
<1> DEFINE N == Len(boxes)
           own == [n \in 1..N |-> Longer(boxes[n])]
           Step(f) == [n \in 0..N |-> IF n = 0 THEN 0 ELSE f[n - 1] + Longer(boxes[n])]
           first == CHOOSE f : f = Step(f)
<1>1. N \in Nat
  OBVIOUS
<1>2. \A n \in 1..N : own[n] \in Nat /\ own[n] = Longer(boxes[n])
  BY LengthsAre
<1>3. ASSUME NEW f PROVE Sums(f, N, own) <=> f = Step(f)
  <2>1. \A n \in 0..N : n # 0 => own[n] = Longer(boxes[n])
    BY <1>1, <1>2
  <2>2. [n \in 0..N |-> IF n = 0 THEN 0 ELSE f[n - 1] + own[n]] = Step(f)
    <3> HIDE DEF own
    <3> QED BY <2>1
  <2> QED BY <2>2 DEF Sums
<1>4. \E f : Sums(f, N, own)
  <2> HIDE DEF own
  <2> QED BY <1>1, <1>2, SumsExist
<1>5. \E f : f = Step(f)
  BY <1>3, <1>4
<1>6. first = Step(first)
  <2> HIDE DEF Step
  <2> QED BY <1>5
<1>7. \A i : Farthest(boxes, i) = first[i - 1]
  BY DEF Farthest, Longer
<1>8. Sums(first, N, own)
  BY <1>3, <1>6
<1> HIDE DEF first, own
<1>9. /\ first[0] = 0
      /\ \A n \in 0..N : first[n] \in Nat
      /\ \A n \in 1..N : first[n] = first[n - 1] + own[n]
  BY <1>1, <1>2, <1>8, SumsSteps
<1>10. \A i \in 1..N + 1 : i - 1 \in 0..N
  BY <1>1
<1>11. Farthest(boxes, 1) = 0 /\ \A i \in 1..N + 1 : Farthest(boxes, i) \in Nat
  BY <1>7, <1>9, <1>10
<1>12. \A i \in 1..N : Farthest(boxes, i + 1) = Farthest(boxes, i) + Longer(boxes[i])
  <2> SUFFICES ASSUME NEW i \in 1..N
               PROVE  Farthest(boxes, i + 1) = Farthest(boxes, i) + Longer(boxes[i])
    OBVIOUS
  <2>1. Farthest(boxes, i + 1) = first[i + 1 - 1] /\ i + 1 - 1 = i
    BY <1>7, <1>1
  <2> QED BY <1>2, <1>7, <1>9, <2>1
<1> QED BY <1>11, <1>12

(* The boxes from one to a later one, as they are, are no longer than each *)
(* of them at its longer.                                                  *)
LEMMA BeforeGrows ==
  ASSUME NEW boxes \in Seq(Contents!FileBox), NEW i \in 1..Len(boxes) + 1,
         NEW j \in 1..Len(boxes) + 1, i <= j
  PROVE  /\ Before(boxes, i) <= Before(boxes, j)
         /\ Before(boxes, j) - Before(boxes, i) <= Farthest(boxes, j) - Farthest(boxes, i)
         /\ i # j => Before(boxes, i + 1) <= Before(boxes, j)
         /\ i # j => Before(boxes, i) < Before(boxes, j)
<1> DEFINE N == Len(boxes)
           Good(a, b) == /\ Before(boxes, a) <= Before(boxes, b)
                         /\ Before(boxes, b) - Before(boxes, a) <= Farthest(boxes, b) - Farthest(boxes, a)
           T == {m \in Nat : \A a \in 1..N + 1 : a + m <= N + 1 => Good(a, a + m)}
<1>1. N \in Nat
  OBVIOUS
<1>2. 0 \in T
  <2> SUFFICES ASSUME NEW a \in 1..N + 1 PROVE Good(a, a + 0)
    OBVIOUS
  <2>1. a + 0 = a /\ Before(boxes, a) \in Nat /\ Farthest(boxes, a) \in Nat
    BY BeforeIs, FarthestIs
  <2> QED BY <2>1
<1>3. ASSUME NEW m \in Nat, m \in T PROVE m + 1 \in T
  <2> SUFFICES ASSUME NEW a \in 1..N + 1, a + (m + 1) <= N + 1 PROVE Good(a, a + (m + 1))
    OBVIOUS
  <2>1. PICK b : b = a + m
    OBVIOUS
  <2>2. b \in 1..N /\ b \in 1..N + 1 /\ b + 1 \in 1..N + 1 /\ a + (m + 1) = b + 1
    BY <2>1, <1>1
  <2>3. Good(a, b)
    BY <1>3, <2>1, <2>2
  <2>4. /\ Before(boxes, b + 1) = Before(boxes, b) + Contents!Length(boxes[b])
        /\ Before(boxes, a) \in Nat /\ Before(boxes, b) \in Nat
    BY <2>2, BeforeIs
  <2>5. /\ Farthest(boxes, b + 1) = Farthest(boxes, b) + Longer(boxes[b])
        /\ Farthest(boxes, a) \in Nat /\ Farthest(boxes, b) \in Nat
    BY <2>2, FarthestIs
  <2>6. Contents!Length(boxes[b]) \in Nat /\ Longer(boxes[b]) \in Nat
        /\ Contents!Length(boxes[b]) <= Longer(boxes[b])
    BY <2>2, LengthsAre
  <2>7. Good(a, b + 1)
    BY <2>3, <2>4, <2>5, <2>6, SMTT(60)
  <2> QED BY <2>2, <2>7
<1>4. \A m \in Nat : m \in T
  <2> HIDE DEF T
  <2> QED BY <1>2, <1>3, SetInduction
<1>5. \A a, b \in 1..N + 1 : a <= b => Good(a, b)
  <2> SUFFICES ASSUME NEW a \in 1..N + 1, NEW b \in 1..N + 1, a <= b PROVE Good(a, b)
    OBVIOUS
  <2>1. b - a \in Nat /\ a + (b - a) = b
    BY <1>1
  <2>2. b - a \in T
    BY <2>1, <1>4
  <2> HIDE DEF Good
  <2> QED BY <2>1, <2>2
<1>6. ASSUME i # j PROVE Before(boxes, i + 1) <= Before(boxes, j) /\ Before(boxes, i) < Before(boxes, j)
  <2>1. i \in 1..N /\ i + 1 \in 1..N + 1 /\ i + 1 <= j
    BY <1>1, <1>6
  <2>2. Before(boxes, i + 1) <= Before(boxes, j)
    BY <1>5, <2>1
  <2>3. /\ Before(boxes, i + 1) = Before(boxes, i) + Contents!Length(boxes[i])
        /\ Before(boxes, i) \in Nat /\ Before(boxes, j) \in Nat
    BY <2>1, BeforeIs
  <2>4. Contents!Length(boxes[i]) \in Nat /\ Contents!Length(boxes[i]) > 0
    BY <2>1, LengthsAre
  <2> QED BY <2>2, <2>3, <2>4
<1> QED BY <1>5, <1>6
-------------------------------------------------------------------------------
(* COMPRESSED BOXES                                                        *)

(* The compressed box `b` is box i of the file.                            *)
LiesAt(b, boxes, i) ==
  /\ boxes[i].compressed
  /\ b = [offset |-> Before(boxes, i), length |-> Contents!Length(boxes[i]),
          readBackOffset |-> b.readBackOffset,
          readBackLength |-> Contents!ReadBackLength(boxes[i])]

(* Compressed boxes of a file, as they lie.                                *)
InOrder(kept, boxes) ==
  /\ Sequence(kept)
  /\ \A k \in 1..Len(kept) : \E i \in 1..Len(boxes) : LiesAt(kept[k], boxes, i)
  /\ \A k, l \in 1..Len(kept) : k < l => kept[k].offset < kept[l].offset

(* The place of box k in the uncompressed domain: as far from the box      *)
(* before it as in the file, and within what the boxes before take up.     *)
Follows(kept, k) ==
  kept[k].readBackOffset =
    IF k = 1 THEN kept[k].offset
    ELSE kept[k - 1].readBackOffset + kept[k - 1].readBackLength
         + (kept[k].offset - (kept[k - 1].offset + kept[k - 1].length))

Within(b, boxes) ==
  \E i \in 1..Len(boxes) : LiesAt(b, boxes, i) /\ b.readBackOffset \in Nat
                           /\ b.readBackOffset <= Farthest(boxes, i)

Recorded(kept, boxes) ==
  /\ InOrder(kept, boxes)
  /\ \A k \in 1..Len(kept) : Follows(kept, k) /\ Within(kept[k], boxes)

LEMMA FileIs ==
  ASSUME NEW boxes \in Files
  PROVE  /\ boxes \in Seq(Contents!FileBox)
         /\ Len(boxes) \in Nat
         /\ \A i \in 1..Len(boxes) + 1 :
              /\ Before(boxes, i) \in Nat /\ Before(boxes, i) <= Before(boxes, Len(boxes) + 1)
              /\ Farthest(boxes, i) \in Nat
              /\ Before(boxes, i) <= Farthest(boxes, i)
              /\ Farthest(boxes, i) <= MaxPosition
<1>1. boxes \in Seq(Contents!FileBox) /\ Farthest(boxes, Len(boxes) + 1) <= MaxPosition
  BY FilesAssumption
<1>2. Len(boxes) \in Nat
  BY <1>1
<1>3. ASSUME NEW i \in 1..Len(boxes) + 1
      PROVE  /\ Before(boxes, i) \in Nat /\ Before(boxes, i) <= Before(boxes, Len(boxes) + 1)
             /\ Farthest(boxes, i) \in Nat
             /\ Before(boxes, i) <= Farthest(boxes, i)
             /\ Farthest(boxes, i) <= MaxPosition
  <2>1. 1 \in 1..Len(boxes) + 1 /\ Len(boxes) + 1 \in 1..Len(boxes) + 1 /\ 1 <= i /\ i <= Len(boxes) + 1
    BY <1>2
  <2>2. /\ Before(boxes, 1) = 0 /\ Before(boxes, i) \in Nat /\ Before(boxes, Len(boxes) + 1) \in Nat
        /\ Farthest(boxes, 1) = 0 /\ Farthest(boxes, i) \in Nat
        /\ Farthest(boxes, Len(boxes) + 1) \in Nat
    BY <1>1, <2>1, BeforeIs, FarthestIs
  <2>3. Before(boxes, i) - Before(boxes, 1) <= Farthest(boxes, i) - Farthest(boxes, 1)
    BY <1>1, <2>1, BeforeGrows
  <2>4. /\ Before(boxes, i) <= Before(boxes, Len(boxes) + 1)
        /\ Before(boxes, Len(boxes) + 1) - Before(boxes, i)
             <= Farthest(boxes, Len(boxes) + 1) - Farthest(boxes, i)
    BY <1>1, <2>1, BeforeGrows
  <2> QED BY <1>1, <2>2, <2>3, <2>4, Positions
<1> QED BY <1>1, <1>2, <1>3

LEMMA LiesWithin ==
  ASSUME NEW boxes \in Files, NEW i \in 1..Len(boxes), NEW b, LiesAt(b, boxes, i)
  PROVE  /\ b.offset = Before(boxes, i)
         /\ b.offset \in Nat /\ b.length \in Nat /\ b.length > 0
         /\ b.readBackLength \in Nat /\ b.readBackLength > 0
         /\ b.offset + b.length = Before(boxes, i + 1)
         /\ Before(boxes, i + 1) \in Nat /\ Farthest(boxes, i) \in Nat /\ Farthest(boxes, i + 1) \in Nat
         /\ Farthest(boxes, i) + b.readBackLength <= Farthest(boxes, i + 1)
         /\ Farthest(boxes, i + 1) <= MaxPosition
         /\ EndOf(b) = b.offset + b.length
<1>1. b.offset = Before(boxes, i) /\ b.length = Contents!Length(boxes[i])
      /\ b.readBackLength = Contents!ReadBackLength(boxes[i])
  BY DEF LiesAt
<1>2. boxes \in Seq(Contents!FileBox) /\ Len(boxes) \in Nat
  BY FileIs
<1>3. i \in 1..Len(boxes) + 1 /\ i + 1 \in 1..Len(boxes) + 1
  BY <1>2
<1>4. /\ Before(boxes, i) \in Nat /\ Before(boxes, i + 1) \in Nat
      /\ Farthest(boxes, i) \in Nat /\ Farthest(boxes, i + 1) \in Nat
      /\ Farthest(boxes, i + 1) <= MaxPosition /\ Before(boxes, i + 1) <= Farthest(boxes, i + 1)
  BY <1>3, FileIs
<1>5. /\ Before(boxes, i + 1) = Before(boxes, i) + Contents!Length(boxes[i])
      /\ Farthest(boxes, i + 1) = Farthest(boxes, i) + Longer(boxes[i])
  BY <1>2, BeforeIs, FarthestIs
<1>6. /\ Contents!Length(boxes[i]) \in Nat /\ Contents!Length(boxes[i]) > 0
      /\ Contents!ReadBackLength(boxes[i]) \in Nat /\ Contents!ReadBackLength(boxes[i]) > 0
      /\ Longer(boxes[i]) \in Nat /\ Contents!ReadBackLength(boxes[i]) <= Longer(boxes[i])
  BY <1>2, LengthsAre
<1>7. b.offset + b.length = Before(boxes, i + 1) /\ b.offset + b.length <= MaxPosition
  BY <1>1, <1>4, <1>5, <1>6, Positions
<1>8. EndOf(b) = b.offset + b.length
  BY <1>1, <1>4, <1>6, <1>7, SumWithin DEF EndOf
<1>9. Farthest(boxes, i) + b.readBackLength <= Farthest(boxes, i + 1)
  BY <1>1, <1>4, <1>5, <1>6
<1> QED BY <1>1, <1>4, <1>6, <1>7, <1>8, <1>9

(* Of two of them, the one behind lies past the end of the other.          *)
LEMMA LiesBehind ==
  ASSUME NEW boxes \in Files, NEW i \in 1..Len(boxes), NEW j \in 1..Len(boxes),
         NEW b, NEW c, LiesAt(b, boxes, i), LiesAt(c, boxes, j), b.offset < c.offset
  PROVE  /\ i < j
         /\ b.offset + b.length <= c.offset
         /\ c.offset - (b.offset + b.length) <= Farthest(boxes, j) - Farthest(boxes, i + 1)
<1>1. boxes \in Seq(Contents!FileBox) /\ Len(boxes) \in Nat
  BY FileIs
<1>2. /\ i \in 1..Len(boxes) + 1 /\ j \in 1..Len(boxes) + 1 /\ i + 1 \in 1..Len(boxes) + 1
  BY <1>1
<1>3. /\ b.offset = Before(boxes, i) /\ c.offset = Before(boxes, j)
      /\ b.offset \in Nat /\ c.offset \in Nat
      /\ b.offset + b.length = Before(boxes, i + 1)
  BY LiesWithin
<1>4. i < j
  <2> SUFFICES ASSUME j <= i PROVE FALSE
    BY <1>2
  <2>1. Before(boxes, j) <= Before(boxes, i)
    BY <1>1, <1>2, BeforeGrows
  <2> QED BY <1>3, <2>1
<1>5. i + 1 <= j
  BY <1>4, <1>2
<1>6. /\ Before(boxes, i + 1) <= Before(boxes, j)
      /\ Before(boxes, j) - Before(boxes, i + 1) <= Farthest(boxes, j) - Farthest(boxes, i + 1)
  BY <1>1, <1>2, <1>5, BeforeGrows
<1> QED BY <1>3, <1>4, <1>6
-------------------------------------------------------------------------------
(* BETWEEN THE FILE AND THE UNCOMPRESSED DOMAIN                            *)

FileEnd(b) == b.offset + b.length
BackEnd(b) == b.readBackOffset + b.readBackLength

LEMMA RecordedAre ==
  ASSUME NEW boxes \in Files, NEW kept, Recorded(kept, boxes), NEW k \in 1..Len(kept)
  PROVE  /\ kept[k].offset \in Nat /\ kept[k].length \in Nat /\ kept[k].length > 0
         /\ kept[k].readBackOffset \in Nat /\ kept[k].readBackLength \in Nat
         /\ kept[k].readBackLength > 0
         /\ EndOf(kept[k]) = FileEnd(kept[k]) /\ FileEnd(kept[k]) \in Nat
         /\ ReadBackEnd(kept[k]) = BackEnd(kept[k]) /\ BackEnd(kept[k]) \in Nat
         /\ BackEnd(kept[k]) <= MaxPosition
<1>1. PICK i \in 1..Len(boxes) : /\ LiesAt(kept[k], boxes, i)
                                 /\ kept[k].readBackOffset \in Nat
                                 /\ kept[k].readBackOffset <= Farthest(boxes, i)
  BY DEF Recorded, Within
<1>2. /\ kept[k].offset \in Nat /\ kept[k].length \in Nat /\ kept[k].length > 0
      /\ kept[k].readBackLength \in Nat /\ kept[k].readBackLength > 0
      /\ Farthest(boxes, i) \in Nat /\ Farthest(boxes, i + 1) \in Nat
      /\ Farthest(boxes, i) + kept[k].readBackLength <= Farthest(boxes, i + 1)
      /\ Farthest(boxes, i + 1) <= MaxPosition
      /\ EndOf(kept[k]) = kept[k].offset + kept[k].length
  BY <1>1, LiesWithin
<1>3. kept[k].readBackOffset + kept[k].readBackLength <= MaxPosition
  BY <1>1, <1>2, Positions
<1>4. ReadBackEnd(kept[k]) = kept[k].readBackOffset + kept[k].readBackLength
  BY <1>1, <1>2, <1>3, SumWithin DEF ReadBackEnd
<1> QED BY <1>1, <1>2, <1>3, <1>4, SMTT(60) DEF FileEnd, BackEnd

(* One behind another lies behind it in both domains.                      *)
LEMMA RecordedBehind ==
  ASSUME NEW boxes \in Files, NEW kept, Recorded(kept, boxes),
         NEW k \in 1..Len(kept), NEW l \in 1..Len(kept), k < l
  PROVE  /\ FileEnd(kept[k]) <= kept[l].offset
         /\ BackEnd(kept[k]) <= kept[l].readBackOffset
<1>0. Len(kept) \in Nat
  BY SequenceShape DEF Recorded, InOrder
<1>1. \A a, b \in 1..Len(kept) : a < b => FileEnd(kept[a]) <= kept[b].offset
  <2> SUFFICES ASSUME NEW a \in 1..Len(kept), NEW b \in 1..Len(kept), a < b
               PROVE  FileEnd(kept[a]) <= kept[b].offset
    OBVIOUS
  <2>1. PICK i \in 1..Len(boxes) : LiesAt(kept[a], boxes, i)
    BY DEF Recorded, InOrder
  <2>2. PICK j \in 1..Len(boxes) : LiesAt(kept[b], boxes, j)
    BY DEF Recorded, InOrder
  <2>3. kept[a].offset < kept[b].offset
    BY DEF Recorded, InOrder
  <2>4. kept[a].offset + kept[a].length <= kept[b].offset
    BY <2>1, <2>2, <2>3, LiesBehind
  <2> QED BY <2>4 DEF FileEnd
<1> DEFINE T == {m \in Nat : \A a \in 1..Len(kept) : a + m + 1 \in 1..Len(kept) =>
                   BackEnd(kept[a]) <= kept[a + m + 1].readBackOffset}
<1>2. \A a \in 1..Len(kept) : a + 1 \in 1..Len(kept) =>
        BackEnd(kept[a]) <= kept[a + 1].readBackOffset
  <2> SUFFICES ASSUME NEW a \in 1..Len(kept), a + 1 \in 1..Len(kept)
               PROVE  BackEnd(kept[a]) <= kept[a + 1].readBackOffset
    OBVIOUS
  <2>1. a + 1 # 1 /\ a + 1 - 1 = a
    BY <1>0
  <2>2. Follows(kept, a + 1)
    BY DEF Recorded
  <2>3. kept[a + 1].readBackOffset =
          kept[a].readBackOffset + kept[a].readBackLength
          + (kept[a + 1].offset - (kept[a].offset + kept[a].length))
    BY <2>1, <2>2 DEF Follows
  <2>4. FileEnd(kept[a]) <= kept[a + 1].offset
    BY <1>1, <1>0
  <2>5. /\ kept[a].offset \in Nat /\ kept[a].length \in Nat /\ kept[a + 1].offset \in Nat
        /\ kept[a].readBackOffset \in Nat /\ kept[a].readBackLength \in Nat
    BY RecordedAre
  <2> QED BY <2>3, <2>4, <2>5, SMTT(60) DEF FileEnd, BackEnd
<1>3. 0 \in T
  BY <1>0, <1>2
<1>4. ASSUME NEW m \in Nat, m \in T PROVE m + 1 \in T
  <2> SUFFICES ASSUME NEW a \in 1..Len(kept), a + (m + 1) + 1 \in 1..Len(kept)
               PROVE  BackEnd(kept[a]) <= kept[a + (m + 1) + 1].readBackOffset
    OBVIOUS
  <2>1. PICK b : b = a + m + 1
    OBVIOUS
  <2>2. b \in 1..Len(kept) /\ b + 1 \in 1..Len(kept) /\ a + (m + 1) + 1 = b + 1
    BY <1>0, <2>1
  <2>3. BackEnd(kept[a]) <= kept[b].readBackOffset
    BY <1>4, <2>1, <2>2
  <2>4. BackEnd(kept[b]) <= kept[b + 1].readBackOffset
    BY <1>2, <2>2
  <2>5. /\ BackEnd(kept[a]) \in Nat /\ kept[b].readBackOffset \in Nat
        /\ kept[b].readBackLength \in Nat /\ kept[b + 1].readBackOffset \in Nat
    BY <2>2, RecordedAre
  <2>6. BackEnd(kept[b]) = kept[b].readBackOffset + kept[b].readBackLength
    BY DEF BackEnd
  <2>7. BackEnd(kept[a]) <= kept[b + 1].readBackOffset
    BY <2>3, <2>4, <2>5, <2>6
  <2> QED BY <2>2, <2>7
<1>5. \A m \in Nat : m \in T
  <2> HIDE DEF T
  <2> QED BY <1>3, <1>4, SetInduction
<1>6. l - k - 1 \in Nat /\ k + (l - k - 1) + 1 = l
  BY <1>0
<1>7. BackEnd(kept[k]) <= kept[l].readBackOffset
  <2>1. l - k - 1 \in T
    BY <1>5, <1>6
  <2> QED BY <2>1, <1>6
<1> QED BY <1>1, <1>7

(* The first boxes of a sequence, counted: those that are in `firsts`.     *)
LEMMA CountIs ==
  ASSUME NEW N \in Nat, NEW firsts, firsts \subseteq 1..N,
         \A n \in firsts, m \in 1..N : m < n => m \in firsts
  PROVE  /\ Cardinality(firsts) \in 0..N
         /\ \A k \in 1..N : k \in firsts <=> k <= Cardinality(firsts)
<1>1. firsts = 1..Cardinality(firsts)
  BY UpFromOne
<1>2. Cardinality(firsts) \in Nat /\ Cardinality(firsts) <= N
  BY PlacesFinite
<1>3. \A k \in 1..N : k \in 1..Cardinality(firsts) <=> k <= Cardinality(firsts)
  BY <1>2
<1> QED BY <1>1, <1>2, <1>3

(* Where an offset of the file is in the uncompressed domain: as far from  *)
(* the compressed box before it as in the file.                            *)
LEMMA UncompressedIs ==
  ASSUME NEW boxes \in Files, NEW kept, Recorded(kept, boxes),
         NEW p \in Nat, p <= Before(boxes, Len(boxes) + 1)
  PROVE  \E n \in 0..Len(kept) :
           /\ \A k \in 1..Len(kept) : FileEnd(kept[k]) <= p <=> k <= n
           /\ Uncompressed(kept, p) =
                IF n = 0 THEN p ELSE BackEnd(kept[n]) + (p - FileEnd(kept[n]))
           /\ Uncompressed(kept, p) \in Nat
<1>0. Len(kept) \in Nat /\ DOMAIN kept = 1..Len(kept)
  BY SequenceShape DEF Recorded, InOrder
<1> DEFINE firsts == {k \in DOMAIN kept : EndOf(kept[k]) <= p}
<1>1. \A k \in 1..Len(kept) : k \in firsts <=> FileEnd(kept[k]) <= p
  BY <1>0, RecordedAre
<1>2. ASSUME NEW k \in firsts, NEW m \in 1..Len(kept), m < k PROVE m \in firsts
  <2>1. k \in 1..Len(kept) /\ FileEnd(kept[k]) <= p
    BY <1>0, <1>1
  <2>2. FileEnd(kept[m]) <= kept[k].offset
    BY <1>2, <2>1, RecordedBehind
  <2>3. /\ FileEnd(kept[m]) \in Nat /\ FileEnd(kept[k]) \in Nat
        /\ kept[k].offset \in Nat /\ kept[k].length \in Nat
    BY <2>1, RecordedAre
  <2>4. FileEnd(kept[m]) <= p
    BY <2>1, <2>2, <2>3 DEF FileEnd
  <2> QED BY <1>1, <2>4
<1>3. firsts \subseteq 1..Len(kept)
  BY <1>0
<1>4. PICK n : n = Cardinality(firsts)
  OBVIOUS
<1>5. n \in 0..Len(kept) /\ \A k \in 1..Len(kept) : k \in firsts <=> k <= n
  <2> HIDE DEF firsts
  <2> QED BY <1>0, <1>2, <1>3, <1>4, CountIs
<1>6. Uncompressed(kept, p) = IF n = 0 THEN p
                              ELSE Shifted(p, EndOf(kept[n]), ReadBackEnd(kept[n]))
  BY <1>4 DEF Uncompressed, Count
<1> HIDE DEF firsts
<1>7. \A k \in 1..Len(kept) : FileEnd(kept[k]) <= p <=> k <= n
  BY <1>1, <1>5
<1>8. ASSUME n # 0
      PROVE  /\ Shifted(p, EndOf(kept[n]), ReadBackEnd(kept[n]))
                  = BackEnd(kept[n]) + (p - FileEnd(kept[n]))
             /\ BackEnd(kept[n]) + (p - FileEnd(kept[n])) \in Nat
  <2>1. n \in 1..Len(kept) /\ FileEnd(kept[n]) <= p
    BY <1>0, <1>5, <1>7, <1>8
  <2>2. /\ EndOf(kept[n]) = FileEnd(kept[n]) /\ FileEnd(kept[n]) \in Nat
        /\ ReadBackEnd(kept[n]) = BackEnd(kept[n]) /\ BackEnd(kept[n]) \in Nat
        /\ kept[n].readBackLength \in Nat
    BY <2>1, RecordedAre
  <2>3. PICK i \in 1..Len(boxes) : /\ LiesAt(kept[n], boxes, i)
                                   /\ kept[n].readBackOffset \in Nat
                                   /\ kept[n].readBackOffset <= Farthest(boxes, i)
    BY <2>1 DEF Recorded, Within
  <2>4. /\ FileEnd(kept[n]) = Before(boxes, i + 1)
        /\ Farthest(boxes, i) \in Nat /\ Farthest(boxes, i + 1) \in Nat
        /\ Farthest(boxes, i) + kept[n].readBackLength <= Farthest(boxes, i + 1)
    BY <2>3, LiesWithin DEF FileEnd
  <2>5. BackEnd(kept[n]) <= Farthest(boxes, i + 1)
    BY <2>2, <2>3, <2>4 DEF BackEnd
  <2>6. boxes \in Seq(Contents!FileBox) /\ Len(boxes) \in Nat
    BY FileIs
  <2>7. i + 1 \in 1..Len(boxes) + 1 /\ Len(boxes) + 1 \in 1..Len(boxes) + 1 /\ i + 1 <= Len(boxes) + 1
    BY <2>6
  <2>8. Before(boxes, Len(boxes) + 1) - Before(boxes, i + 1)
          <= Farthest(boxes, Len(boxes) + 1) - Farthest(boxes, i + 1)
    BY <2>6, <2>7, BeforeGrows
  <2>9. /\ Before(boxes, Len(boxes) + 1) \in Nat /\ Before(boxes, i + 1) \in Nat
        /\ Farthest(boxes, Len(boxes) + 1) \in Nat
        /\ Farthest(boxes, Len(boxes) + 1) <= MaxPosition
    BY <2>7, FileIs
  <2>10. BackEnd(kept[n]) + (p - FileEnd(kept[n])) <= MaxPosition
    BY <2>1, <2>2, <2>4, <2>5, <2>8, <2>9, Positions
  <2> QED BY <2>1, <2>2, <2>10, ShiftedWithin
<1> QED BY <1>5, <1>6, <1>7, <1>8

(* A range of a byte that lies behind n compressed boxes.                  *)
LEMMA InFileIs ==
  ASSUME NEW boxes \in Files, NEW kept, Recorded(kept, boxes), NEW q \in Nat,
         NEW n \in 0..Len(kept),
         n # 0 => BackEnd(kept[n]) <= q,
         n < Len(kept) => q < kept[n + 1].readBackOffset,
         n # 0 => FileEnd(kept[n]) + (q - BackEnd(kept[n])) <= MaxPosition
  PROVE  InFile(kept, [start |-> q, end |-> q + 1]).start
           = IF n = 0 THEN q ELSE FileEnd(kept[n]) + (q - BackEnd(kept[n]))
<1>0. Len(kept) \in Nat /\ DOMAIN kept = 1..Len(kept)
  BY SequenceShape DEF Recorded, InOrder
<1> DEFINE range == [start |-> q, end |-> q + 1]
           firsts == {k \in DOMAIN kept : ReadBackEnd(kept[k]) <= q}
<1>1. \A k \in 1..Len(kept) : k \in firsts <=> BackEnd(kept[k]) <= q
  BY <1>0, RecordedAre
<1>2. ASSUME NEW k \in 1..Len(kept) PROVE k \in firsts <=> k <= n
  <2> HIDE DEF firsts
  <2>1. CASE k < n
    <3>1. n \in 1..Len(kept) /\ n # 0
      BY <1>0, <2>1
    <3>2. BackEnd(kept[k]) <= kept[n].readBackOffset
      BY <2>1, <3>1, RecordedBehind
    <3>3. /\ BackEnd(kept[k]) \in Nat /\ kept[n].readBackOffset \in Nat
          /\ kept[n].readBackLength \in Nat /\ BackEnd(kept[n]) \in Nat
      BY <3>1, RecordedAre
    <3>4. BackEnd(kept[n]) <= q
      BY <3>1
    <3>5. BackEnd(kept[k]) <= q
      BY <3>2, <3>3, <3>4 DEF BackEnd
    <3> QED BY <1>1, <2>1, <3>5
  <2>2. CASE k = n
    BY <1>0, <1>1, <2>2
  <2>3. CASE k > n
    <3>1. n + 1 \in 1..Len(kept) /\ n < Len(kept) /\ (k = n + 1 \/ n + 1 < k)
      BY <1>0, <2>3
    <3>2. q < kept[n + 1].readBackOffset
      BY <3>1
    <3>3. n + 1 < k => BackEnd(kept[n + 1]) <= kept[k].readBackOffset
      BY <3>1, RecordedBehind
    <3>4. /\ kept[n + 1].readBackOffset \in Nat /\ kept[n + 1].readBackLength \in Nat
          /\ kept[k].readBackOffset \in Nat /\ kept[k].readBackLength \in Nat
          /\ kept[k].readBackLength > 0
      BY <3>1, RecordedAre
    <3>5. kept[n + 1].readBackOffset <= kept[k].readBackOffset
      BY <3>1, <3>3, <3>4 DEF BackEnd
    <3>6. ~(BackEnd(kept[k]) <= q)
      BY <3>2, <3>4, <3>5 DEF BackEnd
    <3> QED BY <1>0, <1>1, <2>3, <3>6
  <2> QED BY <1>0, <2>1, <2>2, <2>3
<1>3. PICK before : before = Cardinality(firsts)
  OBVIOUS
<1>4. before = n
  <2>1. firsts \subseteq 1..Len(kept)
    BY <1>0
  <2> HIDE DEF firsts
  <2>2. firsts = 1..n
    <3>1. \A k : k \in 1..n <=> k \in 1..Len(kept) /\ k <= n
      BY <1>0
    <3>2. \A k : k \in firsts <=> k \in 1..n
      BY <1>2, <2>1, <3>1, Zenon
    <3> QED BY <3>2, Zenon
  <2>3. Cardinality(1..n) = n
    <3>1. n \in Nat
      BY <1>0
    <3>2. Cardinality(1..n) = IF 1 > n THEN 0 ELSE n - 1 + 1
      BY <3>1, FS_Interval
    <3> QED BY <3>1, <3>2
  <2> QED BY <1>3, <2>2, <2>3
<1>5. range.start = q /\ range.end = q + 1 /\ ~(range.end <= range.start)
  OBVIOUS
<1>6. n < Len(kept) => ~(kept[n + 1].readBackOffset < q + 1)
  <2> SUFFICES ASSUME n < Len(kept) PROVE ~(kept[n + 1].readBackOffset < q + 1)
    OBVIOUS
  <2>1. n + 1 \in 1..Len(kept)
    BY <1>0
  <2>2. kept[n + 1].readBackOffset \in Nat
    BY <2>1, RecordedAre
  <2> QED BY <2>2
<1>7. InFile(kept, range) =
        IF n = 0 THEN range
        ELSE [start |-> Shifted(q, ReadBackEnd(kept[n]), EndOf(kept[n])),
              end |-> Shifted(q + 1, ReadBackEnd(kept[n]), EndOf(kept[n]))]
  <2>1. n = Cardinality({k \in DOMAIN kept : ReadBackEnd(kept[k]) <= range.start})
    BY <1>3, <1>4
  <2> HIDE DEF firsts, range
  <2> QED BY <1>5, <1>6, <2>1 DEF InFile, Count
<1>8. ASSUME n # 0
      PROVE  Shifted(q, ReadBackEnd(kept[n]), EndOf(kept[n]))
               = FileEnd(kept[n]) + (q - BackEnd(kept[n]))
  <2>1. n \in 1..Len(kept)
    BY <1>0, <1>8
  <2>2. /\ EndOf(kept[n]) = FileEnd(kept[n]) /\ FileEnd(kept[n]) \in Nat
        /\ ReadBackEnd(kept[n]) = BackEnd(kept[n]) /\ BackEnd(kept[n]) \in Nat
    BY <2>1, RecordedAre
  <2> QED BY <1>8, <2>2, ShiftedWithin
<1> QED BY <1>5, <1>7, <1>8
-------------------------------------------------------------------------------
(* Between recorded boxes, each offset comes back and they keep their order.*)
LEMMA RecordedInverts ==
  ASSUME NEW boxes \in Files, NEW kept, Recorded(kept, boxes),
         NEW p \in Nat, p <= Before(boxes, Len(boxes) + 1),
         \A k \in DOMAIN kept : p \notin kept[k].offset..EndOf(kept[k]) - 1
  PROVE  /\ Uncompressed(kept, p) \in Nat
         /\ InFile(kept, [start |-> Uncompressed(kept, p),
                          end |-> Uncompressed(kept, p) + 1]).start = p
         /\ \A n \in 1..Len(kept) : FileEnd(kept[n]) <= p => BackEnd(kept[n]) <= Uncompressed(kept, p)
         /\ \A n \in 1..Len(kept) :
              ~(FileEnd(kept[n]) <= p) => Uncompressed(kept, p) < kept[n].readBackOffset
<1>0. Len(kept) \in Nat /\ DOMAIN kept = 1..Len(kept)
  BY SequenceShape DEF Recorded, InOrder
<1>1. PICK n \in 0..Len(kept) :
        /\ \A k \in 1..Len(kept) : FileEnd(kept[k]) <= p <=> k <= n
        /\ Uncompressed(kept, p) = IF n = 0 THEN p ELSE BackEnd(kept[n]) + (p - FileEnd(kept[n]))
        /\ Uncompressed(kept, p) \in Nat
  BY UncompressedIs
<1>2. PICK q : q = Uncompressed(kept, p)
  OBVIOUS
<1>3. q \in Nat /\ q = IF n = 0 THEN p ELSE BackEnd(kept[n]) + (p - FileEnd(kept[n]))
  BY <1>1, <1>2
<1>4. ASSUME n # 0
      PROVE  /\ n \in 1..Len(kept)
             /\ FileEnd(kept[n]) \in Nat /\ BackEnd(kept[n]) \in Nat
             /\ FileEnd(kept[n]) <= p /\ BackEnd(kept[n]) <= q
             /\ q = BackEnd(kept[n]) + (p - FileEnd(kept[n]))
  <2>1. n \in 1..Len(kept) /\ n <= n
    BY <1>0, <1>4
  <2>2. FileEnd(kept[n]) <= p
    BY <1>1, <2>1
  <2>3. FileEnd(kept[n]) \in Nat /\ BackEnd(kept[n]) \in Nat
    BY <2>1, RecordedAre
  <2>4. q = BackEnd(kept[n]) + (p - FileEnd(kept[n]))
    BY <1>3, <1>4
  <2> QED BY <2>1, <2>2, <2>3, <2>4
<1>5. ASSUME n < Len(kept) PROVE n + 1 \in 1..Len(kept) /\ q < kept[n + 1].readBackOffset
  <2>1. n + 1 \in 1..Len(kept) /\ ~(n + 1 <= n) /\ n + 1 - 1 = n
    BY <1>0, <1>5
  <2>2. ~(FileEnd(kept[n + 1]) <= p)
    BY <1>1, <2>1
  <2>3. /\ kept[n + 1].offset \in Nat /\ EndOf(kept[n + 1]) = FileEnd(kept[n + 1])
        /\ FileEnd(kept[n + 1]) \in Nat
    BY <2>1, RecordedAre
  <2>4. p < kept[n + 1].offset
    <3>1. p \notin kept[n + 1].offset..EndOf(kept[n + 1]) - 1
      BY <1>0, <2>1
    <3> QED BY <2>2, <2>3, <3>1
  <2>5. Follows(kept, n + 1)
    BY <2>1 DEF Recorded
  <2>6. CASE n = 0
    <3>1. kept[n + 1].readBackOffset = kept[n + 1].offset
      BY <2>5, <2>6 DEF Follows
    <3> QED BY <1>3, <2>1, <2>4, <2>6, <3>1
  <2>7. CASE n # 0
    <3>1. n + 1 # 1
      BY <1>0, <2>7
    <3>2. kept[n + 1].readBackOffset =
            kept[n].readBackOffset + kept[n].readBackLength
            + (kept[n + 1].offset - (kept[n].offset + kept[n].length))
      BY <2>1, <2>5, <3>1 DEF Follows
    <3>3. kept[n + 1].readBackOffset = BackEnd(kept[n]) + (kept[n + 1].offset - FileEnd(kept[n]))
      BY <3>2 DEF FileEnd, BackEnd
    <3> QED BY <1>4, <2>1, <2>3, <2>4, <2>7, <3>3
  <2> QED BY <2>1, <2>6, <2>7
<1>6. p <= MaxPosition
  <2>1. boxes \in Seq(Contents!FileBox) /\ Len(boxes) \in Nat
    BY FileIs
  <2>2. Len(boxes) + 1 \in 1..Len(boxes) + 1
    BY <2>1
  <2>3. /\ Before(boxes, Len(boxes) + 1) \in Nat /\ Farthest(boxes, Len(boxes) + 1) \in Nat
        /\ Before(boxes, Len(boxes) + 1) <= Farthest(boxes, Len(boxes) + 1)
        /\ Farthest(boxes, Len(boxes) + 1) <= MaxPosition
    BY <2>2, FileIs
  <2> QED BY <2>3, Positions
<1>7. n # 0 => FileEnd(kept[n]) + (q - BackEnd(kept[n])) = p
  BY <1>4
<1>8. InFile(kept, [start |-> q, end |-> q + 1]).start
        = IF n = 0 THEN q ELSE FileEnd(kept[n]) + (q - BackEnd(kept[n]))
  BY <1>3, <1>4, <1>5, <1>6, <1>7, InFileIs
<1>9. InFile(kept, [start |-> q, end |-> q + 1]).start = p
  BY <1>3, <1>7, <1>8
<1>10. ASSUME NEW m \in 1..Len(kept), FileEnd(kept[m]) <= p PROVE BackEnd(kept[m]) <= q
  <2>1. m <= n /\ n # 0
    BY <1>0, <1>1, <1>10
  <2>2. n \in 1..Len(kept) /\ BackEnd(kept[n]) <= q
    BY <1>4, <2>1
  <2>3. CASE m = n
    BY <2>2, <2>3
  <2>4. CASE m # n
    <3>1. BackEnd(kept[m]) <= kept[n].readBackOffset
      BY <1>0, <2>1, <2>2, <2>4, RecordedBehind
    <3>2. /\ BackEnd(kept[m]) \in Nat /\ kept[n].readBackOffset \in Nat
          /\ kept[n].readBackLength \in Nat
      BY <2>2, RecordedAre
    <3>3. BackEnd(kept[n]) = kept[n].readBackOffset + kept[n].readBackLength
      BY DEF BackEnd
    <3> QED BY <1>3, <2>2, <3>1, <3>2, <3>3
  <2> QED BY <2>3, <2>4
<1>11. ASSUME NEW m \in 1..Len(kept), ~(FileEnd(kept[m]) <= p) PROVE q < kept[m].readBackOffset
  <2>1. n < m /\ n < Len(kept)
    <3>1. ~(m <= n)
      BY <1>1, <1>11
    <3> QED BY <3>1, <1>0
  <2>2. n + 1 \in 1..Len(kept) /\ q < kept[n + 1].readBackOffset
    BY <1>5, <2>1
  <2>3. CASE m = n + 1
    BY <2>2, <2>3
  <2>4. CASE m # n + 1
    <3>1. BackEnd(kept[n + 1]) <= kept[m].readBackOffset
      BY <1>0, <2>1, <2>2, <2>4, RecordedBehind
    <3>2. /\ kept[n + 1].readBackOffset \in Nat /\ kept[n + 1].readBackLength \in Nat
          /\ kept[m].readBackOffset \in Nat
      BY <2>2, RecordedAre
    <3>3. BackEnd(kept[n + 1]) = kept[n + 1].readBackOffset + kept[n + 1].readBackLength
      BY DEF BackEnd
    <3> QED BY <1>3, <2>2, <3>1, <3>2, <3>3
  <2> QED BY <2>3, <2>4
<1> QED BY <1>2, <1>3, <1>9, <1>10, <1>11

LEMMA RecordedAscends ==
  ASSUME NEW boxes \in Files, NEW kept, Recorded(kept, boxes),
         NEW p \in Nat, NEW q \in Nat, p < q, q <= Before(boxes, Len(boxes) + 1),
         \A k \in DOMAIN kept : p \notin kept[k].offset..EndOf(kept[k]) - 1,
         \A k \in DOMAIN kept : q \notin kept[k].offset..EndOf(kept[k]) - 1
  PROVE  Uncompressed(kept, p) < Uncompressed(kept, q)
<1>0. Len(kept) \in Nat
  BY SequenceShape DEF Recorded, InOrder
<1>1. p <= Before(boxes, Len(boxes) + 1)
  <2>1. Len(boxes) \in Nat
    BY FileIs
  <2>2. Before(boxes, Len(boxes) + 1) \in Nat
    BY <2>1, FileIs
  <2> QED BY <2>2
<1>2. PICK n \in 0..Len(kept) :
        /\ \A k \in 1..Len(kept) : FileEnd(kept[k]) <= p <=> k <= n
        /\ Uncompressed(kept, p) = IF n = 0 THEN p ELSE BackEnd(kept[n]) + (p - FileEnd(kept[n]))
        /\ Uncompressed(kept, p) \in Nat
  BY <1>1, UncompressedIs
<1>3. PICK m \in 0..Len(kept) :
        /\ \A k \in 1..Len(kept) : FileEnd(kept[k]) <= q <=> k <= m
        /\ Uncompressed(kept, q) = IF m = 0 THEN q ELSE BackEnd(kept[m]) + (q - FileEnd(kept[m]))
        /\ Uncompressed(kept, q) \in Nat
  BY UncompressedIs
<1>4. \A k \in 1..Len(kept) : k <= n => k <= m
  <2> SUFFICES ASSUME NEW k \in 1..Len(kept), k <= n PROVE k <= m
    OBVIOUS
  <2>1. FileEnd(kept[k]) <= p /\ FileEnd(kept[k]) \in Nat
    BY <1>2, RecordedAre
  <2>2. FileEnd(kept[k]) <= q
    BY <2>1
  <2> QED BY <1>3, <2>2
<1>5. n <= m
  <2>1. CASE n = 0
    BY <1>0, <2>1
  <2>2. CASE n # 0
    <3>1. n \in 1..Len(kept) /\ n <= n
      BY <1>0, <2>2
    <3> QED BY <1>4, <3>1
  <2> QED BY <2>1, <2>2
<1>6. CASE n = m
  <2>1. CASE n = 0
    BY <1>2, <1>3, <1>6, <2>1
  <2>2. CASE n # 0
    <3>1. n \in 1..Len(kept)
      BY <1>0, <2>2
    <3>2. BackEnd(kept[n]) \in Nat /\ FileEnd(kept[n]) \in Nat
      BY <3>1, RecordedAre
    <3> QED BY <1>2, <1>3, <1>6, <2>2, <3>2
  <2> QED BY <2>1, <2>2
<1>7. CASE n # m
  <2>1. m \in 1..Len(kept) /\ ~(m <= n) /\ m <= m
    BY <1>0, <1>5, <1>7
  <2>2. ~(FileEnd(kept[m]) <= p) /\ FileEnd(kept[m]) <= q
    BY <1>2, <1>3, <2>1
  <2>3. Uncompressed(kept, p) < kept[m].readBackOffset
    BY <1>1, <2>1, <2>2, RecordedInverts
  <2>4. BackEnd(kept[m]) <= Uncompressed(kept, q)
    BY <2>1, <2>2, RecordedInverts
  <2>5. /\ kept[m].readBackOffset \in Nat /\ kept[m].readBackLength \in Nat
        /\ BackEnd(kept[m]) \in Nat
    BY <2>1, RecordedAre
  <2>6. BackEnd(kept[m]) = kept[m].readBackOffset + kept[m].readBackLength
    BY DEF BackEnd
  <2> QED BY <1>2, <1>3, <2>3, <2>4, <2>5, <2>6
<1> QED BY <1>6, <1>7
-------------------------------------------------------------------------------
(* RECORDING A COMPRESSED BOX                                              *)

(* What Placed counts for box i, from what `place` counts for the others.  *)
PlaceFrom(kept, first, place, i) ==
  IF i < first THEN kept[i].readBackOffset
  ELSE IF i = 1 THEN kept[i].offset
  ELSE Shifted(kept[i].offset, EndOf(kept[i - 1]),
               Sum(place[i - 1], kept[i - 1].readBackLength))

LEMMA PlacesExist ==
  ASSUME NEW kept, NEW N \in Nat, NEW first \in Nat
  PROVE  \E place : place = [i \in 1..N |-> PlaceFrom(kept, first, place, i)]
<1> DEFINE T == {m \in Nat : \E f : f = [i \in 1..N |-> f[i]]
                                    /\ \A i \in 1..N : i <= m => f[i] = PlaceFrom(kept, first, f, i)}
<1>1. 0 \in T
  <2> DEFINE g == [i \in 1..N |-> 0]
  <2>1. g = [i \in 1..N |-> g[i]]
    OBVIOUS
  <2>2. \A i \in 1..N : ~(i <= 0)
    OBVIOUS
  <2> HIDE DEF g
  <2> QED BY <2>1, <2>2
<1>2. ASSUME NEW m \in Nat, m \in T PROVE m + 1 \in T
  <2>1. PICK f : f = [i \in 1..N |-> f[i]]
                 /\ \A i \in 1..N : i <= m => f[i] = PlaceFrom(kept, first, f, i)
    BY <1>2
  <2> DEFINE g == [i \in 1..N |-> IF i = m + 1 THEN PlaceFrom(kept, first, f, i) ELSE f[i]]
  <2>2. g = [i \in 1..N |-> g[i]]
    OBVIOUS
  <2>3. ASSUME NEW i \in 1..N, i <= m + 1 PROVE g[i] = PlaceFrom(kept, first, g, i)
    <3>1. g[i] = PlaceFrom(kept, first, f, i)
      <4>1. i # m + 1 => i <= m
        BY <2>3
      <4> QED BY <2>1, <4>1
    <3>2. i # 1 => g[i - 1] = f[i - 1]
      <4>1. i # 1 => i - 1 \in 1..N /\ i - 1 # m + 1
        BY <2>3
      <4> QED BY <4>1
    <3> HIDE DEF g
    <3> QED BY <3>1, <3>2 DEF PlaceFrom
  <2> HIDE DEF g
  <2> QED BY <2>2, <2>3
<1>3. N \in T
  <2>1. \A n \in Nat : n \in T
    <3> HIDE DEF T
    <3> QED BY <1>1, <1>2, SetInduction
  <2> HIDE DEF T
  <2> QED BY <2>1
<1>4. PICK f : f = [i \in 1..N |-> f[i]]
               /\ \A i \in 1..N : i <= N => f[i] = PlaceFrom(kept, first, f, i)
  BY <1>3
<1>5. \A i \in 1..N : f[i] = PlaceFrom(kept, first, f, i)
  BY <1>4
<1>6. f = [i \in 1..N |-> PlaceFrom(kept, first, f, i)]
  BY <1>4, <1>5
<1> QED BY <1>6

LEMMA PlacedIs ==
  ASSUME NEW kept, Sequence(kept), NEW first \in Nat
  PROVE  \E place : /\ \A i \in 1..Len(kept) : place[i] = PlaceFrom(kept, first, place, i)
                    /\ Placed(kept, first)
                         = [i \in 1..Len(kept) |-> [kept[i] EXCEPT !.readBackOffset = place[i]]]
<1> DEFINE Step(f) == [i \in DOMAIN kept |->
                        IF i < first THEN kept[i].readBackOffset
                        ELSE IF i = 1 THEN kept[i].offset
                        ELSE Shifted(kept[i].offset, EndOf(kept[i - 1]),
                                     Sum(f[i - 1], kept[i - 1].readBackLength))]
           place == CHOOSE f : f = Step(f)
<1>1. Len(kept) \in Nat /\ DOMAIN kept = 1..Len(kept)
  BY SequenceShape
<1>2. \A f : Step(f) = [i \in 1..Len(kept) |-> PlaceFrom(kept, first, f, i)]
  BY <1>1 DEF PlaceFrom
<1>3. \E f : f = [i \in 1..Len(kept) |-> PlaceFrom(kept, first, f, i)]
  BY <1>1, PlacesExist
<1>4. place = Step(place)
  <2>1. \E f : f = Step(f)
    <3> HIDE DEF Step
    <3> QED BY <1>2, <1>3
  <2> HIDE DEF Step
  <2> QED BY <2>1
<1>5. Placed(kept, first) = [i \in DOMAIN kept |-> [kept[i] EXCEPT !.readBackOffset = place[i]]]
  BY DEF Placed
<1> HIDE DEF place, Step
<1>6. \A i \in 1..Len(kept) : place[i] = PlaceFrom(kept, first, place, i)
  BY <1>2, <1>4
<1> QED BY <1>1, <1>5, <1>6

(* Placed from `first` on, boxes as they lie are recorded.                 *)
LEMMA PlacedKeeps ==
  ASSUME NEW boxes \in Files, NEW kept, InOrder(kept, boxes), NEW first \in Nat,
         \A k \in 1..Len(kept) : k < first => Follows(kept, k) /\ Within(kept[k], boxes)
  PROVE  /\ Recorded(Placed(kept, first), boxes)
         /\ Len(Placed(kept, first)) = Len(kept)
         /\ \A k \in 1..Len(kept) : Placed(kept, first)[k].offset = kept[k].offset
<1>0. Sequence(kept) /\ Len(kept) \in Nat
  BY SequenceShape DEF InOrder
<1>1. PICK place : /\ \A i \in 1..Len(kept) : place[i] = PlaceFrom(kept, first, place, i)
                   /\ Placed(kept, first)
                        = [i \in 1..Len(kept) |-> [kept[i] EXCEPT !.readBackOffset = place[i]]]
  BY <1>0, PlacedIs, ZenonT(60)
<1>2. PICK new : new = Placed(kept, first)
  OBVIOUS
<1>3. new = [i \in 1..Len(kept) |-> [kept[i] EXCEPT !.readBackOffset = place[i]]]
  BY <1>1, <1>2
<1>4. Sequence(new) /\ Len(new) = Len(kept)
  <2>1. new = [i \in 1..Len(kept) |-> new[i]]
    BY <1>3
  <2> QED BY <1>0, <2>1, SequenceOfAny
<1>5. ASSUME NEW k \in 1..Len(kept), NEW i \in 1..Len(boxes), LiesAt(kept[k], boxes, i)
      PROVE  /\ LiesAt(new[k], boxes, i)
             /\ new[k].offset = kept[k].offset /\ new[k].length = kept[k].length
             /\ new[k].readBackLength = kept[k].readBackLength
             /\ new[k].readBackOffset = place[k]
  <2>1. PICK b : b = kept[k]
    OBVIOUS
  <2>2. PICK p : p = place[k]
    OBVIOUS
  <2>3. new[k] = [b EXCEPT !.readBackOffset = p]
    BY <1>3, <2>1, <2>2
  <2>4. PICK o, l, r, t : b = [offset |-> o, length |-> l, readBackOffset |-> t, readBackLength |-> r]
                        /\ o = Before(boxes, i) /\ l = Contents!Length(boxes[i])
                        /\ r = Contents!ReadBackLength(boxes[i])
    BY <1>5, <2>1 DEF LiesAt
  <2>5. new[k] = [offset |-> o, length |-> l, readBackOffset |-> p, readBackLength |-> r]
    BY <2>3, <2>4
  <2> QED BY <1>5, <2>1, <2>2, <2>4, <2>5 DEF LiesAt
<1>6. \A k \in 1..Len(kept) : /\ new[k].offset = kept[k].offset /\ new[k].length = kept[k].length
                              /\ new[k].readBackLength = kept[k].readBackLength
                              /\ new[k].readBackOffset = place[k]
                              /\ \E i \in 1..Len(boxes) : LiesAt(new[k], boxes, i)
  <2> SUFFICES ASSUME NEW k \in 1..Len(kept)
               PROVE  /\ new[k].offset = kept[k].offset /\ new[k].length = kept[k].length
                      /\ new[k].readBackLength = kept[k].readBackLength
                      /\ new[k].readBackOffset = place[k]
                      /\ \E i \in 1..Len(boxes) : LiesAt(new[k], boxes, i)
    OBVIOUS
  <2>1. PICK i \in 1..Len(boxes) : LiesAt(kept[k], boxes, i)
    BY DEF InOrder
  <2> QED BY <1>5, <2>1
<1>7. InOrder(new, boxes)
  <2>1. \A k, l \in 1..Len(new) : k < l => new[k].offset < new[l].offset
    BY <1>4, <1>6 DEF InOrder
  <2> QED BY <1>4, <1>6, <2>1 DEF InOrder
<1> DEFINE T == {m \in Nat : \A k \in 1..Len(kept) : k <= m => Follows(new, k) /\ Within(new[k], boxes)}
<1>8. 0 \in T
  <2>1. \A k \in 1..Len(kept) : ~(k <= 0)
    OBVIOUS
  <2> QED BY <2>1
<1>9. ASSUME NEW m \in Nat, m \in T PROVE m + 1 \in T
  <2> SUFFICES ASSUME m + 1 \in 1..Len(kept)
               PROVE  Follows(new, m + 1) /\ Within(new[m + 1], boxes)
    <3> SUFFICES ASSUME NEW k \in 1..Len(kept), k <= m + 1
                 PROVE  Follows(new, k) /\ Within(new[k], boxes)
      OBVIOUS
    <3>1. k <= m \/ k = m + 1
      BY <1>0
    <3>2. k <= m => Follows(new, k) /\ Within(new[k], boxes)
      BY <1>9
    <3> HIDE DEF T
    <3> QED BY <3>1, <3>2
  <2>1. PICK k : k = m + 1
    OBVIOUS
  <2>2. k \in 1..Len(kept) /\ k \in Nat /\ (k # 1 => k - 1 \in 1..Len(kept) /\ k - 1 = m /\ k - 1 <= m)
    BY <1>0, <2>1
  <2>3. place[k] = PlaceFrom(kept, first, place, k)
    BY <1>1, <2>2
  <2>4. PICK j \in 1..Len(boxes) : LiesAt(kept[k], boxes, j)
    BY <2>2 DEF InOrder
  <2>5. /\ LiesAt(new[k], boxes, j)
        /\ kept[k].offset = Before(boxes, j)
        /\ kept[k].offset \in Nat /\ kept[k].length \in Nat
        /\ Farthest(boxes, j) \in Nat
    BY <1>5, <2>2, <2>4, LiesWithin
  <2>6. j \in 1..Len(boxes) + 1
    <3>1. Len(boxes) \in Nat
      BY FileIs
    <3> QED BY <3>1
  <2>7. CASE k < first
    <3>1. Follows(kept, k) /\ Within(kept[k], boxes)
      BY <2>2, <2>7
    <3>2. new[k].readBackOffset = kept[k].readBackOffset
      BY <1>6, <2>2, <2>3, <2>7 DEF PlaceFrom
    <3>3. k # 1 => new[k - 1].readBackOffset = kept[k - 1].readBackOffset
      <4> SUFFICES ASSUME k # 1 PROVE new[k - 1].readBackOffset = kept[k - 1].readBackOffset
        OBVIOUS
      <4>1. k - 1 \in 1..Len(kept) /\ k - 1 < first
        BY <2>2, <2>7
      <4>2. place[k - 1] = kept[k - 1].readBackOffset
        BY <1>1, <4>1 DEF PlaceFrom
      <4> QED BY <1>6, <4>1, <4>2
    <3>4. Follows(new, k)
      BY <1>6, <2>2, <3>1, <3>2, <3>3 DEF Follows
    <3>5. Within(new[k], boxes)
      <4>1. PICK i \in 1..Len(boxes) : /\ LiesAt(kept[k], boxes, i)
                                       /\ kept[k].readBackOffset \in Nat
                                       /\ kept[k].readBackOffset <= Farthest(boxes, i)
        BY <3>1 DEF Within
      <4>2. LiesAt(new[k], boxes, i)
        BY <1>5, <2>2, <4>1
      <4> QED BY <3>2, <4>1, <4>2 DEF Within
    <3> QED BY <2>1, <3>4, <3>5
  <2>8. CASE ~(k < first) /\ k = 1
    <3>1. new[k].readBackOffset = new[k].offset
      BY <1>6, <2>2, <2>3, <2>8 DEF PlaceFrom
    <3>2. new[k].readBackOffset = Before(boxes, j) /\ Before(boxes, j) <= Farthest(boxes, j)
      BY <1>6, <2>2, <2>5, <2>6, <3>1, FileIs
    <3>3. Within(new[k], boxes)
      BY <2>5, <3>2 DEF Within
    <3>4. Follows(new, k)
      BY <2>8, <3>1 DEF Follows
    <3> QED BY <2>1, <3>3, <3>4
  <2>9. CASE ~(k < first) /\ k # 1
    <3>0. PICK h : h = k - 1
      OBVIOUS
    <3>1. h \in 1..Len(kept) /\ h <= m /\ h < k
      BY <2>2, <2>9, <3>0
    <3>2. PICK i \in 1..Len(boxes) : /\ LiesAt(new[h], boxes, i)
                                     /\ new[h].readBackOffset \in Nat
                                     /\ new[h].readBackOffset <= Farthest(boxes, i)
      BY <1>9, <3>1 DEF Within
    <3>3. /\ new[h].offset \in Nat /\ new[h].length \in Nat /\ new[h].readBackLength \in Nat
          /\ Farthest(boxes, i) \in Nat /\ Farthest(boxes, i + 1) \in Nat
          /\ Farthest(boxes, i) + new[h].readBackLength <= Farthest(boxes, i + 1)
          /\ Farthest(boxes, i + 1) <= MaxPosition
          /\ EndOf(new[h]) = new[h].offset + new[h].length
      BY <3>2, LiesWithin
    <3>4. /\ new[h].offset = kept[h].offset /\ new[h].length = kept[h].length
          /\ new[h].readBackLength = kept[h].readBackLength /\ new[h].readBackOffset = place[h]
          /\ new[k].offset = kept[k].offset /\ new[k].readBackOffset = place[k]
      BY <1>6, <2>2, <3>1
    <3>5. EndOf(kept[h]) = new[h].offset + new[h].length
      BY <3>3, <3>4 DEF EndOf
    <3>6. place[k] = Shifted(kept[k].offset, EndOf(kept[h]), Sum(place[h], kept[h].readBackLength))
      BY <2>3, <2>9, <3>0 DEF PlaceFrom
    <3>7. /\ Sum(place[h], kept[h].readBackLength) = new[h].readBackOffset + new[h].readBackLength
          /\ new[h].readBackOffset + new[h].readBackLength <= Farthest(boxes, i + 1)
      <4>1. new[h].readBackOffset + new[h].readBackLength <= Farthest(boxes, i + 1)
        BY <3>2, <3>3, SMTT(60)
      <4>2. new[h].readBackOffset + new[h].readBackLength <= MaxPosition
        BY <3>2, <3>3, <4>1, Positions, SMTT(60)
      <4> QED BY <3>2, <3>3, <3>4, <4>1, <4>2, SumWithin
    <3>8. /\ new[h].offset < new[k].offset
      BY <1>4, <1>7, <2>2, <3>1 DEF InOrder
    <3>9. /\ new[h].offset + new[h].length <= new[k].offset
          /\ new[k].offset - (new[h].offset + new[h].length)
               <= Farthest(boxes, j) - Farthest(boxes, i + 1)
      BY <2>5, <3>2, <3>8, LiesBehind
    <3>10. PICK past, back : /\ past = new[h].offset + new[h].length
                          /\ back = new[h].readBackOffset + new[h].readBackLength
      OBVIOUS
    <3>11. /\ past \in Nat /\ back \in Nat /\ past <= kept[k].offset
           /\ kept[k].offset - past <= Farthest(boxes, j) - Farthest(boxes, i + 1)
           /\ back <= Farthest(boxes, i + 1)
      <4>1. past \in Nat /\ back \in Nat
        <5>1. /\ new[h].offset \in Nat /\ new[h].length \in Nat
              /\ new[h].readBackOffset \in Nat /\ new[h].readBackLength \in Nat
          BY <3>2, <3>3
        <5> QED BY ONLY <3>10, <5>1, SMTT(60)
      <4>2. past <= kept[k].offset /\ kept[k].offset - past <= Farthest(boxes, j) - Farthest(boxes, i + 1)
        BY <3>4, <3>9, <3>10
      <4>3. back <= Farthest(boxes, i + 1)
        BY <3>7, <3>10
      <4> QED BY <4>1, <4>2, <4>3
    <3>12. Farthest(boxes, j) <= MaxPosition
      BY <2>6, FileIs
    <3>13. back + (kept[k].offset - past) <= Farthest(boxes, j)
      BY <2>5, <3>3, <3>11
    <3>14. back + (kept[k].offset - past) <= MaxPosition
      BY <2>5, <3>11, <3>12, <3>13, Positions
    <3>15. place[k] = back + (kept[k].offset - past)
      BY <2>5, <3>5, <3>6, <3>7, <3>10, <3>11, <3>14, ShiftedWithin
    <3>16. Follows(new, k)
      BY <2>9, <3>0, <3>4, <3>10, <3>15 DEF Follows
    <3>17. Within(new[k], boxes)
      BY <2>5, <3>4, <3>11, <3>13, <3>15 DEF Within
    <3> QED BY <2>1, <3>16, <3>17
  <2> QED BY <2>7, <2>8, <2>9
<1>10. \A m \in Nat : m \in T
  <2> HIDE DEF T
  <2> QED BY <1>8, <1>9, SetInduction
<1>11. \A k \in 1..Len(new) : Follows(new, k) /\ Within(new[k], boxes)
  <2>1. Len(kept) \in T
    BY <1>0, <1>10
  <2>2. \A k \in 1..Len(kept) : k <= Len(kept)
    BY <1>0
  <2> QED BY <1>4, <2>1, <2>2
<1> HIDE DEF T
<1>12. Recorded(new, boxes)
  BY <1>7, <1>11 DEF Recorded
<1> QED BY <1>2, <1>4, <1>6, <1>12

LEMMA InsertedIs ==
  ASSUME NEW kept, Sequence(kept), NEW first \in Nat, first >= 1, first <= Len(kept) + 1, NEW box
  PROVE  /\ Sequence(Inserted(kept, first, box))
         /\ Len(Inserted(kept, first, box)) = Len(kept) + 1
         /\ \A k \in 1..Len(kept) : k < first => Inserted(kept, first, box)[k] = kept[k]
         /\ Inserted(kept, first, box)[first] = box
         /\ \A k \in 1..Len(kept) : k >= first => Inserted(kept, first, box)[k + 1] = kept[k]
BY InsertAtAny DEF Inserted

(* One more box, put where it lies.                                        *)
LEMMA InsertedKeeps ==
  ASSUME NEW boxes \in Files, NEW kept, Recorded(kept, boxes), NEW i \in 1..Len(boxes),
         NEW box, LiesAt(box, boxes, i),
         NEW n \in 0..Len(kept), \A k \in 1..Len(kept) : kept[k].offset < box.offset <=> k <= n,
         \A k \in 1..Len(kept) : kept[k].offset # box.offset
  PROVE  /\ Recorded(Placed(Inserted(kept, n + 1, box), n + 1), boxes)
         /\ Len(Placed(Inserted(kept, n + 1, box), n + 1)) = Len(kept) + 1
         /\ \A k \in 1..Len(kept) + 1 :
              LET new == Placed(Inserted(kept, n + 1, box), n + 1)
              IN  new[k].offset = IF k <= n THEN kept[k].offset
                                  ELSE IF k = n + 1 THEN box.offset ELSE kept[k - 1].offset
<1>0. Sequence(kept) /\ Len(kept) \in Nat
  BY SequenceShape DEF Recorded, InOrder
<1>1. PICK more : more = Inserted(kept, n + 1, box)
  OBVIOUS
<1>2. n + 1 \in Nat /\ n + 1 >= 1 /\ n + 1 <= Len(kept) + 1
  BY <1>0
<1>3. /\ Sequence(more) /\ Len(more) = Len(kept) + 1
      /\ \A k \in 1..Len(kept) : k < n + 1 => more[k] = kept[k]
      /\ more[n + 1] = box
      /\ \A k \in 1..Len(kept) : k >= n + 1 => more[k + 1] = kept[k]
  BY <1>0, <1>1, <1>2, InsertedIs
<1>4. ASSUME NEW k \in 1..Len(kept) + 1
      PROVE  /\ k <= n => k \in 1..Len(kept) /\ more[k] = kept[k]
             /\ k = n + 1 => more[k] = box
             /\ k > n + 1 => k - 1 \in 1..Len(kept) /\ k - 1 > n /\ more[k] = kept[k - 1]
  <2>1. k <= n => k \in 1..Len(kept) /\ k < n + 1
    BY <1>0
  <2>2. k > n + 1 => k - 1 \in 1..Len(kept) /\ k - 1 > n /\ k - 1 >= n + 1 /\ k - 1 + 1 = k
    BY <1>0
  <2> QED BY <1>3, <2>1, <2>2
<1>5. box.offset \in Nat
  BY LiesWithin
<1>6. \A k \in 1..Len(kept) : kept[k].offset \in Nat
  BY RecordedAre
<1>7. \A k \in 1..Len(kept) : k > n => box.offset < kept[k].offset
  <2> SUFFICES ASSUME NEW k \in 1..Len(kept), k > n PROVE box.offset < kept[k].offset
    OBVIOUS
  <2>1. ~(k <= n)
    BY <1>0
  <2>2. ~(kept[k].offset < box.offset) /\ kept[k].offset # box.offset
    BY <2>1
  <2> QED BY <1>5, <1>6, <2>2
<1>8. \A k, l \in 1..Len(kept) : k < l => kept[k].offset < kept[l].offset
  BY DEF Recorded, InOrder
<1>9. ASSUME NEW k \in 1..Len(kept) + 1, NEW l \in 1..Len(kept) + 1, k < l
      PROVE  more[k].offset < more[l].offset
  <2>1. CASE l <= n
    <3>1. k <= n
      BY <1>9, <2>1
    <3> QED BY <1>4, <1>8, <1>9, <2>1, <3>1
  <2>2. CASE l = n + 1
    <3>1. k <= n
      BY <1>9, <2>2
    <3> QED BY <1>4, <2>2, <3>1
  <2>3. CASE l > n + 1
    <3>1. CASE k <= n
      <4>1. k \in 1..Len(kept) /\ l - 1 \in 1..Len(kept) /\ k < l - 1
        BY <1>4, <2>3, <3>1
      <4> QED BY <1>4, <1>8, <2>3, <3>1, <4>1
    <3>2. CASE k = n + 1
      BY <1>4, <1>7, <2>3, <3>2
    <3>3. CASE k > n + 1
      <4>1. k - 1 < l - 1
        BY <1>9
      <4> QED BY <1>4, <1>8, <2>3, <3>3, <4>1
    <3> QED BY <3>1, <3>2, <3>3
  <2> QED BY <2>1, <2>2, <2>3
<1>10. ASSUME NEW k \in 1..Len(kept) + 1 PROVE \E j \in 1..Len(boxes) : LiesAt(more[k], boxes, j)
  <2>1. \A m \in 1..Len(kept) : \E j \in 1..Len(boxes) : LiesAt(kept[m], boxes, j)
    BY DEF Recorded, InOrder
  <2>2. k <= n \/ k = n + 1 \/ k > n + 1
    BY <1>0
  <2> QED BY <1>4, <2>1, <2>2
<1>11. InOrder(more, boxes)
  BY <1>3, <1>9, <1>10 DEF InOrder
<1>12. ASSUME NEW k \in 1..Len(more), k < n + 1 PROVE Follows(more, k) /\ Within(more[k], boxes)
  <2>1. k \in 1..Len(kept) /\ k <= n /\ k \in 1..Len(kept) + 1
    BY <1>0, <1>3, <1>12
  <2>2. Follows(kept, k) /\ Within(kept[k], boxes)
    BY <2>1 DEF Recorded
  <2>3. more[k] = kept[k]
    BY <1>4, <2>1
  <2>4. k # 1 => more[k - 1] = kept[k - 1]
    <3>1. k # 1 => k - 1 \in 1..Len(kept) + 1 /\ k - 1 <= n
      BY <2>1
    <3> QED BY <1>4, <3>1
  <2> QED BY <2>2, <2>3, <2>4 DEF Follows
<1>13. /\ Recorded(Placed(more, n + 1), boxes)
       /\ Len(Placed(more, n + 1)) = Len(more)
       /\ \A k \in 1..Len(more) : Placed(more, n + 1)[k].offset = more[k].offset
  BY <1>2, <1>11, <1>12, PlacedKeeps
<1>14. ASSUME NEW k \in 1..Len(kept) + 1
       PROVE  more[k].offset = IF k <= n THEN kept[k].offset
                               ELSE IF k = n + 1 THEN box.offset ELSE kept[k - 1].offset
  <2>1. ~(k <= n) /\ k # n + 1 => k > n + 1
    BY <1>0
  <2> QED BY <1>4, <2>1
<1> QED BY <1>1, <1>3, <1>13, <1>14
-------------------------------------------------------------------------------
IsRecord(c) ==
  c = [boxes |-> c.boxes, locatedEnd |-> c.locatedEnd, resumed |-> c.resumed,
       transformed |-> c.transformed]

Offsets(kept) == {kept[k].offset : k \in DOMAIN kept}

(* What a reader has of compressed boxes: those of the file, within limit. *)
Keeps(c, boxes) ==
  IsRecord(c) /\ Recorded(c.boxes, boxes) /\ Len(c.boxes) <= CompressedBoxCount

LEMMA RecordKeeps ==
  ASSUME NEW boxes \in Files, NEW c, Keeps(c, boxes),
         NEW i \in 1..Len(boxes), boxes[i].compressed,
         NEW o, o = Record(c, Before(boxes, i), Contents!Length(boxes[i]),
                           Contents!ReadBackLength(boxes[i]))
  PROVE  /\ Keeps(o.record, boxes)
         /\ o.answer = "ok" => Offsets(o.record.boxes) = Offsets(c.boxes) \cup {Before(boxes, i)}
         /\ o.answer # "ok" => Offsets(o.record.boxes) = Offsets(c.boxes)
<1>1. PICK kept : kept = c.boxes
  OBVIOUS
<1>2. PICK offset, length, back :
        /\ offset = Before(boxes, i) /\ length = Contents!Length(boxes[i])
        /\ back = Contents!ReadBackLength(boxes[i])
  OBVIOUS
<1>3. PICK box : box = [offset |-> offset, length |-> length,
                        readBackOffset |-> offset, readBackLength |-> back]
  OBVIOUS
<1>4. LiesAt(box, boxes, i) /\ box.offset = offset
  BY <1>2, <1>3 DEF LiesAt
<1>5. offset \in Nat
  BY <1>4, LiesWithin
<1>6. Recorded(kept, boxes) /\ Len(kept) <= CompressedBoxCount /\ IsRecord(c)
  BY <1>1 DEF Keeps
<1>7. Len(kept) \in Nat /\ DOMAIN kept = 1..Len(kept)
  BY <1>6, SequenceShape DEF Recorded, InOrder
<1>8. \A k, l \in 1..Len(kept) : k < l => kept[k].offset < kept[l].offset
  BY <1>6 DEF Recorded, InOrder
<1>9. \A k \in 1..Len(kept) : kept[k].offset \in Nat
  BY <1>6, RecordedAre
<1> DEFINE firsts == {k \in DOMAIN kept : kept[k].offset < offset}
<1>10. PICK n : n = Cardinality(firsts)
  OBVIOUS
<1>11. n \in 0..Len(kept) /\ \A k \in 1..Len(kept) : kept[k].offset < offset <=> k <= n
  <2>1. firsts \subseteq 1..Len(kept)
    BY <1>7
  <2>2. \A k \in 1..Len(kept) : k \in firsts <=> kept[k].offset < offset
    BY <1>7
  <2>3. \A k \in firsts, m \in 1..Len(kept) : m < k => m \in firsts
    <3> SUFFICES ASSUME NEW k \in 1..Len(kept), kept[k].offset < offset, NEW m \in 1..Len(kept), m < k
                 PROVE  kept[m].offset < offset
      BY <2>1, <2>2
    <3>1. kept[m].offset < kept[k].offset
      BY <1>8
    <3> QED BY <1>5, <1>9, <3>1
  <2> HIDE DEF firsts
  <2>4. Cardinality(firsts) \in 0..Len(kept)
        /\ \A k \in 1..Len(kept) : k \in firsts <=> k <= Cardinality(firsts)
    BY <1>7, <2>1, <2>3, CountIs
  <2> QED BY <1>10, <2>2, <2>4
<1>12. PICK known, moved : /\ known \in BOOLEAN /\ moved \in BOOLEAN
                           /\ known <=> n + 1 <= Len(kept) /\ kept[n + 1].offset = offset
                           /\ moved <=> back # length /\ offset < c.locatedEnd
  <2>1. /\ (n + 1 <= Len(kept) /\ kept[n + 1].offset = offset) \in BOOLEAN
        /\ (back # length /\ offset < c.locatedEnd) \in BOOLEAN
    OBVIOUS
  <2> QED BY <2>1, Zenon
<1>13. PICK noted : noted = [c EXCEPT !.transformed = TRUE]
  OBVIOUS
<1>14. IsRecord(noted) /\ noted.boxes = kept
  BY <1>1, <1>6, <1>13 DEF IsRecord
<1>15. PICK new : new = Placed(Inserted(kept, n + 1, box), n + 1)
  OBVIOUS
<1>16. \/ known /\ o = [answer |-> "ok", record |-> noted]
       \/ ~known /\ moved /\ o = [answer |-> "before located", record |-> noted]
       \/ ~known /\ ~moved /\ Full(kept) /\ o = [answer |-> "past limit", record |-> noted]
       \/ ~known /\ ~moved /\ ~Full(kept)
          /\ o = [answer |-> "ok", record |-> [noted EXCEPT !.boxes = new]]
  <2>1. Cardinality({k \in DOMAIN c.boxes : c.boxes[k].offset < Before(boxes, i)}) = n
    BY <1>1, <1>2, <1>10
  <2>2. [noted EXCEPT !.boxes = Placed(Inserted(@, n + 1, box), n + 1)] = [noted EXCEPT !.boxes = new]
    BY <1>14, <1>15
  <2>3. o = CASE known -> [answer |-> "ok", record |-> noted]
              [] ~known /\ moved -> [answer |-> "before located", record |-> noted]
              [] ~known /\ ~moved /\ Full(kept) -> [answer |-> "past limit", record |-> noted]
              [] OTHER -> [answer |-> "ok",
                           record |-> [noted EXCEPT !.boxes = Placed(Inserted(@, n + 1, box), n + 1)]]
    <3> HIDE DEF firsts
    <3> QED BY <1>1, <1>2, <1>3, <1>12, <1>13, <2>1 DEF Record, Count
  <2> QED BY <2>2, <2>3
<1>17. CASE known /\ o = [answer |-> "ok", record |-> noted]
  <2>1. Keeps(o.record, boxes) /\ o.answer = "ok" /\ o.record.boxes = kept
    BY <1>6, <1>14, <1>17 DEF Keeps
  <2>2. n + 1 \in 1..Len(kept) /\ kept[n + 1].offset = offset
    BY <1>7, <1>11, <1>12, <1>17
  <2>3. offset \in Offsets(kept)
    BY <1>7, <2>2 DEF Offsets
  <2> QED BY <1>1, <1>2, <2>1, <2>3
<1>18. CASE o.answer # "ok" /\ o.record = noted
  <2>1. Keeps(o.record, boxes) /\ o.record.boxes = kept
    BY <1>6, <1>14, <1>18 DEF Keeps
  <2> QED BY <1>1, <1>18, <2>1
<1>19. CASE ~known /\ ~Full(kept) /\ o = [answer |-> "ok", record |-> [noted EXCEPT !.boxes = new]]
  <2>1. o.answer = "ok" /\ IsRecord(o.record) /\ o.record.boxes = new
    BY <1>14, <1>19 DEF IsRecord
  <2>2. ASSUME NEW k \in 1..Len(kept) PROVE kept[k].offset # offset
    <3>1. k < n + 1 \/ k = n + 1 \/ n + 1 < k
      BY <1>7, <1>11
    <3>2. CASE k < n + 1
      <4>1. kept[k].offset < offset
        BY <1>7, <1>11, <3>2
      <4> QED BY <1>5, <1>9, <4>1
    <3>3. CASE k = n + 1
      BY <1>7, <1>11, <1>12, <1>19, <3>3
    <3>4. CASE n + 1 < k
      <4>1. n + 1 \in 1..Len(kept) /\ ~(n + 1 <= n)
        BY <1>7, <1>11, <3>4
      <4>2. ~(kept[n + 1].offset < offset) /\ kept[n + 1].offset < kept[k].offset
        BY <1>8, <1>11, <3>4, <4>1
      <4> QED BY <1>5, <1>9, <4>1, <4>2
    <3> QED BY <3>1, <3>2, <3>3, <3>4
  <2>3. /\ Recorded(new, boxes)
        /\ Len(new) = Len(kept) + 1
        /\ \A k \in 1..Len(kept) + 1 :
             new[k].offset = IF k <= n THEN kept[k].offset
                             ELSE IF k = n + 1 THEN box.offset ELSE kept[k - 1].offset
    <3>1. /\ \A k \in 1..Len(kept) : kept[k].offset < box.offset <=> k <= n
          /\ \A k \in 1..Len(kept) : kept[k].offset # box.offset
          /\ n \in 0..Len(kept)
      BY <1>4, <1>11, <2>2
    <3>2. /\ Recorded(Placed(Inserted(kept, n + 1, box), n + 1), boxes)
          /\ Len(Placed(Inserted(kept, n + 1, box), n + 1)) = Len(kept) + 1
          /\ \A k \in 1..Len(kept) + 1 :
               Placed(Inserted(kept, n + 1, box), n + 1)[k].offset
                 = IF k <= n THEN kept[k].offset
                   ELSE IF k = n + 1 THEN box.offset ELSE kept[k - 1].offset
      BY <1>4, <1>6, <3>1, InsertedKeeps
    <3> QED BY <1>15, <3>2
  <2>4. Len(new) <= CompressedBoxCount
    <3>1. ~(Len(kept) >= CompressedBoxCount) /\ CompressedBoxCount \in Nat
      BY <1>19, LimitsAssumption DEF Full
    <3> QED BY <1>7, <2>3, <3>1
  <2>5. Keeps(o.record, boxes)
    BY <2>1, <2>3, <2>4 DEF Keeps
  <2>6. DOMAIN new = 1..Len(kept) + 1
    BY <2>3, SequenceShape DEF Recorded, InOrder
  <2>7. Offsets(new) = Offsets(kept) \cup {offset}
    <3>1. ASSUME NEW k \in 1..Len(kept) + 1 PROVE new[k].offset \in Offsets(kept) \cup {offset}
      <4>1. CASE k <= n
        <5>1. k \in 1..Len(kept)
          BY <1>7, <1>11, <4>1
        <5> QED BY <1>7, <2>3, <4>1, <5>1 DEF Offsets
      <4>2. CASE k = n + 1
        <5>1. ~(k <= n)
          BY <1>11, <4>2
        <5> QED BY <1>4, <2>3, <4>2, <5>1
      <4>3. CASE ~(k <= n) /\ k # n + 1
        <5>1. k - 1 \in 1..Len(kept)
          BY <1>7, <1>11, <4>3
        <5> QED BY <1>7, <2>3, <4>3, <5>1 DEF Offsets
      <4> QED BY <4>1, <4>2, <4>3
    <3>2. ASSUME NEW k \in 1..Len(kept) PROVE kept[k].offset \in Offsets(new)
      <4>1. CASE k <= n
        <5>1. k \in 1..Len(kept) + 1
          BY <1>7
        <5>2. new[k].offset = kept[k].offset
          BY <2>3, <4>1, <5>1
        <5> QED BY <2>6, <5>1, <5>2 DEF Offsets
      <4>2. CASE ~(k <= n)
        <5>1. k + 1 \in 1..Len(kept) + 1 /\ ~(k + 1 <= n) /\ k + 1 # n + 1 /\ k + 1 - 1 = k
          BY <1>7, <1>11, <4>2
        <5>2. new[k + 1].offset = kept[k].offset
          BY <2>3, <5>1
        <5> QED BY <2>6, <5>1, <5>2 DEF Offsets
      <4> QED BY <4>1, <4>2
    <3>3. offset \in Offsets(new)
      <4>1. n + 1 \in 1..Len(kept) + 1 /\ ~(n + 1 <= n)
        BY <1>7, <1>11
      <4>2. new[n + 1].offset = offset
        BY <1>4, <2>3, <4>1
      <4> QED BY <2>6, <4>1, <4>2 DEF Offsets
    <3>4. Offsets(new) \subseteq Offsets(kept) \cup {offset}
      BY <2>6, <3>1 DEF Offsets
    <3>5. Offsets(kept) \subseteq Offsets(new)
      BY <1>7, <3>2 DEF Offsets
    <3> QED BY <3>3, <3>4, <3>5
  <2> QED BY <1>1, <1>2, <2>1, <2>5, <2>7
<1>20. \/ known /\ o = [answer |-> "ok", record |-> noted]
       \/ o.answer # "ok" /\ o.record = noted
       \/ ~known /\ ~Full(kept) /\ o = [answer |-> "ok", record |-> [noted EXCEPT !.boxes = new]]
  <2>1. \A a : o = [answer |-> a, record |-> noted] => o.answer = a /\ o.record = noted
    OBVIOUS
  <2>2. "before located" # "ok" /\ "past limit" # "ok"
    OBVIOUS
  <2>3. \/ o = [answer |-> "before located", record |-> noted]
        \/ o = [answer |-> "past limit", record |-> noted]
        => o.answer # "ok" /\ o.record = noted
    BY <2>1, <2>2, Zenon
  <2> QED BY <1>16, <2>3, Zenon
<1> QED BY <1>17, <1>18, <1>19, <1>20
-------------------------------------------------------------------------------
(* WHAT IS RESOLVED                                                        *)

Resolving(r) ==
  /\ r = [answer |-> r.answer, times |-> r.times, leniencies |-> r.leniencies,
          samples |-> r.samples, first |-> r.first, previous |-> r.previous]
  /\ Sequence(r.leniencies)
  /\ Sequence(r.samples)

LEMMA NoElement ==
  Sequence(<<>>) /\ Len(<<>>) = 0
<1>1. <<>> = [i \in 1..0 |-> <<>>[i]]
  BY EmptySeq
<1> QED BY <1>1, SequenceOfAny

LEMMA LeniencySequence ==
  ASSUME NEW run, NEW reached
  PROVE  Sequence(LeniencyOf(run, reached))
<1>1. \A e : Sequence(<<e>>)
  BY OneElement
<1> QED BY <1>1, NoElement, Zenon DEF LeniencyOf

LEMMA SamplesSequence ==
  ASSUME NEW run, Sequence(run.sizes), NEW time, NEW start, NEW counts
  PROVE  Sequence(Samples(run, time, start, counts))
<1>1. PICK N \in Nat : N = Len(run.sizes) /\ DOMAIN run.sizes = 1..N
  BY SequenceShape
<1>2. PICK s : s = Samples(run, time, start, counts)
  OBVIOUS
<1>3. s = [k \in 1..N |-> s[k]]
  BY <1>1, <1>2 DEF Samples
<1> QED BY <1>2, <1>3, SequenceOfAny

LEMMA ResolveRunKeeps ==
  ASSUME NEW r, Resolving(r), NEW run, Sequence(run.sizes), NEW moof
  PROVE  Resolving(ResolveRun(r, run, moof))
<1>1. PICK new : new = ResolveRun(r, run, moof)
  OBVIOUS
<1>2. PICK reached : reached = r.times[run.track]
  OBVIOUS
<1>3. PICK time, base : /\ time = StartTime(run, reached)
                        /\ base = BaseOf(run, r.first, r.previous, moof)
  OBVIOUS
<1>4. PICK samples : samples = Samples(run, time, Start(run, base), base.counts)
  OBVIOUS
<1>5. PICK lenient : lenient = LeniencyOf(run, reached)
  OBVIOUS
<1>6. Sequence(samples) /\ Sequence(lenient)
  BY <1>4, <1>5, SamplesSequence, LeniencySequence
<1>7. Sequence(r.leniencies \o lenient) /\ Sequence(r.samples \o samples)
  BY <1>6, ConcatAny DEF Resolving
<1>8. \/ new = r
      \/ \E word : new = [r EXCEPT !.answer = word]
      \/ \E prior, times : new = [r EXCEPT !.first = FALSE, !.previous = prior, !.times = times,
                                          !.leniencies = @ \o lenient, !.samples = @ \o samples]
  <2>1. CASE r.answer # "ok"
    BY <1>1, <2>1 DEF ResolveRun
  <2>2. CASE r.answer = "ok" /\ run.track \notin DOMAIN r.times
    BY <1>1, <2>2 DEF ResolveRun
  <2>3. CASE r.answer = "ok" /\ run.track \in DOMAIN r.times
    <3>1. PICK stop : stop = IF samples = <<>> THEN base.offset ELSE Last(samples).end
      OBVIOUS
    <3>2. PICK reaches : reaches = [time |-> time + (IF run.empty THEN 1 ELSE Len(samples)),
                                    afterSample |-> reached.afterSample \/ samples # <<>>]
      OBVIOUS
    <3>3. PICK prior : prior = [counts |-> base.counts, offset |-> stop]
      OBVIOUS
    <3>4. new = IF time = None
                THEN [r EXCEPT !.answer = "missing decoding time"]
                ELSE IF samples # <<>> /\ (stop > MaxPosition \/ Start(run, base) < 0)
                THEN [r EXCEPT !.answer = "out of range"]
                ELSE [r EXCEPT !.first = FALSE, !.previous = prior,
                               !.times[run.track] = reaches,
                               !.leniencies = @ \o lenient, !.samples = @ \o samples]
      BY <1>1, <1>2, <1>3, <1>4, <1>5, <2>3, <3>1, <3>2, <3>3, Zenon DEF ResolveRun
    <3>5. PICK times : times = [r.times EXCEPT ![run.track] = reaches]
      OBVIOUS
    <3>6. [r EXCEPT !.first = FALSE, !.previous = prior, !.times[run.track] = reaches,
                    !.leniencies = @ \o lenient, !.samples = @ \o samples]
            = [r EXCEPT !.first = FALSE, !.previous = prior, !.times = times,
                        !.leniencies = @ \o lenient, !.samples = @ \o samples]
      BY <3>5 DEF Resolving
    <3> QED BY <3>4, <3>6, Zenon
  <2> QED BY <2>1, <2>2, <2>3
<1>9. CASE new = r
  BY <1>1, <1>9
<1>10. CASE \E word : new = [r EXCEPT !.answer = word]
  <2>1. PICK word : new = [r EXCEPT !.answer = word]
    BY <1>10
  <2>2. new = [answer |-> word, times |-> r.times, leniencies |-> r.leniencies,
               samples |-> r.samples, first |-> r.first, previous |-> r.previous]
    BY <2>1 DEF Resolving
  <2> QED BY <1>1, <2>2 DEF Resolving
<1>11. CASE \E prior, times : new = [r EXCEPT !.first = FALSE, !.previous = prior, !.times = times,
                                          !.leniencies = @ \o lenient, !.samples = @ \o samples]
  <2>1. PICK prior, times : new = [r EXCEPT !.first = FALSE, !.previous = prior, !.times = times,
                                          !.leniencies = @ \o lenient, !.samples = @ \o samples]
    BY <1>11
  <2>2. PICK ls, ss : ls = r.leniencies \o lenient /\ ss = r.samples \o samples
    OBVIOUS
  <2>3. new = [answer |-> r.answer, times |-> times, leniencies |-> ls,
               samples |-> ss, first |-> FALSE, previous |-> prior]
    BY <2>1, <2>2 DEF Resolving
  <2> QED BY <1>1, <1>7, <2>2, <2>3 DEF Resolving
<1> QED BY <1>8, <1>9, <1>10, <1>11

LEMMA ResolveIs ==
  ASSUME NEW times, NEW runs, Sequence(runs), \A j \in 1..Len(runs) : Sequence(runs[j].sizes),
         NEW moof
  PROVE  Resolving(Resolve(times, runs, moof))
<1>1. PICK N \in Nat : N = Len(runs) /\ DOMAIN runs = 1..N
  BY SequenceShape
<1>2. PICK start : start = Unresolved(times, moof)
  OBVIOUS
<1>3. Resolving(start)
  <2>1. start = [answer |-> "ok", times |-> times, leniencies |-> <<>>, samples |-> <<>>,
                 first |-> TRUE, previous |-> [counts |-> None, offset |-> moof]]
    BY <1>2 DEF Unresolved
  <2>2. start.leniencies = <<>> /\ start.samples = <<>>
    BY <2>1
  <2>3. start = [answer |-> start.answer, times |-> start.times, leniencies |-> start.leniencies,
                 samples |-> start.samples, first |-> start.first, previous |-> start.previous]
    BY <2>1
  <2> QED BY <2>2, <2>3, NoElement DEF Resolving
<1> DEFINE Value(f, n) == IF n = 0 THEN start ELSE ResolveRun(f[n - 1], runs[n], moof)
           Step(f) == [n \in 0..N |-> Value(f, n)]
           after == CHOOSE f : f = Step(f)
           T == {m \in Nat : \E f : f = [n \in 0..N |-> f[n]]
                                    /\ \A n \in 0..N : n <= m => f[n] = Value(f, n)}
<1>4. 0 \in T
  <2> DEFINE g == [n \in 0..N |-> start]
  <2>1. g = [n \in 0..N |-> g[n]]
    OBVIOUS
  <2>2. \A n \in 0..N : n <= 0 => g[n] = Value(g, n)
    OBVIOUS
  <2> QED BY <2>1, <2>2
<1>5. ASSUME NEW m \in Nat, m \in T PROVE m + 1 \in T
  <2>1. PICK f : f = [n \in 0..N |-> f[n]] /\ \A n \in 0..N : n <= m => f[n] = Value(f, n)
    BY <1>5
  <2> DEFINE g == [n \in 0..N |-> IF n = m + 1 THEN Value(f, n) ELSE f[n]]
  <2>2. g = [n \in 0..N |-> g[n]]
    OBVIOUS
  <2>3. ASSUME NEW n \in 0..N, n <= m + 1 PROVE g[n] = Value(g, n)
    <3>1. g[n] = Value(f, n)
      <4>1. n # m + 1 => n <= m
        BY <2>3
      <4>2. n # m + 1 => f[n] = Value(f, n)
        BY <2>1, <4>1
      <4> HIDE DEF Value
      <4> QED BY <4>2
    <3>2. n # 0 => g[n - 1] = f[n - 1]
      <4>1. n # 0 => n - 1 \in 0..N /\ n - 1 # m + 1
        BY <2>3
      <4> HIDE DEF Value
      <4> QED BY <4>1
    <3> HIDE DEF g
    <3> QED BY <3>1, <3>2
  <2> HIDE DEF g, Value
  <2> QED BY <2>2, <2>3
<1>6. N \in T
  <2>1. \A n \in Nat : n \in T
    <3> HIDE DEF T
    <3> QED BY <1>4, <1>5, SetInduction
  <2> HIDE DEF T
  <2> QED BY <2>1
<1>7. \E f : f = Step(f)
  <2>1. PICK f : f = [n \in 0..N |-> f[n]] /\ \A n \in 0..N : n <= N => f[n] = Value(f, n)
    BY <1>6
  <2>2. \A n \in 0..N : n <= N
    OBVIOUS
  <2>3. f = [n \in 0..N |-> Value(f, n)]
    <3> HIDE DEF Value
    <3> QED BY <2>1, <2>2
  <2> QED BY <2>3
<1>8. after = Step(after)
  <2> HIDE DEF Step
  <2> QED BY <1>7
<1>9. Resolve(times, runs, moof) = after[N]
  BY <1>1, <1>2, Zenon DEF Resolve
<1> HIDE DEF after, T
<1>10. \A n \in 0..N : after[n] = Value(after, n)
  <2> HIDE DEF Value
  <2> QED BY <1>8
<1>11. after[0] = start
  <2>1. 0 \in 0..N
    BY <1>1
  <2> QED BY <1>10, <2>1
<1>12. \A n \in 1..N : after[n] = ResolveRun(after[n - 1], runs[n], moof)
  <2>1. \A n \in 1..N : n \in 0..N /\ n # 0
    BY <1>1
  <2> QED BY <1>10, <2>1
<1> DEFINE U == {n \in Nat : n <= N => Resolving(after[n])}
<1>13. 0 \in U
  BY <1>3, <1>11
<1>14. ASSUME NEW n \in Nat, n \in U PROVE n + 1 \in U
  <2> SUFFICES ASSUME n + 1 <= N PROVE Resolving(after[n + 1])
    OBVIOUS
  <2>1. n + 1 \in 1..N /\ n + 1 - 1 = n /\ n <= N
    BY <1>1
  <2>2. after[n + 1] = ResolveRun(after[n], runs[n + 1], moof)
    BY <1>12, <2>1
  <2>3. Resolving(after[n]) /\ Sequence(runs[n + 1].sizes)
    BY <1>1, <1>14, <2>1
  <2> QED BY <2>2, <2>3, ResolveRunKeeps
<1>15. N \in U
  <2>1. \A n \in Nat : n \in U
    <3> HIDE DEF U
    <3> QED BY <1>13, <1>14, SetInduction
  <2> HIDE DEF U
  <2> QED BY <1>1, <2>1
<1>16. Resolving(after[N])
  <2>1. N <= N
    BY <1>1
  <2> QED BY <1>15, <2>1
<1> QED BY <1>9, <1>16
-------------------------------------------------------------------------------
(* THE READER                                                              *)

IsReader(r) ==
  r = [movie |-> r.movie, times |-> r.times, leniencies |-> r.leniencies,
       identified |-> r.identified, waiting |-> r.waiting, indexes |-> r.indexes,
       randomAccess |-> r.randomAccess, compressed |-> r.compressed]

(* What a reader keeps is within its limits.                               *)
Held(r) ==
  /\ IsReader(r)
  /\ Sequence(r.waiting) /\ Len(r.waiting) <= UnresolvedCount
  /\ Sequence(r.leniencies) /\ Len(r.leniencies) <= LeniencyCount
  /\ Sequence(r.indexes) /\ Len(r.indexes) <= SegmentIndexCount
  /\ IsFiniteSet(DOMAIN r.identified) /\ Cardinality(DOMAIN r.identified) <= IdentifiedCount

(* A reader that is left with the same compressed boxes.                   *)
SameBoxes(r, s) == IsRecord(s.compressed) /\ s.compressed.boxes = r.compressed.boxes

(* .. and with the same segment indexes and imda.                          *)
Alike(r, s) ==
  SameBoxes(r, s) /\ s.indexes = r.indexes /\ s.identified = r.identified

LEMMA PickedAny ==
  ASSUME NEW s, Sequence(s), NEW places, places \subseteq DOMAIN s
  PROVE  /\ Sequence(Picked(s, places))
         /\ Len(Picked(s, places)) = Cardinality(places)
         /\ Cardinality(places) \in Nat
         /\ Cardinality(places) <= Len(s)
<1>1. s \in Seq(Range(s))
  BY DEF Sequence
<1>2. /\ Picked(s, places) \in Seq(Range(s))
      /\ Len(Picked(s, places)) = Cardinality(places)
      /\ Cardinality(places) \in Nat /\ Cardinality(places) <= Len(s)
  BY <1>1, PickedType
<1> QED BY <1>2, SequenceOf

LEMMA OutcomeIs ==
  \A word, r, samples, o : o = Outcome(word, r, samples) => o.answer = word /\ o.reader = r
BY DEF Outcome

LEMMA RefusalIs ==
  \A word, r, o : o = Refusal(word, r) => o.answer = word /\ o.reader = r
BY DEF Refusal, Outcome

(* Locating samples notes how far they reach, and moves them.              *)
Noted(r, reach) == [r EXCEPT !.compressed = NoteLocated(@, reach)]

LEMMA LocateIs ==
  ASSUME NEW r, NEW samples, NEW prior
  PROVE  \/ Locate(r, samples, prior) = Refusal("out of range", prior)
         \/ \E reach, moved : Locate(r, samples, prior) = Outcome("ok", Noted(r, reach), moved)
<1>0. PICK o : o = Locate(r, samples, prior)
  OBVIOUS
<1>1. PICK inOrder : inOrder = InFileOrder(samples)
  OBVIOUS
<1>2. PICK moved : moved = [k \in DOMAIN inOrder |-> PlaceInThisFile(r.compressed.boxes, inOrder[k])]
  OBVIOUS
<1>3. PICK reach : reach = Max({moved[k].end : k \in {n \in DOMAIN moved : moved[n].here}} \cup {0})
  OBVIOUS
<1>4. o = IF \E k \in DOMAIN moved : inOrder[k].end > MaxPosition \/ moved[k].end < moved[k].start
          THEN Refusal("out of range", prior)
          ELSE Outcome("ok", [r EXCEPT !.compressed = NoteLocated(@, reach)], moved)
  BY <1>1, <1>2, <1>3, <1>0, Zenon DEF Locate
<1> QED BY <1>0, <1>4, Zenon DEF Noted

(* A call that locates samples leaves the reader it was to leave, or the   *)
(* one it refuses to change.                                               *)
LEMMA LocateKeeps ==
  ASSUME NEW before, Held(before), IsRecord(before.compressed),
         NEW after, Held(after), SameBoxes(before, after),
         NEW samples, NEW o, o = Locate(after, samples, before)
  PROVE  /\ Held(o.reader) /\ SameBoxes(before, o.reader)
         /\ o.answer # "ok" => o.reader = before
         /\ o.answer = "ok" => /\ o.reader.indexes = after.indexes
                               /\ o.reader.identified = after.identified
<1>1. CASE o = Refusal("out of range", before)
  <2>1. o.reader = before /\ o.answer = "out of range"
    BY <1>1, RefusalIs, ZenonT(60)
  <2>2. o.answer # "ok"
    BY <2>1
  <2> QED BY <2>1, <2>2 DEF SameBoxes
<1>2. ASSUME NEW reach, NEW moved,
             o = Outcome("ok", Noted(after, reach), moved)
      PROVE  /\ Held(o.reader) /\ SameBoxes(before, o.reader)
             /\ o.answer = "ok"
             /\ o.reader.indexes = after.indexes /\ o.reader.identified = after.identified
  <2>1. PICK noted : noted = NoteLocated(after.compressed, reach)
    OBVIOUS
  <2>2. IsRecord(noted) /\ noted.boxes = before.compressed.boxes
    BY <2>1 DEF SameBoxes, IsRecord, NoteLocated
  <2>3. o.answer = "ok" /\ o.reader = [after EXCEPT !.compressed = noted]
    BY <1>2, <2>1, OutcomeIs DEF Noted
  <2>4. /\ IsReader(o.reader) /\ o.reader.compressed = noted
        /\ o.reader.waiting = after.waiting /\ o.reader.leniencies = after.leniencies
        /\ o.reader.indexes = after.indexes /\ o.reader.identified = after.identified
    BY <2>3 DEF Held, IsReader
  <2>5. Held(o.reader)
    BY <2>4 DEF Held
  <2> QED BY <2>2, <2>3, <2>4, <2>5 DEF SameBoxes
<1>3. \/ o = Refusal("out of range", before)
      \/ \E reach, moved :
           o = Outcome("ok", Noted(after, reach), moved)
  <2>1. o = Locate(after, samples, before)
    OBVIOUS
  <2>2. \/ Locate(after, samples, before) = Refusal("out of range", before)
        \/ \E reach, moved : Locate(after, samples, before) = Outcome("ok", Noted(after, reach), moved)
    BY ONLY LocateIs
  <2> QED BY ONLY <2>1, <2>2, Zenon
<1>4. CASE \E reach, moved :
             o = Outcome("ok", Noted(after, reach), moved)
  <2>1. PICK reach, moved :
          o = Outcome("ok", Noted(after, reach), moved)
    BY <1>4
  <2> QED BY <1>2, <2>1
<1> QED BY <1>1, <1>3, <1>4

LEMMA PlaceKeeps ==
  ASSUME NEW before, Held(before), IsRecord(before.compressed),
         NEW after, Held(after), Alike(before, after), after.waiting = before.waiting,
         NEW samples, Sequence(samples), NEW o, o = Place(before, after, samples)
  PROVE  /\ Held(o.reader) /\ Alike(before, o.reader)
         /\ o.answer # "ok" => o.reader = before
<1> DEFINE Waits(sample) == sample.counts # None /\ sample.counts \notin DOMAIN before.identified
           places == {k \in DOMAIN samples : Waits(samples[k])}
<1>1. PICK waiting : waiting = Picked(samples, places)
  OBVIOUS
<1>2. /\ Sequence(waiting) /\ Len(waiting) = Cardinality(places) /\ Len(waiting) \in Nat
  <2>1. places \subseteq DOMAIN samples
    OBVIOUS
  <2> HIDE DEF places
  <2> QED BY <1>1, <2>1, PickedAny
<1>3. PICK next : next = [after EXCEPT !.waiting = @ \o waiting]
  OBVIOUS
<1>4. PICK placed : placed = Where(samples, LAMBDA sample : ~Waits(sample))
  OBVIOUS
<1>5. PICK located : located = [k \in DOMAIN placed |->
                    IF placed[k].counts = None THEN placed[k]
                    ELSE Located(placed[k], before.identified[placed[k].counts])]
  OBVIOUS
<1>6. PICK past : /\ past \in BOOLEAN
                  /\ past <=> /\ \E k \in DOMAIN samples : samples[k].counts # None
                              /\ WaitingPastLimit(before, waiting)
  <2>1. (/\ \E k \in DOMAIN samples : samples[k].counts # None
         /\ WaitingPastLimit(before, waiting)) \in BOOLEAN
    OBVIOUS
  <2> QED BY <2>1, Zenon
<1>7. o = IF past THEN Refusal("past limit", before) ELSE Locate(next, located, before)
  BY <1>1, <1>3, <1>4, <1>5, <1>6, Zenon DEF Place, Where
<1>8. CASE past
  <2>1. o.reader = before /\ o.answer = "past limit"
    <3>1. o = Refusal("past limit", before)
      BY <1>7, <1>8, Zenon
    <3> QED BY ONLY <3>1, RefusalIs
  <2>2. o.answer # "ok"
    BY <2>1
  <2> QED BY <2>1, <2>2 DEF Alike, SameBoxes
<1>9. CASE ~past
  <2>1. /\ IsReader(next) /\ next.waiting = before.waiting \o waiting
        /\ next.leniencies = after.leniencies /\ next.indexes = after.indexes
        /\ next.identified = after.identified /\ next.compressed = after.compressed
    BY <1>3 DEF Held, IsReader
  <2>2. Sequence(before.waiting) /\ Len(before.waiting) \in Nat /\ Len(before.waiting) <= UnresolvedCount
    BY SequenceShape DEF Held
  <2>3. Sequence(next.waiting) /\ Len(next.waiting) = Len(before.waiting) + Len(waiting)
    <3>1. Sequence(before.waiting) /\ Sequence(waiting)
      BY <1>2, <2>2
    <3>2. /\ Sequence(before.waiting \o waiting)
          /\ Len(before.waiting \o waiting) = Len(before.waiting) + Len(waiting)
      BY ONLY <3>1, ConcatAny
    <3> QED BY <2>1, <3>2
  <2>4. UnresolvedCount \in Nat
    BY LimitsAssumption
  <2>5. Len(next.waiting) <= UnresolvedCount
    <3>1. CASE \E k \in DOMAIN samples : samples[k].counts # None
      <4>1. ~(Len(before.waiting) + Len(waiting) > UnresolvedCount)
        BY <1>6, <1>9, <3>1 DEF WaitingPastLimit
      <4> QED BY <1>2, <2>2, <2>3, <2>4, <4>1
    <3>2. CASE ~ \E k \in DOMAIN samples : samples[k].counts # None
      <4>1. places = {}
        BY <3>2
      <4>2. Len(waiting) = 0
        BY <1>2, <4>1, FS_EmptySet
      <4> QED BY <2>2, <2>3, <4>2
    <3> QED BY <3>1, <3>2
  <2>6. Held(next)
    BY <2>1, <2>3, <2>5 DEF Held
  <2>7. SameBoxes(before, next)
    BY <2>1 DEF Alike, SameBoxes
  <2>8. o = Locate(next, located, before)
    BY <1>7, <1>9
  <2>9. /\ Held(o.reader) /\ SameBoxes(before, o.reader)
        /\ o.answer # "ok" => o.reader = before
        /\ o.answer = "ok" => /\ o.reader.indexes = next.indexes
                              /\ o.reader.identified = next.identified
    BY <2>6, <2>7, <2>8, LocateKeeps
  <2>10. CASE o.answer = "ok"
    BY <2>1, <2>9, <2>10 DEF Alike
  <2>11. CASE o.answer # "ok"
    BY <2>9, <2>11 DEF Alike
  <2> QED BY <2>9, <2>10, <2>11
<1> QED BY <1>8, <1>9

LEMMA HandleRunsKeeps ==
  ASSUME NEW before, Held(before), IsRecord(before.compressed),
         NEW after, Held(after), Alike(before, after), after.waiting = before.waiting,
         NEW runs, Sequence(runs), \A j \in 1..Len(runs) : Sequence(runs[j].sizes),
         NEW moof, NEW o, o = HandleRuns(before, after, runs, moof)
  PROVE  /\ Held(o.reader) /\ Alike(before, o.reader)
         /\ o.answer # "ok" => o.reader = before
<1>1. PICK resolved : resolved = Resolve(after.times, runs, moof)
  OBVIOUS
<1>2. Sequence(resolved.leniencies) /\ Sequence(resolved.samples)
  BY <1>1, ResolveIs DEF Resolving
<1>3. PICK leniencies : leniencies = before.leniencies \o resolved.leniencies
  OBVIOUS
<1>4. Sequence(leniencies) /\ Len(leniencies) \in Nat
  <2>1. Sequence(before.leniencies)
    BY DEF Held
  <2> QED BY <1>2, <1>3, <2>1, ConcatAny, SequenceShape
<1>5. PICK next : next = [after EXCEPT !.times = resolved.times, !.leniencies = leniencies]
  OBVIOUS
<1>6. \/ \E word : word # "ok" /\ o = Refusal(word, before)
      \/ Len(leniencies) <= LeniencyCount /\ o = Place(before, next, resolved.samples)
  <2>1. o = IF Declared(runs) > SampleCount THEN Refusal("past limit", before)
            ELSE IF resolved.answer # "ok" THEN Refusal(resolved.answer, before)
            ELSE IF Len(leniencies) > LeniencyCount THEN Refusal("past limit", before)
            ELSE Place(before, next, resolved.samples)
    BY <1>1, <1>3, <1>5, Zenon DEF HandleRuns
  <2>2. "past limit" # "ok"
    OBVIOUS
  <2>3. LeniencyCount \in Nat
    BY LimitsAssumption
  <2>4. ~(Len(leniencies) > LeniencyCount) => Len(leniencies) <= LeniencyCount
    BY <1>4, <2>3
  <2> QED BY <2>1, <2>2, <2>4, Zenon
<1>7. ASSUME NEW word, word # "ok", o = Refusal(word, before)
      PROVE  Held(o.reader) /\ Alike(before, o.reader) /\ o.reader = before
  <2>1. o.reader = before
    BY <1>7, RefusalIs
  <2> QED BY <2>1 DEF Alike, SameBoxes
<1>8. CASE Len(leniencies) <= LeniencyCount /\ o = Place(before, next, resolved.samples)
  <2>1. /\ IsReader(next) /\ next.waiting = before.waiting /\ next.leniencies = leniencies
        /\ next.indexes = after.indexes /\ next.identified = after.identified
        /\ next.compressed = after.compressed
    BY <1>5 DEF Held, IsReader
  <2>2. Held(next)
    BY <1>4, <1>8, <2>1 DEF Held
  <2>3. Alike(before, next)
    BY <2>1 DEF Alike, SameBoxes
  <2> QED BY <1>2, <1>8, <2>1, <2>2, <2>3, PlaceKeeps
<1> QED BY <1>6, <1>7, <1>8
-------------------------------------------------------------------------------
LEMMA DeclaresAre ==
  ASSUME NEW boxes \in Files, NEW i \in 1..Len(boxes)
  PROVE  /\ Sequence(Contents!Declares(boxes, i))
         /\ \A j \in 1..Len(Contents!Declares(boxes, i)) :
              Sequence(Contents!Declares(boxes, i)[j].sizes)
<1>1. boxes[i] \in Contents!FileBox
  BY FileIs
<1>2. PICK runs \in Seq(Contents!FileRun) : runs = boxes[i].runs
  BY <1>1 DEF Contents!FileBox
<1>3. PICK n \in Nat : n = Len(runs) /\ DOMAIN runs = 1..n
  OBVIOUS
<1>4. PICK declared : declared = Contents!Declares(boxes, i)
  OBVIOUS
<1>5. declared = [j \in 1..n |-> declared[j]]
  BY <1>2, <1>3, <1>4 DEF Contents!Declares
<1>6. Sequence(declared) /\ Len(declared) = n
  BY <1>5, SequenceOfAny
<1>7. ASSUME NEW j \in 1..n PROVE Sequence(declared[j].sizes)
  <2>1. declared[j].sizes = runs[j].sizes
    BY <1>2, <1>3, <1>4 DEF Contents!Declares
  <2>2. runs[j] \in Contents!FileRun
    BY <1>3
  <2>3. runs[j].sizes \in Seq(Nat)
    BY <2>2 DEF Contents!FileRun
  <2>4. Sequence(runs[j].sizes)
    BY <2>3, SequenceOf
  <2> QED BY <2>1, <2>4
<1> QED BY <1>4, <1>6, <1>7

LEMMA HandleMovieKeeps ==
  ASSUME NEW r, Held(r), IsRecord(r.compressed), NEW tracks,
         NEW runs, Sequence(runs), \A j \in 1..Len(runs) : Sequence(runs[j].sizes),
         NEW o, o = HandleMovie(r, tracks, runs)
  PROVE  /\ Held(o.reader) /\ Alike(r, o.reader)
         /\ o.answer # "ok" => o.reader = r
<1>1. PICK times : times = [t \in tracks |-> [time |-> 0, afterSample |-> FALSE]]
  OBVIOUS
<1>2. PICK next : next = [r EXCEPT !.movie = TRUE, !.times = times]
  OBVIOUS
<1>3. o = IF r.movie THEN Refusal("duplicate movie", r) ELSE HandleRuns(r, next, runs, 0)
  BY <1>1, <1>2, Zenon DEF HandleMovie
<1>4. CASE r.movie
  <2>1. o = Refusal("duplicate movie", r)
    BY <1>3, <1>4, Zenon
  <2>2. o.reader = r
    BY ONLY <2>1, RefusalIs
  <2> QED BY <2>2 DEF Alike, SameBoxes
<1>5. CASE ~r.movie
  <2>1. o = HandleRuns(r, next, runs, 0)
    BY <1>3, <1>5, Zenon
  <2>2. /\ IsReader(next) /\ next.waiting = r.waiting /\ next.leniencies = r.leniencies
        /\ next.indexes = r.indexes /\ next.identified = r.identified
        /\ next.compressed = r.compressed
    BY <1>2 DEF Held, IsReader
  <2>3. Held(next)
    BY <2>2 DEF Held
  <2>4. Alike(r, next)
    BY <2>2 DEF Alike, SameBoxes
  <2> QED BY <2>1, <2>2, <2>3, <2>4, HandleRunsKeeps
<1> QED BY <1>4, <1>5

LEMMA HandleMovieFragmentKeeps ==
  ASSUME NEW r, Held(r), IsRecord(r.compressed), NEW offset,
         NEW runs, Sequence(runs), \A j \in 1..Len(runs) : Sequence(runs[j].sizes),
         NEW o, o = HandleMovieFragment(r, runs, offset)
  PROVE  /\ Held(o.reader) /\ Alike(r, o.reader)
         /\ o.answer # "ok" => o.reader = r
<1>1. \/ \E word : o = Refusal(word, r)
      \/ \E moof : o = HandleRuns(r, r, runs, moof)
  BY Zenon DEF HandleMovieFragment
<1>2. ASSUME NEW word, o = Refusal(word, r)
      PROVE  Held(o.reader) /\ Alike(r, o.reader) /\ o.reader = r
  <2>1. o.reader = r
    BY ONLY <1>2, RefusalIs
  <2> QED BY <2>1 DEF Alike, SameBoxes
<1>3. Alike(r, r)
  BY DEF Alike, SameBoxes
<1>4. ASSUME NEW moof, o = HandleRuns(r, r, runs, moof)
      PROVE  /\ Held(o.reader) /\ Alike(r, o.reader)
             /\ o.answer # "ok" => o.reader = r
  BY <1>3, <1>4, HandleRunsKeeps
<1> QED BY <1>1, <1>2, <1>4

LEMMA HandleIdentifiedKeeps ==
  ASSUME NEW r, Held(r), IsRecord(r.compressed), NEW id, NEW offset,
         NEW o, o = HandleIdentified(r, id, offset)
  PROVE  /\ Held(o.reader) /\ SameBoxes(r, o.reader) /\ o.reader.indexes = r.indexes
         /\ o.answer # "ok" => o.reader = r
         /\ o.answer = "ok" => DOMAIN o.reader.identified = DOMAIN r.identified \cup {id}
<1>1. PICK payload : payload = Uncompressed(r.compressed.boxes, offset)
  OBVIOUS
<1>2. PICK samples : samples = Where(r.waiting, LAMBDA sample : sample.counts = id)
  OBVIOUS
<1>3. PICK located : located = [k \in DOMAIN samples |-> Located(samples[k], payload)]
  OBVIOUS
<1>4. PICK identified : identified = [j \in DOMAIN r.identified \cup {id} |->
                                IF j = id THEN payload ELSE r.identified[j]]
  OBVIOUS
<1>5. PICK waiting : waiting = StillWaiting(r, id)
  OBVIOUS
<1>6. PICK next : next = [r EXCEPT !.identified = identified, !.waiting = waiting]
  OBVIOUS
<1>7. o = IF id \in DOMAIN r.identified THEN Refusal("duplicate imda", r)
          ELSE IF Cardinality(DOMAIN r.identified) >= IdentifiedCount
          THEN Refusal("past limit", r)
          ELSE Locate(next, located, r)
  BY <1>1, <1>2, <1>3, <1>4, <1>5, <1>6, Zenon DEF HandleIdentified
<1>8. ASSUME NEW word, word # "ok", o = Refusal(word, r)
      PROVE  o.reader = r /\ o.answer # "ok"
  <2>1. o.answer = word /\ o.reader = r
    BY ONLY <1>8, RefusalIs
  <2> QED BY <1>8, <2>1
<1>9. CASE o.reader = r /\ o.answer # "ok"
  BY <1>9 DEF SameBoxes
<1>10. CASE /\ id \notin DOMAIN r.identified
            /\ ~(Cardinality(DOMAIN r.identified) >= IdentifiedCount)
            /\ o = Locate(next, located, r)
  <2>1. /\ IsReader(next) /\ next.waiting = waiting /\ next.leniencies = r.leniencies
        /\ next.indexes = r.indexes /\ next.identified = identified
        /\ next.compressed = r.compressed
    BY <1>6 DEF Held, IsReader
  <2>2. DOMAIN identified = DOMAIN r.identified \cup {id}
    BY <1>4
  <2>3. IsFiniteSet(DOMAIN identified)
        /\ Cardinality(DOMAIN identified) = Cardinality(DOMAIN r.identified) + 1
    BY <1>10, <2>2, FS_AddElement DEF Held
  <2>4. Cardinality(DOMAIN identified) <= IdentifiedCount
    <3>1. Cardinality(DOMAIN r.identified) \in Nat
      BY FS_CardinalityType DEF Held
    <3>2. IdentifiedCount \in Nat
      BY LimitsAssumption
    <3> QED BY <1>10, <2>3, <3>1, <3>2
  <2>5. Sequence(waiting) /\ Len(waiting) <= UnresolvedCount
    <3> DEFINE places == {k \in DOMAIN r.waiting : r.waiting[k].counts # id}
    <3>1. waiting = Picked(r.waiting, places)
      BY <1>5 DEF StillWaiting, Where
    <3>2. places \subseteq DOMAIN r.waiting
      OBVIOUS
    <3> HIDE DEF places
    <3>3. Sequence(r.waiting) /\ Len(r.waiting) \in Nat /\ Len(r.waiting) <= UnresolvedCount
      BY SequenceShape DEF Held
    <3>4. Sequence(waiting) /\ Len(waiting) \in Nat /\ Len(waiting) <= Len(r.waiting)
      <4>1. /\ Sequence(Picked(r.waiting, places))
            /\ Len(Picked(r.waiting, places)) = Cardinality(places)
            /\ Cardinality(places) \in Nat /\ Cardinality(places) <= Len(r.waiting)
        BY <3>2, <3>3, PickedAny
      <4> QED BY <3>1, <4>1
    <3>5. UnresolvedCount \in Nat
      BY LimitsAssumption
    <3> QED BY <3>3, <3>4, <3>5
  <2>6. Held(next)
    BY <2>1, <2>3, <2>4, <2>5 DEF Held
  <2>7. SameBoxes(r, next)
    BY <2>1 DEF SameBoxes
  <2>8. o = Locate(next, located, r)
    BY <1>10
  <2>9. /\ Held(o.reader) /\ SameBoxes(r, o.reader)
        /\ o.answer # "ok" => o.reader = r
        /\ o.answer = "ok" => /\ o.reader.indexes = next.indexes
                              /\ o.reader.identified = next.identified
    BY <2>6, <2>7, <2>8, LocateKeeps
  <2> QED BY <2>1, <2>2, <2>9
<1>11. "duplicate imda" # "ok" /\ "past limit" # "ok"
  OBVIOUS
<1>12. \/ \E word : word # "ok" /\ o = Refusal(word, r)
       \/ /\ id \notin DOMAIN r.identified
          /\ ~(Cardinality(DOMAIN r.identified) >= IdentifiedCount)
          /\ o = Locate(next, located, r)
  BY <1>7, <1>11, Zenon
<1>13. CASE \E word : word # "ok" /\ o = Refusal(word, r)
  <2>1. o.reader = r /\ o.answer # "ok"
    BY <1>8, <1>13
  <2> QED BY <1>9, <2>1
<1> QED BY <1>10, <1>12, <1>13
-------------------------------------------------------------------------------
(* What follows box i, a segment index, as far as it is kept.              *)
IndexOf(boxes, i) ==
  [start |-> Before(boxes, i) + Contents!Length(boxes[i]), subsegments |-> boxes[i].subsegments]

(* The indexes that the boxes `places` declare, each once.                 *)
IndexesOf(indexes, boxes, places) ==
  /\ \A k \in 1..Len(indexes) : \E i \in places : indexes[k] = IndexOf(boxes, i)
  /\ \A i \in places : \E k \in 1..Len(indexes) : indexes[k] = IndexOf(boxes, i)
  /\ \A k, l \in 1..Len(indexes) : k # l => indexes[k] # indexes[l]

(* An index that is among others, or comes behind them, once.              *)
Joined(indexes, index, more) ==
  \/ Contains(indexes, index) /\ more = indexes
  \/ ~Contains(indexes, index) /\ more = Append(indexes, index)

LEMMA HandleSegmentIndexKeeps ==
  ASSUME NEW r, Held(r), IsRecord(r.compressed), NEW index,
         NEW o, o = HandleSegmentIndex(r, index)
  PROVE  /\ Held(o.reader) /\ SameBoxes(r, o.reader) /\ o.reader.identified = r.identified
         /\ o.answer # "ok" => o.reader = r
         /\ o.answer = "ok" => Joined(r.indexes, index, o.reader.indexes)
<1>1. PICK more : more = Append(r.indexes, index)
  OBVIOUS
<1>2. PICK next : next = [r EXCEPT !.indexes = more]
  OBVIOUS
<1>3. "past limit" # "ok"
  OBVIOUS
<1>4. \/ o = Refusal("past limit", r)
      \/ Contains(r.indexes, index) /\ o = Outcome("ok", r, <<>>)
      \/ /\ ~Contains(r.indexes, index) /\ ~(Len(r.indexes) >= SegmentIndexCount)
         /\ o = Outcome("ok", next, <<>>)
  BY <1>1, <1>2, Zenon DEF HandleSegmentIndex
<1>5. CASE o = Refusal("past limit", r)
  <2>1. o.answer = "past limit" /\ o.reader = r
    BY ONLY <1>5, RefusalIs
  <2> QED BY <1>3, <2>1 DEF SameBoxes
<1>6. CASE Contains(r.indexes, index) /\ o = Outcome("ok", r, <<>>)
  <2>1. o.answer = "ok" /\ o.reader = r
    BY ONLY <1>6, OutcomeIs
  <2>2. Joined(r.indexes, index, o.reader.indexes)
    BY <1>6, <2>1 DEF Joined
  <2> QED BY <2>1, <2>2 DEF SameBoxes
<1>7. CASE /\ ~Contains(r.indexes, index) /\ ~(Len(r.indexes) >= SegmentIndexCount)
           /\ o = Outcome("ok", next, <<>>)
  <2>1. o.answer = "ok" /\ o.reader = next
    BY ONLY <1>7, OutcomeIs
  <2>2. /\ IsReader(next) /\ next.waiting = r.waiting /\ next.leniencies = r.leniencies
        /\ next.indexes = more /\ next.identified = r.identified
        /\ next.compressed = r.compressed
    BY <1>2 DEF Held, IsReader
  <2>3. Sequence(more) /\ Len(more) <= SegmentIndexCount
    <3>1. Sequence(r.indexes)
      BY DEF Held
    <3>2. Sequence(more) /\ Len(more) = Len(r.indexes) + 1 /\ Len(r.indexes) \in Nat
      BY <1>1, <3>1, AppendAny
    <3>3. SegmentIndexCount \in Nat
      BY LimitsAssumption
    <3> QED BY <1>7, <3>2, <3>3
  <2>4. Held(next)
    BY <2>2, <2>3 DEF Held
  <2>5. Joined(r.indexes, index, more)
    BY <1>1, <1>7 DEF Joined
  <2> QED BY <2>1, <2>2, <2>4, <2>5 DEF SameBoxes
<1> QED BY <1>4, <1>5, <1>6, <1>7

LEMMA IndexesGrow ==
  ASSUME NEW boxes, NEW places, NEW indexes, Sequence(indexes), IndexesOf(indexes, boxes, places),
         NEW i, NEW more, Joined(indexes, IndexOf(boxes, i), more)
  PROVE  IndexesOf(more, boxes, places \cup {i})
<1>1. PICK index : index = IndexOf(boxes, i)
  OBVIOUS
<1>2. Len(indexes) \in Nat
  BY SequenceShape
<1>3. /\ \A k \in 1..Len(indexes) : \E j \in places : indexes[k] = IndexOf(boxes, j)
      /\ \A j \in places : \E k \in 1..Len(indexes) : indexes[k] = IndexOf(boxes, j)
      /\ \A k, l \in 1..Len(indexes) : k # l => indexes[k] # indexes[l]
  BY DEF IndexesOf
<1>4. CASE Contains(indexes, index) /\ more = indexes
  <2>1. \E k \in 1..Len(indexes) : indexes[k] = index
    BY <1>4 DEF Contains
  <2> QED BY <1>1, <1>3, <1>4, <2>1 DEF IndexesOf
<1>5. CASE ~Contains(indexes, index) /\ more = Append(indexes, index)
  <2>1. \A k \in 1..Len(indexes) : indexes[k] # index
    BY <1>5 DEF Contains
  <2>2. /\ Len(more) = Len(indexes) + 1
        /\ \A k \in 1..Len(indexes) : more[k] = indexes[k]
        /\ more[Len(indexes) + 1] = index
    BY <1>5, AppendAny
  <2>3. \A k \in 1..Len(more) : k \in 1..Len(indexes) \/ k = Len(indexes) + 1
    BY <1>2, <2>2
  <2>4. /\ \A k \in 1..Len(indexes) : k \in 1..Len(more)
        /\ Len(indexes) + 1 \in 1..Len(more)
    BY <1>2, <2>2
  <2>5. \A k \in 1..Len(more) : \E j \in places \cup {i} : more[k] = IndexOf(boxes, j)
    BY <1>1, <1>3, <2>2, <2>3
  <2>6. \A j \in places \cup {i} : \E k \in 1..Len(more) : more[k] = IndexOf(boxes, j)
    BY <1>1, <1>3, <2>2, <2>4
  <2>7. \A k, l \in 1..Len(more) : k # l => more[k] # more[l]
    BY <1>3, <2>1, <2>2, <2>3
  <2> QED BY <2>5, <2>6, <2>7 DEF IndexesOf
<1> QED BY <1>1, <1>4, <1>5 DEF Joined

LEMMA HandleRandomAccessKeeps ==
  ASSUME NEW r, Held(r), IsRecord(r.compressed), NEW o, o = HandleRandomAccess(r)
  PROVE  Held(o.reader) /\ Alike(r, o.reader)
<1>1. PICK next : next = [r EXCEPT !.randomAccess = TRUE]
  OBVIOUS
<1>2. o = Refusal("mfra with compressed", r) \/ o = Outcome("ok", next, <<>>)
  BY <1>1, Zenon DEF HandleRandomAccess
<1>3. o.reader = r \/ o.reader = next
  <2>1. CASE o = Refusal("mfra with compressed", r)
    <3>1. o.answer = "mfra with compressed" /\ o.reader = r
      BY ONLY <2>1, RefusalIs
    <3> QED BY ONLY <3>1
  <2>2. CASE o = Outcome("ok", next, <<>>)
    <3>1. o.answer = "ok" /\ o.reader = next
      BY ONLY <2>2, OutcomeIs
    <3> QED BY ONLY <3>1
  <2> QED BY ONLY <1>2, <2>1, <2>2
<1>4. /\ IsReader(next) /\ next.waiting = r.waiting /\ next.leniencies = r.leniencies
      /\ next.indexes = r.indexes /\ next.identified = r.identified
      /\ next.compressed = r.compressed
  BY <1>1 DEF Held, IsReader
<1>5. Held(next)
  BY <1>4 DEF Held
<1> QED BY <1>3, <1>4, <1>5 DEF Alike, SameBoxes

LEMMA HandleOriginalFileTypeKeeps ==
  ASSUME NEW r, Held(r), IsRecord(r.compressed), NEW o, o = HandleOriginalFileType(r)
  PROVE  Held(o.reader) /\ Alike(r, o.reader)
<1>1. PICK noted : noted = NoteTransformed(r.compressed)
  OBVIOUS
<1>2. IsRecord(noted) /\ noted.boxes = r.compressed.boxes
  BY <1>1 DEF IsRecord, NoteTransformed
<1>3. PICK next : next = [r EXCEPT !.compressed = noted]
  OBVIOUS
<1>4. o = Outcome("ok", next, <<>>)
  BY <1>1, <1>3 DEF HandleOriginalFileType
<1>5. o.reader = next
  BY ONLY <1>4, OutcomeIs
<1>6. /\ IsReader(next) /\ next.waiting = r.waiting /\ next.leniencies = r.leniencies
      /\ next.indexes = r.indexes /\ next.identified = r.identified
      /\ next.compressed = noted
  BY <1>3 DEF Held, IsReader
<1>7. Held(next)
  BY <1>6 DEF Held
<1> QED BY <1>2, <1>5, <1>6, <1>7 DEF Alike, SameBoxes

LEMMA ResumeKeeps ==
  ASSUME NEW r, Held(r), IsRecord(r.compressed)
  PROVE  Held(Resume(r)) /\ Alike(r, Resume(r))
<1>1. PICK resumed : resumed = Resumed(r.compressed)
  OBVIOUS
<1>2. IsRecord(resumed) /\ resumed.boxes = r.compressed.boxes
  BY <1>1 DEF IsRecord, Resumed
<1>3. PICK times : times = [t \in DOMAIN r.times |-> [time |-> None, afterSample |-> FALSE]]
  OBVIOUS
<1>4. PICK next : next = [r EXCEPT !.times = times, !.waiting = <<>>, !.compressed = resumed]
  OBVIOUS
<1>5. Resume(r) = next
  BY <1>1, <1>3, <1>4 DEF Resume
<1>6. /\ IsReader(next) /\ next.waiting = <<>> /\ next.leniencies = r.leniencies
      /\ next.indexes = r.indexes /\ next.identified = r.identified
      /\ next.compressed = resumed
  BY <1>4 DEF Held, IsReader
<1>7. UnresolvedCount \in Nat
  BY LimitsAssumption
<1>8. Sequence(next.waiting) /\ Len(next.waiting) <= UnresolvedCount
  BY <1>6, <1>7, NoElement
<1>9. Held(next)
  BY <1>6, <1>8 DEF Held
<1> QED BY <1>2, <1>5, <1>6, <1>9 DEF Alike, SameBoxes

(* What the call that tells of box i leaves.                               *)
ToldOf(r, boxes, i, o) ==
  /\ Held(o.reader) /\ Keeps(o.reader.compressed, boxes)
  /\ o.reader.indexes = r.indexes /\ o.reader.identified = r.identified
  /\ o.answer = "ok" => Offsets(o.reader.compressed.boxes)
                          = Offsets(r.compressed.boxes) \cup {Before(boxes, i)}

LEMMA HandleCompressedBoxKeeps ==
  ASSUME NEW boxes \in Files, NEW r, Held(r), Keeps(r.compressed, boxes),
         NEW i \in 1..Len(boxes), boxes[i].compressed,
         NEW o, o = HandleCompressedBox(r, boxes, i)
  PROVE  ToldOf(r, boxes, i, o)
<1> SUFFICES /\ Held(o.reader) /\ Keeps(o.reader.compressed, boxes)
             /\ o.reader.indexes = r.indexes /\ o.reader.identified = r.identified
             /\ o.answer = "ok" => Offsets(o.reader.compressed.boxes)
                                   = Offsets(r.compressed.boxes) \cup {Before(boxes, i)}
  BY DEF ToldOf
<1>1. PICK recorded : recorded = Record(r.compressed, Before(boxes, i), Contents!Length(boxes[i]),
                                        Contents!ReadBackLength(boxes[i]))
  OBVIOUS
<1>2. PICK next : next = [r EXCEPT !.compressed = recorded.record]
  OBVIOUS
<1>3. o = IF r.randomAccess THEN Refusal("mfra with compressed", r)
          ELSE Outcome(recorded.answer, next, <<>>)
  BY <1>1, <1>2, Zenon DEF HandleCompressedBox, Before
<1>4. /\ Keeps(recorded.record, boxes)
      /\ recorded.answer = "ok" =>
           Offsets(recorded.record.boxes) = Offsets(r.compressed.boxes) \cup {Before(boxes, i)}
  BY <1>1, RecordKeeps
<1>5. CASE r.randomAccess
  <2>1. o = Refusal("mfra with compressed", r)
    BY <1>3, <1>5, Zenon
  <2>2. o.answer = "mfra with compressed" /\ o.reader = r
    BY ONLY <2>1, RefusalIs
  <2>3. o.answer # "ok"
    BY <2>2
  <2> QED BY <2>2, <2>3
<1>6. CASE ~r.randomAccess
  <2>1. o = Outcome(recorded.answer, next, <<>>)
    BY <1>3, <1>6, Zenon
  <2>2. o.answer = recorded.answer /\ o.reader = next
    BY ONLY <2>1, OutcomeIs
  <2>3. /\ IsReader(next) /\ next.waiting = r.waiting /\ next.leniencies = r.leniencies
        /\ next.indexes = r.indexes /\ next.identified = r.identified
        /\ next.compressed = recorded.record
    BY <1>2 DEF Held, IsReader
  <2>4. Held(next)
    BY <2>3 DEF Held
  <2> QED BY <1>4, <2>2, <2>3, <2>4
<1> QED BY <1>5, <1>6
-------------------------------------------------------------------------------
(* What the call that takes box i leaves.                                  *)
Takes(r, boxes, i, o) ==
  /\ Held(o.reader) /\ SameBoxes(r, o.reader)
  /\ o.answer = "ok" =>
       /\ IF boxes[i].kind = "index"
          THEN Joined(r.indexes, IndexOf(boxes, i), o.reader.indexes)
          ELSE o.reader.indexes = r.indexes
       /\ DOMAIN o.reader.identified =
            IF boxes[i].kind = "identified"
            THEN DOMAIN r.identified \cup {boxes[i].id} ELSE DOMAIN r.identified

LEMMA TakenAlike ==
  ASSUME NEW r, NEW boxes, NEW i, NEW o, Held(o.reader), Alike(r, o.reader),
         boxes[i].kind # "index", boxes[i].kind # "identified"
  PROVE  Takes(r, boxes, i, o)
BY DEF Takes, Alike

LEMMA HandleBoxKeeps ==
  ASSUME NEW boxes \in Files, NEW r, Held(r), IsRecord(r.compressed),
         NEW i \in 1..Len(boxes), NEW o, o = HandleBox(r, boxes, i)
  PROVE  Takes(r, boxes, i, o)
<1>1. PICK kind, begin, runs :
        kind = boxes[i].kind /\ begin = Before(boxes, i) /\ runs = Contents!Declares(boxes, i)
  OBVIOUS
<1>2. kind \in Contents!Kind
  <2>1. boxes[i] \in Contents!FileBox
    BY FileIs
  <2> QED BY <1>1, <2>1 DEF Contents!FileBox
<1>3. Sequence(runs) /\ \A j \in 1..Len(runs) : Sequence(runs[j].sizes)
  BY <1>1, DeclaresAre
<1>4. PICK index : index = IndexOf(boxes, i)
  OBVIOUS
<1>5. o = CASE kind = "movie" -> HandleMovie(r, boxes[i].tracks, runs)
            [] kind = "fragment" -> HandleMovieFragment(r, runs, begin)
            [] kind = "identified" -> HandleIdentified(r, boxes[i].id, begin + 1)
            [] kind = "index" -> HandleSegmentIndex(r, index)
            [] kind = "random access" -> HandleRandomAccess(r)
            [] kind = "original type" -> HandleOriginalFileType(r)
            [] OTHER -> Outcome("ok", r, <<>>)
  BY <1>1, <1>4 DEF HandleBox, Before, IndexOf
<1>6. CASE kind = "movie"
  <2>1. o = HandleMovie(r, boxes[i].tracks, runs)
    BY <1>5, <1>6
  <2>2. Held(o.reader) /\ Alike(r, o.reader)
    BY <1>3, <2>1, HandleMovieKeeps
  <2>3. kind # "index" /\ kind # "identified"
    BY <1>6
  <2> QED BY <1>1, <2>2, <2>3, TakenAlike
<1>7. CASE kind = "fragment"
  <2>1. o = HandleMovieFragment(r, runs, begin)
    BY <1>5, <1>7
  <2>2. Held(o.reader) /\ Alike(r, o.reader)
    BY <1>3, <2>1, HandleMovieFragmentKeeps
  <2>3. kind # "index" /\ kind # "identified"
    BY <1>7
  <2> QED BY <1>1, <2>2, <2>3, TakenAlike
<1>8. CASE kind = "identified"
  <2>1. o = HandleIdentified(r, boxes[i].id, begin + 1)
    BY <1>5, <1>8
  <2>2. /\ Held(o.reader) /\ SameBoxes(r, o.reader) /\ o.reader.indexes = r.indexes
        /\ o.answer = "ok" => DOMAIN o.reader.identified = DOMAIN r.identified \cup {boxes[i].id}
    BY <2>1, HandleIdentifiedKeeps
  <2>3. kind # "index"
    BY <1>8
  <2> QED BY <1>1, <1>8, <2>2, <2>3 DEF Takes
<1>9. CASE kind = "index"
  <2>1. o = HandleSegmentIndex(r, index)
    BY <1>5, <1>9
  <2>2. /\ Held(o.reader) /\ SameBoxes(r, o.reader) /\ o.reader.identified = r.identified
        /\ o.answer = "ok" => Joined(r.indexes, index, o.reader.indexes)
    BY <2>1, HandleSegmentIndexKeeps
  <2>3. kind # "identified"
    BY <1>9
  <2> QED BY <1>1, <1>4, <1>9, <2>2, <2>3 DEF Takes
<1>10. CASE kind = "random access"
  <2>1. o = HandleRandomAccess(r)
    BY <1>5, <1>10
  <2>2. Held(o.reader) /\ Alike(r, o.reader)
    BY <2>1, HandleRandomAccessKeeps
  <2>3. kind # "index" /\ kind # "identified"
    BY <1>10
  <2> QED BY <1>1, <2>2, <2>3, TakenAlike
<1>11. CASE kind = "original type"
  <2>1. o = HandleOriginalFileType(r)
    BY <1>5, <1>11
  <2>2. Held(o.reader) /\ Alike(r, o.reader)
    BY <2>1, HandleOriginalFileTypeKeeps
  <2>3. kind # "index" /\ kind # "identified"
    BY <1>11
  <2> QED BY <1>1, <2>2, <2>3, TakenAlike
<1>12. CASE kind = "media" \/ kind = "other"
  <2>1. o = Outcome("ok", r, <<>>)
    BY <1>5, <1>12
  <2>2. o.reader = r
    BY ONLY <2>1, OutcomeIs
  <2>3. Held(o.reader) /\ Alike(r, o.reader)
    BY <2>2 DEF Alike, SameBoxes
  <2>4. kind # "index" /\ kind # "identified"
    BY <1>12
  <2> QED BY <1>1, <2>3, <2>4, TakenAlike
<1> QED BY <1>2, <1>6, <1>7, <1>8, <1>9, <1>10, <1>11, <1>12 DEF Contents!Kind
-------------------------------------------------------------------------------
(* THE INVARIANT                                                           *)

Of(boxes, places, kind) == {i \in places : boxes[i].kind = kind}
StartsOf(boxes, places) == {Before(boxes, i) : i \in {n \in places : boxes[n].compressed}}
IdsOf(boxes, places) == {boxes[i].id : i \in places}

(* Until a call is refused, the reader has each index and imda that it was *)
(* handed, and each compressed box it was told of.                         *)
HasMet ==
  /\ IndexesOf(reader.indexes, file, Of(file, handed, "index"))
  /\ DOMAIN reader.identified = IdsOf(file, Of(file, handed, "identified"))
  /\ Offsets(reader.compressed.boxes) = StartsOf(file, met)

IInv ==
  /\ file \in Files
  /\ at \in 1..Len(file) + 1
  /\ handed \subseteq 1..Len(file)
  /\ met \subseteq 1..Len(file)
  /\ told => at \in met
  /\ Held(reader)
  /\ Keeps(reader.compressed, file)
  /\ answer = "ok" => HasMet

LEMMA InitHolds ==
  Init => IInv
<1> SUFFICES ASSUME Init PROVE IInv
  OBVIOUS
<1>1. /\ file \in Files /\ at = 1 /\ told = FALSE /\ reader = NewReader /\ handed = {} /\ met = {}
  BY DEF Init
<1>2. Len(file) \in Nat
  BY <1>1, FileIs
<1>3. /\ IsReader(reader) /\ reader.waiting = <<>> /\ reader.leniencies = <<>>
      /\ reader.indexes = <<>> /\ DOMAIN reader.identified = {}
      /\ IsRecord(reader.compressed) /\ reader.compressed.boxes = <<>>
  BY <1>1 DEF NewReader, IsReader, IsRecord, NoCompressedBox
<1>4. {LeniencyCount, IdentifiedCount, UnresolvedCount, SegmentIndexCount, CompressedBoxCount}
        \subseteq Nat
  BY LimitsAssumption
<1>5. Held(reader)
  BY <1>3, <1>4, NoElement, FS_EmptySet DEF Held
<1>6. Keeps(reader.compressed, file)
  <2>1. PICK none : none = reader.compressed.boxes
    OBVIOUS
  <2>2. Sequence(none) /\ Len(none) = 0
    BY <1>3, <2>1, NoElement
  <2>3. Recorded(none, file)
    BY <2>2 DEF Recorded, InOrder
  <2> QED BY <1>3, <1>4, <2>1, <2>2, <2>3 DEF Keeps
<1>7. HasMet
  <2>1. Of(file, handed, "index") = {} /\ Of(file, handed, "identified") = {}
    BY <1>1 DEF Of
  <2>2. IndexesOf(reader.indexes, file, {})
    <3>1. Len(reader.indexes) = 0
      BY <1>3, NoElement
    <3> QED BY <3>1 DEF IndexesOf
  <2>3. IdsOf(file, {}) = {}
    BY DEF IdsOf
  <2>4. Offsets(reader.compressed.boxes) = {} /\ StartsOf(file, met) = {}
    BY <1>1, <1>3 DEF Offsets, StartsOf
  <2> QED BY <1>3, <2>1, <2>2, <2>3, <2>4 DEF HasMet
<1>8. at \in 1..Len(file) + 1
  BY <1>1, <1>2
<1> QED BY <1>1, <1>5, <1>6, <1>7, <1>8 DEF IInv

LEMMA TellKeeps ==
  IInv /\ Tell => IInv'
<1> SUFFICES ASSUME IInv, Tell PROVE IInv'
  OBVIOUS
<1>1. /\ answer = "ok" /\ at <= Len(file) /\ file[at].compressed
      /\ reader' = HandleCompressedBox(reader, file, at).reader
      /\ answer' = HandleCompressedBox(reader, file, at).answer
      /\ met' = met \cup {at}
      /\ file' = file /\ at' = at /\ handed' = handed
  BY DEF Tell, CanRead, Answer
<1>2. /\ file \in Files /\ at \in 1..Len(file) + 1 /\ handed \subseteq 1..Len(file)
      /\ met \subseteq 1..Len(file)
      /\ Held(reader) /\ Keeps(reader.compressed, file) /\ HasMet
  BY <1>1 DEF IInv
<1>3. at \in 1..Len(file)
  BY <1>1, <1>2, FileIs
<1>4. PICK o : o = HandleCompressedBox(reader, file, at)
  OBVIOUS
<1>5. /\ Held(o.reader) /\ Keeps(o.reader.compressed, file)
      /\ o.reader.indexes = reader.indexes /\ o.reader.identified = reader.identified
      /\ o.answer = "ok" => Offsets(o.reader.compressed.boxes)
                              = Offsets(reader.compressed.boxes) \cup {Before(file, at)}
  <2>1. ToldOf(reader, file, at, o)
    BY <1>1, <1>2, <1>3, <1>4, HandleCompressedBoxKeeps
  <2> QED BY <2>1 DEF ToldOf
<1>6. reader' = o.reader /\ answer' = o.answer
  BY <1>1, <1>4
<1>7. Held(reader') /\ Keeps(reader'.compressed, file')
  BY <1>1, <1>5, <1>6
<1>8. answer' = "ok" => HasMet'
  <2> SUFFICES ASSUME answer' = "ok" PROVE HasMet'
    OBVIOUS
  <2>1. Offsets(reader'.compressed.boxes) = Offsets(reader.compressed.boxes) \cup {Before(file, at)}
    BY <1>5, <1>6
  <2>2. StartsOf(file, met \cup {at}) = StartsOf(file, met) \cup {Before(file, at)}
    BY <1>1 DEF StartsOf
  <2>3. Offsets(reader'.compressed.boxes) = StartsOf(file', met')
    BY <1>1, <1>2, <2>1, <2>2 DEF HasMet
  <2>4. IndexesOf(reader'.indexes, file', Of(file', handed', "index"))
    BY <1>1, <1>2, <1>5, <1>6 DEF HasMet
  <2>5. DOMAIN reader'.identified = IdsOf(file', Of(file', handed', "identified"))
    BY <1>1, <1>2, <1>5, <1>6 DEF HasMet
  <2> QED BY <2>3, <2>4, <2>5 DEF HasMet
<1>9. /\ file' \in Files /\ at' \in 1..Len(file') + 1 /\ handed' \subseteq 1..Len(file')
      /\ met' \subseteq 1..Len(file') /\ at' \in met'
  BY <1>1, <1>2, <1>3
<1> QED BY <1>7, <1>8, <1>9 DEF IInv

LEMMA ReadKeeps ==
  IInv /\ Read => IInv'
<1> SUFFICES ASSUME IInv, Read PROVE IInv'
  OBVIOUS
<1>1. /\ answer = "ok" /\ at <= Len(file)
      /\ told \/ ~file[at].compressed
      /\ reader' = HandleBox(reader, file, at).reader
      /\ answer' = HandleBox(reader, file, at).answer
      /\ at' = at + 1 /\ told' = FALSE /\ handed' = handed \cup {at} /\ met' = met \cup {at}
      /\ file' = file
  BY DEF Read, CanRead, Answer
<1>2. /\ file \in Files /\ at \in 1..Len(file) + 1 /\ handed \subseteq 1..Len(file)
      /\ met \subseteq 1..Len(file)
      /\ told => at \in met
      /\ Held(reader) /\ Keeps(reader.compressed, file) /\ HasMet
  BY <1>1 DEF IInv
<1>3. at \in 1..Len(file) /\ Len(file) \in Nat
  BY <1>1, <1>2, FileIs
<1>4. PICK o : o = HandleBox(reader, file, at)
  OBVIOUS
<1>5. Takes(reader, file, at, o)
  <2>1. IsRecord(reader.compressed)
    BY <1>2 DEF Keeps
  <2> QED BY <1>2, <1>3, <1>4, <2>1, HandleBoxKeeps
<1>6. reader' = o.reader /\ answer' = o.answer
  BY <1>1, <1>4
<1>7. Held(reader') /\ IsRecord(reader'.compressed)
      /\ reader'.compressed.boxes = reader.compressed.boxes
  BY <1>5, <1>6 DEF Takes, SameBoxes
<1>8. Keeps(reader'.compressed, file')
  BY <1>1, <1>2, <1>7 DEF Keeps
<1>9. answer' = "ok" => HasMet'
  <2> SUFFICES ASSUME answer' = "ok" PROVE HasMet'
    OBVIOUS
  <2>1. StartsOf(file', met') = StartsOf(file, met)
    <3>1. CASE told
      <4>1. met' = met
        BY <1>1, <1>2, <3>1
      <4> QED BY <1>1, <4>1
    <3>2. CASE ~file[at].compressed
      <4>1. {n \in met \cup {at} : file[n].compressed} = {n \in met : file[n].compressed}
        BY <3>2
      <4> QED BY <1>1, <4>1 DEF StartsOf
    <3> QED BY <1>1, <3>1, <3>2
  <2>2. Offsets(reader'.compressed.boxes) = StartsOf(file', met')
    BY <1>2, <1>7, <2>1 DEF HasMet
  <2>3. IndexesOf(reader'.indexes, file', Of(file', handed', "index"))
    <3>1. CASE file[at].kind = "index"
      <4>1. Joined(reader.indexes, IndexOf(file, at), reader'.indexes)
        BY <1>5, <1>6, <3>1 DEF Takes
      <4>2. Of(file', handed', "index") = Of(file, handed, "index") \cup {at}
        BY <1>1, <3>1 DEF Of
      <4>3. Sequence(reader.indexes) /\ IndexesOf(reader.indexes, file, Of(file, handed, "index"))
        BY <1>2 DEF Held, HasMet
      <4>4. IndexesOf(reader'.indexes, file, Of(file, handed, "index") \cup {at})
        BY <4>1, <4>3, IndexesGrow
      <4> QED BY <1>1, <4>2, <4>4
    <3>2. CASE file[at].kind # "index"
      <4>1. reader'.indexes = reader.indexes
        BY <1>5, <1>6, <3>2 DEF Takes
      <4>2. Of(file', handed', "index") = Of(file, handed, "index")
        BY <1>1, <3>2 DEF Of
      <4> QED BY <1>1, <1>2, <4>1, <4>2 DEF HasMet
    <3> QED BY <3>1, <3>2
  <2>4. DOMAIN reader'.identified = IdsOf(file', Of(file', handed', "identified"))
    <3>1. CASE file[at].kind = "identified"
      <4>1. DOMAIN reader'.identified = DOMAIN reader.identified \cup {file[at].id}
        BY <1>5, <1>6, <3>1 DEF Takes
      <4>2. Of(file', handed', "identified") = Of(file, handed, "identified") \cup {at}
        BY <1>1, <3>1 DEF Of
      <4>3. IdsOf(file, Of(file, handed, "identified") \cup {at})
              = IdsOf(file, Of(file, handed, "identified")) \cup {file[at].id}
        BY DEF IdsOf
      <4> QED BY <1>1, <1>2, <4>1, <4>2, <4>3 DEF HasMet
    <3>2. CASE file[at].kind # "identified"
      <4>1. DOMAIN reader'.identified = DOMAIN reader.identified
        BY <1>5, <1>6, <3>2 DEF Takes
      <4>2. Of(file', handed', "identified") = Of(file, handed, "identified")
        BY <1>1, <3>2 DEF Of
      <4> QED BY <1>1, <1>2, <4>1, <4>2 DEF HasMet
    <3> QED BY <3>1, <3>2
  <2> QED BY <2>2, <2>3, <2>4 DEF HasMet
<1>10. /\ file' \in Files /\ at' \in 1..Len(file') + 1 /\ handed' \subseteq 1..Len(file')
       /\ met' \subseteq 1..Len(file')
  BY <1>1, <1>2, <1>3
<1> QED BY <1>1, <1>7, <1>8, <1>9, <1>10 DEF IInv

LEMMA ResumeAtKeeps ==
  ASSUME NEW i \in 1..Len(file)
  PROVE  IInv /\ ResumeAt(i) => IInv'
<1> SUFFICES ASSUME IInv, ResumeAt(i) PROVE IInv'
  OBVIOUS
<1>1. /\ reader' = Resume(reader) /\ at' = i /\ told' = FALSE
      /\ file' = file /\ answer' = answer /\ handed' = handed /\ met' = met
  BY DEF ResumeAt
<1>2. /\ file \in Files /\ handed \subseteq 1..Len(file) /\ met \subseteq 1..Len(file)
      /\ Held(reader) /\ Keeps(reader.compressed, file)
      /\ answer = "ok" => HasMet
  BY DEF IInv
<1>3. Held(reader') /\ Alike(reader, reader')
  <2>1. IsRecord(reader.compressed)
    BY <1>2 DEF Keeps
  <2> QED BY <1>1, <1>2, <2>1, ResumeKeeps
<1>4. /\ IsRecord(reader'.compressed) /\ reader'.compressed.boxes = reader.compressed.boxes
      /\ reader'.indexes = reader.indexes /\ reader'.identified = reader.identified
  BY <1>3 DEF Alike, SameBoxes
<1>5. Keeps(reader'.compressed, file')
  BY <1>1, <1>2, <1>4 DEF Keeps
<1>6. answer' = "ok" => HasMet'
  BY <1>1, <1>2, <1>4 DEF HasMet
<1>7. at' \in 1..Len(file') + 1
  BY <1>1, <1>2, FileIs
<1> QED BY <1>1, <1>2, <1>3, <1>5, <1>6, <1>7 DEF IInv

LEMMA StepKeeps ==
  IInv /\ [Next]_vars => IInv'
<1> SUFFICES ASSUME IInv, [Next]_vars PROVE IInv'
  OBVIOUS
<1>1. CASE Tell
  BY <1>1, TellKeeps
<1>2. CASE Read
  BY <1>2, ReadKeeps
<1>3. ASSUME NEW i \in 1..Len(file), ResumeAt(i) PROVE IInv'
  BY <1>3, ResumeAtKeeps
<1>4. CASE UNCHANGED vars
  BY <1>4 DEF vars, IInv, HasMet
<1> QED BY <1>1, <1>2, <1>3, <1>4 DEF Next

(* Through every call and seek, the boxes recorded lie in the file in      *)
(* order, each placed from the one before it (record of CompressedBoxes),  *)
(* and what the reader keeps is what it was handed, within its limits.     *)
THEOREM InvariantHolds ==
  Spec => []IInv
BY InitHolds, StepKeeps, PTL DEF Spec
-------------------------------------------------------------------------------
(* THE PROPERTIES                                                          *)

LEMMA InvInverts ==
  IInv => PlacesInvert
<1> SUFFICES ASSUME IInv PROVE PlacesInvert
  OBVIOUS
<1>1. PICK boxes, kept : boxes = file /\ kept = reader.compressed.boxes
  OBVIOUS
<1>2. boxes \in Files /\ Recorded(kept, boxes)
  BY <1>1 DEF IInv, Keeps
<1>3. PICK reach : reach = Before(boxes, Len(boxes) + 1)
  OBVIOUS
<1> DEFINE outside == {p \in 0..reach : \A k \in DOMAIN kept : p \notin kept[k].offset..EndOf(kept[k]) - 1}
<1>4. ASSUME NEW p \in outside
      PROVE  /\ p \in Nat /\ p <= Before(boxes, Len(boxes) + 1)
             /\ \A k \in DOMAIN kept : p \notin kept[k].offset..EndOf(kept[k]) - 1
  <2>1. reach \in Nat
    <3>1. Len(boxes) \in Nat
      BY <1>2, FileIs
    <3>2. Len(boxes) + 1 \in 1..Len(boxes) + 1
      BY <3>1
    <3> QED BY <1>2, <1>3, <3>2, FileIs
  <2> QED BY <1>3, <1>4, <2>1
<1> HIDE DEF outside
<1>5. ASSUME NEW p \in outside
      PROVE  InFile(kept, [start |-> Uncompressed(kept, p),
                           end |-> Uncompressed(kept, p) + 1]).start = p
  BY <1>2, <1>4, RecordedInverts
<1>6. ASSUME NEW p \in outside, NEW q \in outside, p < q
      PROVE  Uncompressed(kept, p) < Uncompressed(kept, q)
  BY <1>2, <1>4, <1>6, RecordedAscends
<1>7. Contents!LengthBefore(file, Len(file) + 1) = reach
  BY <1>1, <1>3 DEF Before
<1> QED BY <1>1, <1>5, <1>6, <1>7 DEF PlacesInvert, outside

LEMMA InvWithin ==
  IInv => WithinLimits
BY DEF IInv, Held, Keeps, WithinLimits

LEMMA InvIndexes ==
  ASSUME NEW boxes \in Files, NEW places, places \subseteq 1..Len(boxes),
         NEW indexes, Sequence(indexes), IndexesOf(indexes, boxes, places)
  PROVE  /\ {indexes[k].start : k \in DOMAIN indexes} = {Before(boxes, i + 1) : i \in places}
         /\ Len(indexes) = Cardinality({Before(boxes, i + 1) : i \in places})
<1>1. Len(indexes) \in Nat /\ DOMAIN indexes = 1..Len(indexes)
  BY SequenceShape
<1>2. /\ \A k \in 1..Len(indexes) : \E i \in places : indexes[k] = IndexOf(boxes, i)
      /\ \A i \in places : \E k \in 1..Len(indexes) : indexes[k] = IndexOf(boxes, i)
      /\ \A k, l \in 1..Len(indexes) : k # l => indexes[k] # indexes[l]
  BY DEF IndexesOf
<1>3. boxes \in Seq(Contents!FileBox) /\ Len(boxes) \in Nat
  BY FileIs
<1>4. ASSUME NEW i \in places PROVE IndexOf(boxes, i).start = Before(boxes, i + 1)
  BY <1>3, BeforeIs DEF IndexOf
<1>5. ASSUME NEW i \in places, NEW j \in places, i < j
      PROVE  Before(boxes, i + 1) # Before(boxes, j + 1)
  <2>1. i \in 1..Len(boxes) /\ j \in 1..Len(boxes)
    OBVIOUS
  <2>2. i + 1 \in 1..Len(boxes) + 1 /\ j + 1 \in 1..Len(boxes) + 1 /\ i + 1 <= j + 1 /\ i + 1 # j + 1
    BY <1>3, <1>5, <2>1
  <2>3. Before(boxes, i + 1) < Before(boxes, j + 1)
    BY <1>3, <2>2, BeforeGrows
  <2>4. Before(boxes, i + 1) \in Nat
    BY <1>3, <2>2, BeforeIs
  <2> QED BY <2>3, <2>4
<1> DEFINE starts == {Before(boxes, i + 1) : i \in places}
<1>6. ASSUME NEW k \in 1..Len(indexes) PROVE indexes[k].start \in starts
  <2>1. PICK i \in places : indexes[k] = IndexOf(boxes, i)
    BY <1>2
  <2> QED BY <1>4, <2>1
<1>7. ASSUME NEW i \in places PROVE \E k \in 1..Len(indexes) : indexes[k].start = Before(boxes, i + 1)
  <2>1. PICK k \in 1..Len(indexes) : indexes[k] = IndexOf(boxes, i)
    BY <1>2
  <2> QED BY <1>4, <2>1
<1>8. ASSUME NEW k \in 1..Len(indexes), NEW l \in 1..Len(indexes), k # l
      PROVE  indexes[k].start # indexes[l].start
  <2>1. PICK i \in places : indexes[k] = IndexOf(boxes, i)
    BY <1>2
  <2>2. PICK j \in places : indexes[l] = IndexOf(boxes, j)
    BY <1>2
  <2>3. i # j
    BY <1>2, <1>8, <2>1, <2>2
  <2>4. i \in Int /\ j \in Int
    BY <1>3
  <2>5. i < j \/ j < i
    BY <2>3, <2>4
  <2> QED BY <1>4, <1>5, <2>1, <2>2, <2>5
<1>9. {indexes[k].start : k \in DOMAIN indexes} = starts
  <2>1. \A s : s \in {indexes[k].start : k \in DOMAIN indexes} <=> s \in starts
    BY <1>1, <1>6, <1>7
  <2> QED BY <2>1, Zenon
<1>10. Cardinality(starts) = Len(indexes)
  <2> DEFINE f == [k \in 1..Len(indexes) |-> indexes[k].start]
  <2>1. f \in [1..Len(indexes) -> starts]
    BY <1>6
  <2>2. f \in Bijection(1..Len(indexes), starts)
    <3>1. \A k, l \in 1..Len(indexes) : f[k] = f[l] => k = l
      BY <1>8
    <3>2. \A s \in starts : \E k \in 1..Len(indexes) : f[k] = s
      BY <1>7
    <3> HIDE DEF f, starts
    <3>3. f \in Injection(1..Len(indexes), starts)
      BY <2>1, <3>1 DEF Injection, IsInjective
    <3>4. f \in Surjection(1..Len(indexes), starts)
      BY <2>1, <3>2 DEF Surjection
    <3> QED BY <3>3, <3>4 DEF Bijection
  <2> HIDE DEF f, starts
  <2>3. ExistsBijection(1..Len(indexes), starts)
    BY <2>2 DEF ExistsBijection
  <2> QED BY <1>1, <2>3, FS_CountingElements
<1> QED BY <1>9, <1>10

LEMMA InvKeeps ==
  IInv => KeepsWhatItMet
<1> SUFFICES ASSUME IInv PROVE KeepsWhatItMet
  OBVIOUS
<1>1. PICK boxes, kept : boxes = file /\ kept = reader.compressed.boxes
  OBVIOUS
<1>2. /\ boxes \in Files /\ Held(reader) /\ Recorded(kept, boxes)
      /\ handed \subseteq 1..Len(boxes)
      /\ answer = "ok" => HasMet
  BY <1>1 DEF IInv, Keeps
<1>3. \A k, l \in DOMAIN kept : k < l => kept[k].offset < kept[l].offset
  <2>1. /\ Sequence(kept)
        /\ \A k, l \in 1..Len(kept) : k < l => kept[k].offset < kept[l].offset
    BY <1>2 DEF Recorded, InOrder
  <2> QED BY <2>1, SequenceShape
<1>4. ASSUME answer = "ok"
      PROVE  /\ {reader.indexes[k].start : k \in DOMAIN reader.indexes}
                  = {BoxStart(i + 1) : i \in {i \in handed : file[i].kind = "index"}}
             /\ Len(reader.indexes)
                  = Cardinality({BoxStart(i + 1) : i \in {i \in handed : file[i].kind = "index"}})
             /\ DOMAIN reader.identified = {file[i].id : i \in {i \in handed : file[i].kind = "identified"}}
             /\ {kept[k].offset : k \in DOMAIN kept}
                  = {BoxStart(i) : i \in {n \in met : file[n].compressed}}
  <2>1. HasMet
    BY <1>2, <1>4
  <2>2. PICK places : places = {i \in handed : boxes[i].kind = "index"}
    OBVIOUS
  <2>3. places \subseteq 1..Len(boxes) /\ IndexesOf(reader.indexes, boxes, places)
    BY <1>1, <1>2, <2>1, <2>2 DEF HasMet, Of
  <2>4. /\ {reader.indexes[k].start : k \in DOMAIN reader.indexes}
             = {Before(boxes, i + 1) : i \in places}
        /\ Len(reader.indexes) = Cardinality({Before(boxes, i + 1) : i \in places})
    BY <1>2, <2>3, InvIndexes DEF Held
  <2>5. {BoxStart(i + 1) : i \in {i \in handed : file[i].kind = "index"}}
          = {Before(boxes, i + 1) : i \in places}
    BY <1>1, <2>2 DEF BoxStart, Before
  <2>6. DOMAIN reader.identified = {file[i].id : i \in {i \in handed : file[i].kind = "identified"}}
    BY <2>1 DEF HasMet, IdsOf, Of
  <2>7. {kept[k].offset : k \in DOMAIN kept} = {BoxStart(i) : i \in {n \in met : file[n].compressed}}
    BY <1>1, <2>1 DEF HasMet, Offsets, StartsOf, BoxStart, Before
  <2> QED BY <2>4, <2>5, <2>6, <2>7
<1>5. WithinLimits
  BY InvWithin
<1> QED BY <1>1, <1>3, <1>4, <1>5 DEF KeepsWhatItMet

(* Whatever compressed boxes the reader is told of, in whatever order and  *)
(* through whatever seeks, the file and the file as it reads back name the *)
(* same bytes between them, one for one and in order (uncompressed and     *)
(* in_file of CompressedBoxes, with every box placed again by record).     *)
THEOREM PlacesInvertHolds ==
  Spec => []PlacesInvert
BY InvariantHolds, InvInverts, PTL

(* The reader keeps within its limits, over every seek, each segment index *)
(* and imda it was handed and each compressed box it was told of, once and *)
(* as they lie (handle_segment_index, handle_identified_media_data, record *)
(* and resume).                                                            *)
THEOREM KeepsWhatItMetHolds ==
  Spec => []KeepsWhatItMet
BY InvariantHolds, InvKeeps, PTL
===============================================================================
