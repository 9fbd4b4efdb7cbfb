----------------------------- MODULE FastStartProofs ----------------------------
(***************************************************************************)
(* What a FastStart does with the bytes of a file, of any boxes and cut in *)
(* any way: each comes out once, in the order of the documentation, but    *)
(* for those of a moov that is laid out again; an offset leads to the byte *)
(* it named before; and what is refused is refused for a cause.  The       *)
(* invariant: what has passed through, and what is still to come of the    *)
(* pieces, are together all that the plan of the output chooses, and the   *)
(* tables of the moov are as the layout moved them; beside it, that what   *)
(* was laid out has boxes that call for no failure.                        *)
(***************************************************************************)
EXTENDS FastStart, SequenceLemmas

(* SEQUENCES JOINED ONE BEHIND THE OTHER                                   *)

LEMMA FlattenEmpty ==
  FlattenSeq(<<>>) = <<>>
BY DEF FlattenSeq

LEMMA FlattenType ==
  ASSUME NEW S, NEW seqs \in Seq(Seq(S))
  PROVE  FlattenSeq(seqs) \in Seq(S)
<1>1. CASE seqs = <<>>
  <2>1. <<>> \in Seq(S)
    OBVIOUS
  <2> QED BY <1>1, <2>1, FlattenEmpty
<1>2. CASE seqs # <<>>
  <2>1. PICK f \in [1..Len(seqs) -> Seq(S)] : FlattenSeq(seqs) = f[Len(seqs)]
    BY <1>2, FlattenSteps
  <2>2. Len(seqs) \in 1..Len(seqs)
    BY <1>2
  <2>3. f[Len(seqs)] \in Seq(S)
    BY <2>2
  <2> QED BY <2>1, <2>3
<1> QED BY <1>1, <1>2

LEMMA FlattenAppend ==
  ASSUME NEW S, NEW seqs \in Seq(Seq(S)), NEW e \in Seq(S)
  PROVE  FlattenSeq(Append(seqs, e)) = FlattenSeq(seqs) \o e
<1> DEFINE n == Len(seqs)
           more == Append(seqs, e)
<1>1. /\ n \in Nat /\ more \in Seq(Seq(S)) /\ more # <<>> /\ Len(more) = n + 1
      /\ more[n + 1] = e /\ \A i \in 1..n : more[i] = seqs[i]
  <2>1. n \in Nat /\ more \in Seq(Seq(S)) /\ Len(more) = n + 1
    OBVIOUS
  <2>2. more[n + 1] = e
    OBVIOUS
  <2>3. \A i \in 1..n : more[i] = seqs[i]
    OBVIOUS
  <2>4. more # <<>>
    BY <2>1, EmptySeq
  <2> QED BY <2>1, <2>2, <2>3, <2>4
<1>2. PICK g \in [1..Len(more) -> Seq(S)] : Joins(more, g, Len(more)) /\ FlattenSeq(more) = g[Len(more)]
  <2> HIDE DEF more
  <2> QED BY <1>1, FlattenSteps
<1> HIDE DEF more
<1>3. CASE seqs = <<>>
  <2>1. n = 0
    BY <1>3
  <2>2. g[1] = e
    BY <1>1, <1>2, <2>1 DEF Joins
  <2>3. <<>> \o e = e
    OBVIOUS
  <2> QED BY <1>1, <1>2, <1>3, <2>1, <2>2, <2>3, FlattenEmpty DEF more
<1>4. CASE seqs # <<>>
  <2>1. PICK f \in [1..n -> Seq(S)] : Joins(seqs, f, n) /\ FlattenSeq(seqs) = f[n]
    BY <1>4, FlattenSteps
  <2>2. Joins(seqs, g, n)
    <3>1. \A i \in 1..n : i \in 1..Len(more)
      BY <1>1
    <3>2. \A i \in 1..n : g[i] = IF i = 1 THEN more[i] ELSE g[i - 1] \o more[i]
      BY ONLY <1>2, <3>1 DEF Joins
    <3> QED BY ONLY <1>1, <3>2 DEF Joins
  <2>3. n \in 1..n /\ n # 0
    BY <1>4
  <2>4. g[n] = f[n]
    BY <1>1, <2>1, <2>2, <2>3, JoinsUnique
  <2>5. n + 1 \in 1..Len(more) /\ n + 1 # 1 /\ n + 1 - 1 = n
    BY <1>1, <2>3
  <2>6. g[n + 1] = g[n] \o e
    <3>1. n \in Nat /\ Len(more) \in Nat
      BY <1>1
    <3>2. g[n + 1] = g[n] \o more[n + 1]
      BY <1>2, <2>3, <2>5, <3>1, JoinsSteps
    <3> QED BY <1>1, <3>2
  <2> QED BY <1>1, <1>2, <2>1, <2>4, <2>6 DEF more
<1> QED BY <1>3, <1>4

LEMMA FlattenFront ==
  ASSUME NEW S, NEW seqs \in Seq(Seq(S)), NEW n \in Nat, n + 1 <= Len(seqs)
  PROVE  /\ FlattenSeq(SubSeq(seqs, 1, n + 1)) = FlattenSeq(SubSeq(seqs, 1, n)) \o seqs[n + 1]
         /\ SubSeq(seqs, 1, n) \in Seq(Seq(S))
<1>1. /\ SubSeq(seqs, 1, n) \in Seq(Seq(S)) /\ seqs[n + 1] \in Seq(S)
      /\ SubSeq(seqs, 1, n + 1) = Append(SubSeq(seqs, 1, n), seqs[n + 1])
  OBVIOUS
<1> QED BY <1>1, FlattenAppend

LEMMA FlattenConcat ==
  ASSUME NEW S, NEW s \in Seq(Seq(S)), NEW t \in Seq(Seq(S))
  PROVE  FlattenSeq(s \o t) = FlattenSeq(s) \o FlattenSeq(t)
<1> DEFINE First(n) == SubSeq(t, 1, n)
           T == {n \in Nat : n <= Len(t) =>
                   FlattenSeq(s \o First(n)) = FlattenSeq(s) \o FlattenSeq(First(n))}
<1>0. FlattenSeq(s) \in Seq(S)
  BY FlattenType
<1>1. 0 \in T
  <2>1. First(0) = <<>> /\ s \o First(0) = s
    OBVIOUS
  <2>2. FlattenSeq(s) \o <<>> = FlattenSeq(s)
    BY <1>0
  <2> QED BY <2>1, <2>2, FlattenEmpty
<1>2. ASSUME NEW n \in Nat, n \in T PROVE n + 1 \in T
  <2> SUFFICES ASSUME n + 1 <= Len(t)
               PROVE  FlattenSeq(s \o First(n + 1)) = FlattenSeq(s) \o FlattenSeq(First(n + 1))
    OBVIOUS
  <2>1. FlattenSeq(s \o First(n)) = FlattenSeq(s) \o FlattenSeq(First(n))
    BY <1>2
  <2>2. FlattenSeq(First(n + 1)) = FlattenSeq(First(n)) \o t[n + 1] /\ First(n) \in Seq(Seq(S))
    BY FlattenFront
  <2>3. /\ t[n + 1] \in Seq(S) /\ s \o First(n) \in Seq(Seq(S))
        /\ s \o First(n + 1) = Append(s \o First(n), t[n + 1])
    OBVIOUS
  <2>4. FlattenSeq(s \o First(n + 1)) = FlattenSeq(s \o First(n)) \o t[n + 1]
    BY <2>3, FlattenAppend
  <2>5. FlattenSeq(First(n)) \in Seq(S)
    BY <2>2, FlattenType
  <2>6. \A a, b, c \in Seq(S) : (a \o b) \o c = a \o (b \o c)
    BY SMTT(60)
  <2>7. (FlattenSeq(s) \o FlattenSeq(First(n))) \o t[n + 1]
          = FlattenSeq(s) \o (FlattenSeq(First(n)) \o t[n + 1])
    BY <1>0, <2>3, <2>5, <2>6
  <2> QED BY <2>1, <2>2, <2>4, <2>7
<1>3. \A n \in Nat : n \in T
  <2> HIDE DEF T
  <2> QED BY <1>1, <1>2, SetInduction
<1>4. Len(t) \in Nat /\ First(Len(t)) = t
  OBVIOUS
<1>5. Len(t) \in T
  BY <1>3, <1>4
<1>6. FlattenSeq(s \o First(Len(t))) = FlattenSeq(s) \o FlattenSeq(First(Len(t)))
  BY <1>4, <1>5
<1> QED BY <1>4, <1>6

(* WHERE THE BOXES LIE                                                     *)

LEMMA BytesOfIs ==
  ASSUME NEW list \in Seq(FileBox)
  PROVE  /\ Len(list) \in Nat /\ DOMAIN list = 1..Len(list)
         /\ BytesOf(list, 0) = 0
         /\ \A n \in 0..Len(list) : BytesOf(list, n) \in Nat
         /\ \A n \in 1..Len(list) : BytesOf(list, n) = BytesOf(list, n - 1) + list[n].bytes
         /\ \A m, n \in 0..Len(list) : m <= n => BytesOf(list, m) <= BytesOf(list, n)
<1> DEFINE N == Len(list)
           own == [n \in 1..N |-> list[n].bytes]
           Step(f) == [n \in 0..N |-> IF n = 0 THEN 0 ELSE f[n - 1] + list[n].bytes]
           first == CHOOSE f : f = Step(f)
<1>1. N \in Nat /\ DOMAIN list = 1..N
  OBVIOUS
<1>2. \A n \in 1..N : own[n] \in Nat /\ own[n] = list[n].bytes
  <2> SUFFICES ASSUME NEW n \in 1..N PROVE list[n].bytes \in Nat
    OBVIOUS
  <2>1. list[n] \in FileBox
    OBVIOUS
  <2> QED BY <2>1 DEF FileBox
<1>3. ASSUME NEW f PROVE Sums(f, N, own) <=> f = Step(f)
  <2>1. \A n \in 0..N : n # 0 => own[n] = list[n].bytes
    BY <1>1, <1>2
  <2>2. [n \in 0..N |-> IF n = 0 THEN 0 ELSE f[n - 1] + own[n]] = Step(f)
    <3> HIDE DEF own
    <3> QED BY <2>1
  <2> QED BY <2>2 DEF Sums
<1>4. \E f : Sums(f, N, own)
  <2> HIDE DEF own
  <2> QED BY <1>1, <1>2, SumsExist
<1>5. \E f : f = Step(f)
  BY <1>3, <1>4
<1>6. first = Step(first)
  <2> HIDE DEF Step
  <2> QED BY <1>5
<1>7. \A i : BytesOf(list, i) = first[i]
  BY DEF BytesOf
<1>8. Sums(first, N, own)
  BY <1>3, <1>6
<1> HIDE DEF first, own
<1>9. /\ first[0] = 0
      /\ \A n \in 0..N : first[n] \in Nat
      /\ \A n \in 1..N : first[n] = first[n - 1] + own[n]
      /\ \A m \in 0..N, n \in 0..N : m <= n => first[m] <= first[n]
  BY <1>1, <1>2, <1>8, SumsSteps
<1> QED BY <1>1, <1>2, <1>7, <1>9

(* The boxes of the file are end to end, all of them start in it, and all  *)
(* but the last lie in it.                                                 *)
LEMMA BoxesLie ==
  ASSUME file \in Files
  PROVE  /\ Len(Boxes) \in Nat /\ DOMAIN Boxes = 1..Len(Boxes) /\ file.length \in Nat
         /\ BoxStart(1) = 0
         /\ \A i \in 1..Len(Boxes) :
              /\ Boxes[i] \in FileBox
              /\ BoxStart(i) \in Nat /\ BoxEnd(i) \in Nat
              /\ BoxStart(i) < BoxEnd(i)
              /\ BoxStart(i) < file.length
              /\ BoxEnd(i) = BoxStart(i + 1)
         /\ BoxStart(Len(Boxes) + 1) \in Nat
         /\ file.length <= BoxStart(Len(Boxes) + 1)
         /\ file.toEnd => file.length = BoxStart(Len(Boxes) + 1)
         /\ \A i, j \in 1..Len(Boxes) : i < j => BoxEnd(i) <= BoxStart(j)
<1>1. /\ Boxes \in Seq(FileBox)
      /\ file.length \in Nat
      /\ \A i \in DOMAIN Boxes : BytesOf(Boxes, i - 1) < file.length
      /\ file.length <= BytesOf(Boxes, Len(Boxes))
      /\ file.toEnd => file.length = BytesOf(Boxes, Len(Boxes))
  BY FilesAssumption DEF Boxes
<1>2. PICK list : list = Boxes
  OBVIOUS
<1>3. /\ Len(list) \in Nat /\ DOMAIN list = 1..Len(list)
      /\ BytesOf(list, 0) = 0
      /\ \A n \in 0..Len(list) : BytesOf(list, n) \in Nat
      /\ \A n \in 1..Len(list) : BytesOf(list, n) = BytesOf(list, n - 1) + list[n].bytes
      /\ \A m, n \in 0..Len(list) : m <= n => BytesOf(list, m) <= BytesOf(list, n)
  BY <1>1, <1>2, BytesOfIs
<1>4. \A i : BoxStart(i) = BytesOf(list, i - 1)
  BY <1>2 DEF BoxStart
<1>5. BoxStart(1) = 0
  <2>1. 1 - 1 = 0
    OBVIOUS
  <2> QED BY <1>3, <1>4, <2>1
<1>6. BoxStart(Len(list) + 1) = BytesOf(list, Len(list)) /\ BytesOf(list, Len(list)) \in Nat
  <2>1. Len(list) + 1 - 1 = Len(list) /\ Len(list) \in 0..Len(list)
    BY <1>3
  <2> QED BY <1>3, <1>4, <2>1
<1>7. ASSUME NEW i \in 1..Len(list)
      PROVE  /\ list[i] \in FileBox
             /\ BoxStart(i) \in Nat /\ BoxEnd(i) \in Nat
             /\ BoxStart(i) < BoxEnd(i)
             /\ BoxStart(i) < file.length
             /\ BoxEnd(i) = BoxStart(i + 1)
             /\ BoxEnd(i) = BytesOf(list, i)
  <2>1. list[i] \in FileBox
    BY <1>1, <1>2
  <2>2. list[i].bytes \in Nat \ {0}
    BY <2>1 DEF FileBox
  <2>3. i - 1 \in 0..Len(list) /\ i \in 0..Len(list) /\ i + 1 - 1 = i
    BY <1>3
  <2>4. BytesOf(list, i - 1) \in Nat /\ BytesOf(list, i) = BytesOf(list, i - 1) + list[i].bytes
    BY <1>3, <2>3
  <2>5. BoxStart(i) = BytesOf(list, i - 1) /\ BoxStart(i + 1) = BytesOf(list, i)
    BY <1>4, <2>3
  <2>6. BoxEnd(i) = BoxStart(i) + list[i].bytes
    BY <1>2 DEF BoxEnd
  <2>7. BytesOf(list, i - 1) < file.length
    BY <1>1, <1>2, <1>3
  <2> QED BY <2>1, <2>2, <2>4, <2>5, <2>6, <2>7
<1>8. \A i, j \in 1..Len(list) : i < j => BoxEnd(i) <= BoxStart(j)
  <2> SUFFICES ASSUME NEW i \in 1..Len(list), NEW j \in 1..Len(list), i < j
               PROVE  BoxEnd(i) <= BoxStart(j)
    OBVIOUS
  <2>1. i \in 0..Len(list) /\ j - 1 \in 0..Len(list) /\ i <= j - 1
    BY <1>3
  <2>2. BytesOf(list, i) <= BytesOf(list, j - 1)
    BY <1>3, <2>1
  <2> QED BY <1>4, <1>7, <2>2
<1> QED BY <1>1, <1>2, <1>3, <1>5, <1>6, <1>7, <1>8

LEMMA LastEnds ==
  ASSUME file \in Files
  PROVE  \A i \in 1..Len(Boxes) : /\ i < Len(Boxes) => BoxEnd(i) < file.length
                                  /\ i = Len(Boxes) => BoxEnd(i) >= file.length
                                  /\ RunsToFileEnd(i) => i = Len(Boxes) /\ BoxEnd(i) = file.length
<1> SUFFICES ASSUME NEW i \in 1..Len(Boxes)
             PROVE  /\ i < Len(Boxes) => BoxEnd(i) < file.length
                    /\ i = Len(Boxes) => BoxEnd(i) >= file.length
                    /\ RunsToFileEnd(i) => i = Len(Boxes) /\ BoxEnd(i) = file.length
  OBVIOUS
<1>1. /\ Len(Boxes) \in Nat /\ file.length \in Nat
      /\ BoxEnd(i) = BoxStart(i + 1)
      /\ file.length <= BoxStart(Len(Boxes) + 1)
      /\ file.toEnd => file.length = BoxStart(Len(Boxes) + 1)
  BY BoxesLie
<1>2. ASSUME i < Len(Boxes) PROVE BoxEnd(i) < file.length
  <2>1. i + 1 \in 1..Len(Boxes)
    BY <1>1, <1>2
  <2> QED BY <1>1, <2>1, BoxesLie
<1>3. ASSUME i = Len(Boxes) PROVE BoxEnd(i) >= file.length
  <2>1. BoxStart(Len(Boxes) + 1) \in Nat /\ BoxEnd(i) = BoxStart(Len(Boxes) + 1)
    BY <1>1, <1>3, BoxesLie
  <2> QED BY <1>1, <2>1
<1> QED BY <1>1, <1>2, <1>3 DEF RunsToFileEnd
-------------------------------------------------------------------------------
(* RUNS OF BYTES                                                           *)

Bytes(a, b) == [k \in 1..(b - a) |-> a + k - 1]

(* What the file holds of a box.                                           *)
EndThere(i) == Min({BoxEnd(i), file.length})
There(i) == Bytes(BoxStart(i), EndThere(i))

LEMMA BytesAre ==
  ASSUME NEW a \in Nat, NEW b \in Nat, a <= b
  PROVE  /\ Bytes(a, b) \in Seq(Int)
         /\ Sequence(Bytes(a, b))
         /\ Len(Bytes(a, b)) = b - a
         /\ \A k \in 1..(b - a) : Bytes(a, b)[k] = a + k - 1 /\ Bytes(a, b)[k] \in Nat
<1>1. b - a \in Nat
  OBVIOUS
<1>2. \A k \in 1..(b - a) : a + k - 1 \in Nat
  OBVIOUS
<1>3. Bytes(a, b) \in Seq(Int) /\ Len(Bytes(a, b)) = b - a
  BY <1>1, <1>2 DEF Bytes
<1>4. \A k \in 1..(b - a) : Bytes(a, b)[k] = a + k - 1
  BY DEF Bytes
<1>5. Sequence(Bytes(a, b))
  BY <1>3, SequenceOf
<1> QED BY <1>2, <1>3, <1>4, <1>5

LEMMA BytesConcat ==
  ASSUME NEW a \in Nat, NEW b \in Nat, NEW c \in Nat, a <= b, b <= c
  PROVE  Bytes(a, b) \o Bytes(b, c) = Bytes(a, c)
<1>1. PICK s : s = Bytes(a, b)
  OBVIOUS
<1>2. PICK t : t = Bytes(b, c)
  OBVIOUS
<1>3. PICK u : u = Bytes(a, c)
  OBVIOUS
<1>4. /\ Sequence(s) /\ Len(s) = b - a /\ \A k \in 1..(b - a) : s[k] = a + k - 1
      /\ Sequence(t) /\ Len(t) = c - b /\ \A k \in 1..(c - b) : t[k] = b + k - 1
  BY <1>1, <1>2, BytesAre
<1>5. a <= c
  OBVIOUS
<1>6. Sequence(u) /\ Len(u) = c - a /\ \A k \in 1..(c - a) : u[k] = a + k - 1
  BY <1>3, <1>5, BytesAre
<1>7. /\ Sequence(s \o t)
      /\ Len(s \o t) = Len(s) + Len(t)
      /\ \A i \in 1..Len(s) : (s \o t)[i] = s[i]
      /\ \A i \in 1..Len(t) : (s \o t)[Len(s) + i] = t[i]
  BY <1>4, ConcatAny
<1>8. Len(s \o t) = Len(u)
  BY <1>4, <1>6, <1>7
<1>9. ASSUME NEW i \in 1..Len(s \o t) PROVE (s \o t)[i] = u[i]
  <2>0. i \in Nat /\ i >= 1 /\ i <= c - a /\ i \in 1..(c - a)
    BY <1>6, <1>8, <1>9
  <2>1. CASE i <= b - a
    <3>1. i \in 1..Len(s)
      BY <1>4, <2>0, <2>1
    <3> QED BY <1>4, <1>6, <1>7, <2>0, <3>1
  <2>2. CASE i > b - a
    <3>1. i - (b - a) \in 1..Len(t) /\ i = Len(s) + (i - (b - a))
      BY <1>4, <2>0, <2>2
    <3>2. (s \o t)[Len(s) + (i - (b - a))] = t[i - (b - a)]
      BY <1>7, <3>1
    <3>3. t[i - (b - a)] = b + (i - (b - a)) - 1
      BY <1>4, <3>1
    <3>4. b + (i - (b - a)) - 1 = a + i - 1
      BY <2>0
    <3>5. u[i] = a + i - 1
      BY <1>6, <2>0
    <3> QED BY <3>1, <3>2, <3>3, <3>4, <3>5
  <2> QED BY <2>0, <2>1, <2>2
<1>10. s \o t = u
  BY <1>4, <1>6, <1>7, <1>8, <1>9, EqualAny
<1> QED BY <1>1, <1>2, <1>3, <1>10

LEMMA BytesNone ==
  ASSUME NEW a \in Nat
  PROVE  Bytes(a, a) = <<>>
<1>1. Sequence(Bytes(a, a)) /\ Len(Bytes(a, a)) = 0
  BY BytesAre
<1>2. Bytes(a, a) \in Seq(Int)
  BY BytesAre
<1> QED BY <1>1, <1>2, EmptySeq

LEMMA ThereIs ==
  ASSUME file \in Files, NEW i \in 1..Len(Boxes)
  PROVE  /\ BoxStart(i) \in Nat
         /\ EndThere(i) \in Nat
         /\ BoxStart(i) < EndThere(i)
         /\ EndThere(i) <= file.length /\ EndThere(i) <= BoxEnd(i)
         /\ i < Len(Boxes) => EndThere(i) = BoxEnd(i)
         /\ i = Len(Boxes) => EndThere(i) = file.length
         /\ There(i) \in Seq(Int)
         /\ Len(There(i)) = EndThere(i) - BoxStart(i)
<1>1. /\ BoxStart(i) \in Nat /\ BoxEnd(i) \in Nat /\ file.length \in Nat
      /\ BoxStart(i) < BoxEnd(i) /\ BoxStart(i) < file.length
  BY BoxesLie
<1>2. BoxEnd(i) \in Int /\ file.length \in Int
  BY <1>1
<1>3. EndThere(i) = IF BoxEnd(i) <= file.length THEN BoxEnd(i) ELSE file.length
  BY <1>2, OfTwo DEF EndThere
<1>4. /\ i < Len(Boxes) => BoxEnd(i) < file.length
      /\ i = Len(Boxes) => BoxEnd(i) >= file.length
  BY LastEnds
<1>5. EndThere(i) \in Nat /\ BoxStart(i) <= EndThere(i)
  BY <1>1, <1>3
<1>6. There(i) \in Seq(Int) /\ Len(There(i)) = EndThere(i) - BoxStart(i)
  BY <1>1, <1>5, BytesAre DEF There
<1>7. i < Len(Boxes) => EndThere(i) = BoxEnd(i)
  BY <1>1, <1>3, <1>4
<1>8. i = Len(Boxes) => EndThere(i) = file.length
  BY <1>1, <1>3, <1>4
<1>9. BoxStart(i) < EndThere(i) /\ EndThere(i) <= file.length /\ EndThere(i) <= BoxEnd(i)
  BY <1>1, <1>3
<1> QED BY <1>1, <1>5, <1>6, <1>7, <1>8, <1>9

LEMMA FlattenOne ==
  ASSUME NEW S, NEW e \in Seq(S)
  PROVE  FlattenSeq(<<e>>) = e
<1>1. <<>> \in Seq(Seq(S)) /\ Append(<<>>, e) = <<e>> /\ <<>> \o e = e
  OBVIOUS
<1> QED BY <1>1, FlattenAppend, FlattenEmpty

(* What g has of each of a sequence of places.                             *)
Chosen(g, places) == [k \in DOMAIN places |-> g[places[k]]]

LEMMA ChosenIs ==
  ASSUME NEW S, NEW D, NEW g \in [D -> Seq(S)], NEW p \in Seq(D)
  PROVE  /\ Chosen(g, p) \in Seq(Seq(S))
         /\ Len(Chosen(g, p)) = Len(p) /\ DOMAIN Chosen(g, p) = 1..Len(p)
         /\ \A k \in 1..Len(p) : p[k] \in D /\ Chosen(g, p)[k] = g[p[k]]
<1>1. DOMAIN p = 1..Len(p) /\ Len(p) \in Nat /\ \A k \in 1..Len(p) : p[k] \in D
  OBVIOUS
<1>2. \A k \in 1..Len(p) : g[p[k]] \in Seq(S)
  BY <1>1
<1>3. Chosen(g, p) = [k \in 1..Len(p) |-> g[p[k]]]
  BY <1>1 DEF Chosen
<1>4. Chosen(g, p) \in Seq(Seq(S)) /\ Len(Chosen(g, p)) = Len(p)
  BY <1>1, <1>2, <1>3
<1> QED BY <1>1, <1>3, <1>4

LEMMA ChosenEach ==
  ASSUME NEW g, NEW p, Sequence(p)
  PROVE  /\ Sequence(Chosen(g, p))
         /\ Len(Chosen(g, p)) = Len(p)
         /\ \A k \in 1..Len(p) : Chosen(g, p)[k] = g[p[k]]
<1>1. DOMAIN p = 1..Len(p) /\ Len(p) \in Nat
  BY SequenceShape
<1>2. Chosen(g, p) = [k \in 1..Len(p) |-> g[p[k]]]
  BY <1>1 DEF Chosen
<1>3. PICK n \in Nat : n = Len(p)
  BY <1>1
<1>4. PICK c : c = [k \in 1..n |-> g[p[k]]]
  OBVIOUS
<1>5. Len(c) = n /\ \A k \in 1..n : c[k] = g[p[k]]
  BY <1>4
<1>6. Sequence(c)
  <2>1. PICK X : X = {g[p[k]] : k \in 1..n}
    OBVIOUS
  <2>2. \A k \in 1..n : g[p[k]] \in X
    BY <2>1
  <2>3. c \in Seq(X)
    BY <1>4, <2>2
  <2> QED BY <2>3, SequenceOf
<1> QED BY <1>2, <1>3, <1>4, <1>5, <1>6

LEMMA ChosenConcat ==
  ASSUME NEW g, NEW p, NEW q, Sequence(p), Sequence(q)
  PROVE  Chosen(g, p \o q) = Chosen(g, p) \o Chosen(g, q)
<1>1. PICK r : r = p \o q
  OBVIOUS
<1>2. PICK a : a = Chosen(g, p)
  OBVIOUS
<1>3. PICK b : b = Chosen(g, q)
  OBVIOUS
<1>4. PICK c : c = Chosen(g, r)
  OBVIOUS
<1>0. Sequence(r)
  BY <1>1, ConcatAny
<1>5. /\ Len(a) = Len(p) /\ \A k \in 1..Len(p) : a[k] = g[p[k]]
      /\ Len(b) = Len(q) /\ \A k \in 1..Len(q) : b[k] = g[q[k]]
      /\ Len(c) = Len(r) /\ \A k \in 1..Len(r) : c[k] = g[r[k]]
  BY <1>0, <1>2, <1>3, <1>4, ChosenEach
<1>6. Sequence(p) /\ Sequence(q) /\ Sequence(a) /\ Sequence(b) /\ Sequence(c)
  BY <1>0, <1>2, <1>3, <1>4, ChosenEach
<1>7. /\ Len(r) = Len(p) + Len(q) /\ Len(p) \in Nat /\ Len(q) \in Nat
      /\ \A i \in 1..Len(p) : r[i] = p[i]
      /\ \A i \in 1..Len(q) : r[Len(p) + i] = q[i]
  BY <1>1, <1>6, ConcatAny
<1>8. /\ Sequence(a \o b) /\ Len(a \o b) = Len(a) + Len(b)
      /\ \A i \in 1..Len(a) : (a \o b)[i] = a[i]
      /\ \A i \in 1..Len(b) : (a \o b)[Len(a) + i] = b[i]
  BY <1>6, ConcatAny
<1>9. Len(c) = Len(a \o b)
  BY <1>5, <1>7, <1>8
<1>10. ASSUME NEW i \in 1..Len(c) PROVE c[i] = (a \o b)[i]
  <2>1. i \in Nat /\ i >= 1 /\ i <= Len(p) + Len(q) /\ i \in 1..Len(r)
    BY <1>5, <1>7, <1>10
  <2>2. CASE i <= Len(p)
    <3>1. i \in 1..Len(p)
      BY <1>7, <2>1, <2>2
    <3>2. c[i] = g[r[i]] /\ r[i] = p[i]
      BY <1>5, <1>7, <2>1, <3>1
    <3>3. (a \o b)[i] = a[i] /\ a[i] = g[p[i]]
      BY <1>5, <1>8, <3>1
    <3> QED BY <3>2, <3>3
  <2>3. CASE i > Len(p)
    <3>1. PICK j \in 1..Len(q) : i = Len(p) + j
      <4>1. i - Len(p) \in 1..Len(q) /\ i = Len(p) + (i - Len(p))
        BY <1>7, <2>1, <2>3
      <4> QED BY <4>1
    <3>2. c[i] = g[r[i]] /\ r[i] = q[j]
      BY <1>5, <1>7, <2>1, <3>1
    <3>3. (a \o b)[i] = b[j] /\ b[j] = g[q[j]]
      BY <1>5, <1>8, <3>1
    <3> QED BY <3>2, <3>3
  <2>4. i <= Len(p) \/ i > Len(p)
    BY <1>7, <2>1
  <2> QED BY <2>2, <2>3, <2>4
<1>11. c = a \o b
  BY <1>6, <1>8, <1>9, <1>10, EqualAny
<1> QED BY <1>1, <1>2, <1>3, <1>4, <1>11

(* The numbers of a set, in their order.                                   *)
Numbers(n) == [i \in 1..n |-> i]

LEMMA NumbersAre ==
  ASSUME NEW n \in Nat
  PROVE  /\ Numbers(n) \in Seq(1..n) /\ Sequence(Numbers(n))
         /\ Len(Numbers(n)) = n /\ DOMAIN Numbers(n) = 1..n
         /\ \A i \in 1..n : Numbers(n)[i] = i
<1>1. Numbers(n) \in Seq(1..n) /\ Len(Numbers(n)) = n /\ DOMAIN Numbers(n) = 1..n
  BY DEF Numbers
<1>2. Sequence(Numbers(n))
  BY <1>1, SequenceOf
<1> QED BY <1>1, <1>2 DEF Numbers

LEMMA NumbersGrow ==
  ASSUME NEW n \in Nat
  PROVE  Numbers(n + 1) = Numbers(n) \o <<n + 1>>
<1>1. PICK s : s = Numbers(n)
  OBVIOUS
<1>2. PICK t : t = Numbers(n + 1)
  OBVIOUS
<1>3. /\ Sequence(s) /\ Len(s) = n /\ \A i \in 1..n : s[i] = i
      /\ Sequence(t) /\ Len(t) = n + 1 /\ \A i \in 1..n + 1 : t[i] = i
  BY <1>1, <1>2, NumbersAre, SMTT(60)
<1>4. /\ Sequence(Append(s, n + 1))
      /\ Len(Append(s, n + 1)) = n + 1
      /\ \A i \in 1..n : Append(s, n + 1)[i] = s[i]
      /\ Append(s, n + 1)[n + 1] = n + 1
      /\ s \o <<n + 1>> = Append(s, n + 1)
  BY <1>3, AppendAny
<1>5. \A i \in 1..Len(t) : t[i] = Append(s, n + 1)[i]
  <2> SUFFICES ASSUME NEW i \in 1..n + 1 PROVE t[i] = Append(s, n + 1)[i]
    BY <1>3
  <2>1. i \in 1..n \/ i = n + 1
    OBVIOUS
  <2> QED BY <1>3, <1>4, <2>1
<1>6. t = Append(s, n + 1)
  BY <1>3, <1>4, <1>5, EqualAny
<1> QED BY <1>1, <1>2, <1>4, <1>6

LEMMA ThoseNumbers ==
  ASSUME NEW n \in Nat, NEW T
  PROVE  /\ Those(Numbers(n), T) \in Seq(1..n)
         /\ \A k \in DOMAIN Those(Numbers(n), T) : Those(Numbers(n), T)[k] \in T
<1>1. PICK s : s = Those(Numbers(n), T)
  OBVIOUS
<1>2. Sequence(s) /\ \A k \in DOMAIN s : s[k] \in T /\ \E i \in DOMAIN Numbers(n) : s[k] = Numbers(n)[i]
  BY <1>1, NumbersAre, ThoseAny
<1>3. \A k \in DOMAIN s : s[k] \in 1..n
  BY <1>2, NumbersAre
<1>4. Len(s) \in Nat /\ DOMAIN s = 1..Len(s) /\ s = [i \in 1..Len(s) |-> s[i]]
  BY <1>2, SequenceShape
<1>5. s \in Seq(1..n)
  BY <1>3, <1>4
<1> QED BY <1>1, <1>2, <1>5

(* Joined are the same, whether the others are left out or come to nothing.*)
Some(g, n, T) == [i \in 1..n |-> IF i \in T THEN g[i] ELSE <<>>]

LEMMA FlattenChosen ==
  ASSUME NEW S, NEW N \in Nat, NEW g \in [0..N -> Seq(S)], NEW T
  PROVE  FlattenSeq(Chosen(g, Those(Numbers(N), T)))
           = FlattenSeq(Some(g, N, T))
<1>0. PICK D : D = 0..N
  OBVIOUS
<1>a. g \in [D -> Seq(S)] /\ 1..N \subseteq D
  BY <1>0
<1> DEFINE All == [i \in 1..N |-> IF i \in T THEN g[i] ELSE <<>>]
           First(n) == SubSeq(All, 1, n)
           U == {n \in Nat : n <= N => FlattenSeq(Chosen(g, Those(Numbers(n), T))) = FlattenSeq(First(n))}
<1>1. All \in Seq(Seq(S)) /\ Len(All) = N
  <2>1. <<>> \in Seq(S)
    OBVIOUS
  <2>2. \A i \in 1..N : (IF i \in T THEN g[i] ELSE <<>>) \in Seq(S)
    BY <1>a, <2>1
  <2> QED BY <2>2
<1>2. 0 \in U
  <2>1. First(0) = <<>>
    BY <1>1
  <2>2. \A i \in DOMAIN Numbers(0) : Numbers(0)[i] \notin T
    BY NumbersAre
  <2>3. Those(Numbers(0), T) = <<>>
    BY <2>2, ThoseNone
  <2>4. Chosen(g, <<>>) = <<>>
    BY DEF Chosen
  <2> QED BY <2>1, <2>3, <2>4
<1>3. ASSUME NEW n \in Nat, n \in U PROVE n + 1 \in U
  <2> SUFFICES ASSUME n + 1 <= N
               PROVE  FlattenSeq(Chosen(g, Those(Numbers(n + 1), T))) = FlattenSeq(First(n + 1))
    OBVIOUS
  <2>1. FlattenSeq(Chosen(g, Those(Numbers(n), T))) = FlattenSeq(First(n))
    BY <1>3
  <2>2. FlattenSeq(First(n + 1)) = FlattenSeq(First(n)) \o All[n + 1] /\ First(n) \in Seq(Seq(S))
    <3> HIDE DEF All
    <3> QED BY <1>1, FlattenFront
  <2>3. All[n + 1] = IF n + 1 \in T THEN g[n + 1] ELSE <<>>
    OBVIOUS
  <2>4. PICK q \in Seq(D) : q = Those(Numbers(n), T)
    <3>1. Those(Numbers(n), T) \in Seq(1..n) /\ 1..n \subseteq D
      BY <1>0, ThoseNumbers
    <3> QED BY <1>a, <3>1
  <2>5. Sequence(<<n + 1>>) /\ Len(<<n + 1>>) = 1 /\ <<n + 1>>[1] = n + 1
    BY OneElement
  <2>6. Those(Numbers(n + 1), T) = q \o Those(<<n + 1>>, T)
    <3>1. Sequence(Numbers(n)) /\ Numbers(n + 1) = Numbers(n) \o <<n + 1>>
      BY NumbersAre, NumbersGrow
    <3>2. PICK s : s = Numbers(n)
      OBVIOUS
    <3>3. PICK t : t = <<n + 1>>
      OBVIOUS
    <3>4. Sequence(s) /\ Sequence(t)
      BY <2>5, <3>1, <3>2, <3>3
    <3>5. Those(s \o t, T) = Those(s, T) \o Those(t, T)
      BY ONLY <3>4, ThoseConcat
    <3> QED BY <2>4, <3>1, <3>2, <3>3, <3>5
  <2>7. DOMAIN <<n + 1>> = {1}
    OBVIOUS
  <2>8. Chosen(g, q) \in Seq(Seq(S)) /\ FlattenSeq(Chosen(g, q)) \in Seq(S)
    BY <1>a, ChosenIs, FlattenType
  <2>9. CASE n + 1 \in T
    <3>1. Those(<<n + 1>>, T) = <<n + 1>>
      BY <2>5, <2>7, <2>9, ThoseAll
    <3>2. n + 1 \in D /\ <<n + 1>> \in Seq(D)
      BY <1>a
    <3>3. Chosen(g, q \o <<n + 1>>) = Chosen(g, q) \o Chosen(g, <<n + 1>>)
      <4>1. PICK t \in Seq(D) : t = <<n + 1>>
        BY <3>2
      <4>2. Chosen(g, q \o t) = Chosen(g, q) \o Chosen(g, t)
        BY ChosenConcat, SequenceOf
      <4> QED BY <4>1, <4>2
    <3>4. Chosen(g, <<n + 1>>) = << g[n + 1] >>
      BY DEF Chosen
    <3>5. g[n + 1] \in Seq(S) /\ << g[n + 1] >> \in Seq(Seq(S))
      BY <1>a, <3>2
    <3>6. FlattenSeq(Chosen(g, q) \o << g[n + 1] >>) = FlattenSeq(Chosen(g, q)) \o g[n + 1]
      <4>1. PICK u \in Seq(Seq(S)) : u = Chosen(g, q)
        BY <2>8
      <4>2. PICK e \in Seq(S) : e = g[n + 1]
        BY <3>5
      <4>3. PICK t \in Seq(Seq(S)) : t = <<e>>
        BY <3>5, <4>2
      <4>4. FlattenSeq(u \o t) = FlattenSeq(u) \o FlattenSeq(t)
        BY ONLY FlattenConcat, u \in Seq(Seq(S)), t \in Seq(Seq(S))
      <4>5. FlattenSeq(<<e>>) = e
        BY ONLY FlattenOne, e \in Seq(S)
      <4> QED BY ONLY <4>1, <4>2, <4>3, <4>4, <4>5
    <3> QED BY <2>1, <2>2, <2>3, <2>4, <2>6, <2>9, <3>1, <3>3, <3>4, <3>6
  <2>10. CASE n + 1 \notin T
    <3>1. Those(<<n + 1>>, T) = <<>>
      BY <2>5, <2>7, <2>10, ThoseNone
    <3>2. q \o <<>> = q
      OBVIOUS
    <3>3. FlattenSeq(Chosen(g, q)) \o <<>> = FlattenSeq(Chosen(g, q))
      BY <2>8
    <3> QED BY <2>1, <2>2, <2>3, <2>4, <2>6, <2>10, <3>1, <3>2, <3>3
  <2> QED BY <2>9, <2>10
<1>4. \A n \in Nat : n \in U
  <2> HIDE DEF U
  <2> QED BY <1>2, <1>3, SetInduction
<1>5. First(N) = All
  BY <1>1
<1>6. FlattenSeq(Chosen(g, Those(Numbers(N), T))) = FlattenSeq(First(N))
  BY <1>4
<1> QED BY <1>5, <1>6 DEF Some

(* THE TABLES OF OFFSETS                                                   *)

Sized(tables) ==
  /\ Len(tables) \in Nat
  /\ \A k \in 1..Len(tables) : Len(tables[k].offsets) \in Nat

LEMMA MovieLengthIs ==
  ASSUME NEW tables, Sized(tables), NEW wide
  PROVE  MovieLength(tables, wide) \in Nat
<1> DEFINE N == Len(tables)
           Entry(k) == IF k \in wide THEN 2 ELSE 1
           own == [k \in 1..N |-> Entry(k) * Len(tables[k].offsets)]
           Step(f) == [k \in 0..N |-> IF k = 0 THEN 0 ELSE f[k - 1] + Entry(k) * Len(tables[k].offsets)]
           total == CHOOSE f : f = Step(f)
<1>1. N \in Nat
  BY DEF Sized
<1>2. \A k \in 1..N : own[k] \in Nat /\ own[k] = Entry(k) * Len(tables[k].offsets)
  <2> SUFFICES ASSUME NEW k \in 1..N PROVE Entry(k) * Len(tables[k].offsets) \in Nat
    OBVIOUS
  <2>1. Len(tables[k].offsets) \in Nat
    BY DEF Sized
  <2>2. CASE k \in wide
    BY <2>1, <2>2
  <2>3. CASE k \notin wide
    BY <2>1, <2>3
  <2> QED BY <2>2, <2>3
<1> HIDE DEF Entry
<1>3. ASSUME NEW f PROVE Sums(f, N, own) <=> f = Step(f)
  <2>1. \A k \in 0..N : k # 0 => own[k] = Entry(k) * Len(tables[k].offsets)
    BY <1>1, <1>2
  <2>2. [k \in 0..N |-> IF k = 0 THEN 0 ELSE f[k - 1] + own[k]] = Step(f)
    <3> HIDE DEF own
    <3> QED BY <2>1
  <2> QED BY <2>2 DEF Sums
<1>4. \E f : Sums(f, N, own)
  <2> HIDE DEF own
  <2> QED BY <1>1, <1>2, SumsExist
<1>5. \E f : f = Step(f)
  BY <1>3, <1>4
<1>6. total = Step(total)
  <2> HIDE DEF Step
  <2> QED BY <1>5
<1>7. MovieLength(tables, wide) = 2 + total[N]
  BY DEF MovieLength, Entry
<1>8. Sums(total, N, own)
  BY <1>3, <1>6
<1> HIDE DEF total, own
<1>9. total[N] \in Nat
  <2>1. \A k \in 0..N : total[k] \in Nat
    BY <1>1, <1>2, <1>8, SumsSteps
  <2> QED BY <1>1, <2>1
<1> QED BY <1>7, <1>9

(* A table as it was read.                                                 *)
Fits(offsets, wide) == wide \/ \A n \in DOMAIN offsets : offsets[n] <= CompactReach

ReadTable ==
  {t \in [offsets : Seq(Nat), wide : BOOLEAN, here : Seq(BOOLEAN)] :
     DOMAIN t.here = DOMAIN t.offsets /\ Fits(t.offsets, t.wide)}

LEMMA HeresAre ==
  ASSUME NEW offsets \in Seq(Nat), NEW wide \in BOOLEAN, NEW h \in [DOMAIN offsets -> BOOLEAN],
         Fits(offsets, wide)
  PROVE  [offsets |-> offsets, wide |-> wide, here |-> h] \in ReadTable
<1>1. DOMAIN offsets = 1..Len(offsets) /\ Len(offsets) \in Nat
  OBVIOUS
<1>2. h \in Seq(BOOLEAN) /\ DOMAIN h = DOMAIN offsets
  BY <1>1
<1> QED BY <1>1, <1>2 DEF ReadTable

LEMMA TablesOfType ==
  ASSUME NEW track \in FileTrack
  PROVE  TablesOf(track) \in Seq(ReadTable)
<1> DEFINE Own == [offsets |-> track.chunks.offsets, wide |-> track.chunks.wide,
                   here |-> [n \in DOMAIN track.chunks.offsets |-> ChunkHere(track, n)]]
           Of(k) == [offsets |-> track.auxiliary[k].offsets, wide |-> track.auxiliary[k].wide,
                     here |-> [n \in DOMAIN track.auxiliary[k].offsets |-> AuxiliaryHere(track, n)]]
           Others == [k \in DOMAIN track.auxiliary |-> Of(k)]
<1>1. \A n : ChunkHere(track, n) \in BOOLEAN /\ AuxiliaryHere(track, n) \in BOOLEAN
  <2> SUFFICES ASSUME NEW n PROVE ChunkHere(track, n) \in BOOLEAN /\ AuxiliaryHere(track, n) \in BOOLEAN
    OBVIOUS
  <2>1. ChunkHere(track, n) \in BOOLEAN
    BY DEF ChunkHere
  <2>2. CASE n \in DOMAIN track.chunks.offsets
    <3>1. AuxiliaryHere(track, n) = ChunkHere(track, n)
      BY <2>2 DEF AuxiliaryHere
    <3> QED BY <2>1, <3>1
  <2>3. CASE n \notin DOMAIN track.chunks.offsets
    <3>1. AuxiliaryHere(track, n) = (track.chunks.offsets # <<>> => ChunkHere(track, 1))
      BY <2>3 DEF AuxiliaryHere
    <3>2. (track.chunks.offsets # <<>> => ChunkHere(track, 1)) \in BOOLEAN
      OBVIOUS
    <3> QED BY <2>1, <3>1, <3>2
  <2> QED BY <2>2, <2>3
<1>2. track.chunks \in OffsetTable /\ track.auxiliary \in Seq(OffsetTable)
  BY DEF FileTrack
<1>3. Own \in ReadTable
  <2>1. /\ track.chunks.offsets \in Seq(Nat) /\ track.chunks.wide \in BOOLEAN
        /\ Fits(track.chunks.offsets, track.chunks.wide)
    BY <1>2 DEF OffsetTable, Fits
  <2>2. PICK h \in [DOMAIN track.chunks.offsets -> BOOLEAN] :
          h = [n \in DOMAIN track.chunks.offsets |-> ChunkHere(track, n)]
    BY <1>1, Zenon
  <2>3. [offsets |-> track.chunks.offsets, wide |-> track.chunks.wide, here |-> h] \in ReadTable
    BY <2>1, HeresAre
  <2> QED BY <2>2, <2>3, Zenon
<1>4. \A k \in DOMAIN track.auxiliary : Of(k) \in ReadTable
  <2> SUFFICES ASSUME NEW k \in DOMAIN track.auxiliary PROVE Of(k) \in ReadTable
    BY Zenon
  <2>1. track.auxiliary[k] \in OffsetTable
    BY <1>2
  <2>2. /\ track.auxiliary[k].offsets \in Seq(Nat) /\ track.auxiliary[k].wide \in BOOLEAN
        /\ Fits(track.auxiliary[k].offsets, track.auxiliary[k].wide)
    BY <2>1 DEF OffsetTable, Fits
  <2>3. PICK h \in [DOMAIN track.auxiliary[k].offsets -> BOOLEAN] :
          h = [n \in DOMAIN track.auxiliary[k].offsets |-> AuxiliaryHere(track, n)]
    BY <1>1, Zenon
  <2>4. [offsets |-> track.auxiliary[k].offsets, wide |-> track.auxiliary[k].wide, here |-> h] \in ReadTable
    BY <2>2, HeresAre
  <2> QED BY <2>3, <2>4, Zenon
<1>5. TablesOf(track) = <<Own>> \o Others
  BY DEF TablesOf
<1> HIDE DEF Own, Of
<1>6. Others \in Seq(ReadTable)
  <2>1. DOMAIN track.auxiliary = 1..Len(track.auxiliary) /\ Len(track.auxiliary) \in Nat
    BY <1>2
  <2> QED BY <1>4, <2>1
<1>7. <<Own>> \in Seq(ReadTable)
  BY <1>3
<1> QED BY <1>5, <1>6, <1>7

LEMMA AsReadType ==
  ASSUME file \in Files
  PROVE  AsRead \in Seq(ReadTable)
<1>1. PICK tracks \in Seq(FileTrack) : tracks = file.movie
  BY FilesAssumption
<1>2. DOMAIN tracks = 1..Len(tracks) /\ Len(tracks) \in Nat
  OBVIOUS
<1>3. \A t \in 1..Len(tracks) : TablesOf(tracks[t]) \in Seq(ReadTable)
  <2> SUFFICES ASSUME NEW t \in 1..Len(tracks) PROVE TablesOf(tracks[t]) \in Seq(ReadTable)
    OBVIOUS
  <2>1. tracks[t] \in FileTrack
    OBVIOUS
  <2> QED BY <2>1, TablesOfType
<1>4. [t \in DOMAIN tracks |-> TablesOf(tracks[t])] \in Seq(Seq(ReadTable))
  BY <1>2, <1>3
<1>5. PICK each \in Seq(Seq(ReadTable)) : each = [t \in DOMAIN tracks |-> TablesOf(tracks[t])]
  BY <1>4
<1>6. FlattenSeq(each) \in Seq(ReadTable)
  BY ONLY FlattenType
<1> QED BY <1>1, <1>5, <1>6 DEF AsRead, Tables

LEMMA AsReadIs ==
  ASSUME file \in Files
  PROVE  /\ Sized(AsRead)
         /\ DOMAIN AsRead = 1..Len(AsRead)
         /\ \A k \in 1..Len(AsRead) :
              /\ DOMAIN AsRead[k].offsets = 1..Len(AsRead[k].offsets)
              /\ DOMAIN AsRead[k].here = DOMAIN AsRead[k].offsets
              /\ AsRead[k].offsets \in Seq(Nat)
              /\ Fits(AsRead[k].offsets, AsRead[k].wide)
         /\ OffsetsHere(AsRead) \subseteq Nat
<1>1. PICK tables \in Seq(ReadTable) : tables = AsRead
  BY AsReadType
<1>2. Len(tables) \in Nat /\ DOMAIN tables = 1..Len(tables)
  OBVIOUS
<1>3. ASSUME NEW k \in 1..Len(tables)
      PROVE  /\ DOMAIN tables[k].offsets = 1..Len(tables[k].offsets)
             /\ DOMAIN tables[k].here = DOMAIN tables[k].offsets
             /\ tables[k].offsets \in Seq(Nat)
             /\ Fits(tables[k].offsets, tables[k].wide)
             /\ Len(tables[k].offsets) \in Nat
  <2>1. tables[k] \in ReadTable
    OBVIOUS
  <2>2. /\ tables[k].offsets \in Seq(Nat) /\ DOMAIN tables[k].here = DOMAIN tables[k].offsets
        /\ Fits(tables[k].offsets, tables[k].wide)
    BY <2>1 DEF ReadTable
  <2> QED BY <2>2
<1>4. OffsetsHere(tables) \subseteq Nat
  <2> SUFFICES ASSUME NEW k \in DOMAIN tables, NEW n \in DOMAIN tables[k].here
               PROVE  tables[k].offsets[n] \in Nat
    BY DEF OffsetsHere
  <2> QED BY <1>2, <1>3
<1>5. Sized(tables)
  BY <1>2, <1>3 DEF Sized
<1> QED BY <1>1, <1>2, <1>3, <1>4, <1>5

(* THE PLAN OF THE OUTPUT                                                  *)

OfType(types) == {i \in 1..Len(Boxes) : Boxes[i].type \in types}
OfNoType(types) == {i \in 1..Len(Boxes) : Boxes[i].type \notin types}
Ahead == Those(Numbers(Len(Boxes)), OfType({"ftyp"}))
Behind == Those(Numbers(Len(Boxes)), OfNoType({"ftyp", "moov"}))

LEMMA OrderIs ==
  ASSUME file \in Files
  PROVE  Order(Len(Boxes)) = Ahead \o << MovieBox(Len(Boxes)) >> \o Behind
<1>1. PICK n \in Nat : n = Len(Boxes)
  BY BoxesLie
<1>2. Numbers(n) = [i \in 1..n |-> i] /\ DOMAIN Numbers(n) = 1..n /\ \A i \in 1..n : Numbers(n)[i] = i
  BY NumbersAre DEF Numbers
<1>3. {i \in DOMAIN Numbers(n) : Boxes[Numbers(n)[i]].type = "ftyp"}
        = {i \in DOMAIN Numbers(n) : Numbers(n)[i] \in OfType({"ftyp"})}
  BY <1>1, <1>2 DEF OfType
<1>4. {i \in DOMAIN Numbers(n) : Boxes[Numbers(n)[i]].type \notin {"ftyp", "moov"}}
        = {i \in DOMAIN Numbers(n) : Numbers(n)[i] \in OfNoType({"ftyp", "moov"})}
  BY <1>1, <1>2 DEF OfNoType
<1>5. Order(n) = Picked(Numbers(n), {i \in DOMAIN Numbers(n) : Boxes[Numbers(n)[i]].type = "ftyp"})
                   \o << MovieBox(n) >>
                   \o Picked(Numbers(n), {i \in DOMAIN Numbers(n) : Boxes[Numbers(n)[i]].type \notin {"ftyp", "moov"}})
  BY DEF Order, Where, Numbers
<1> QED BY <1>1, <1>3, <1>4, <1>5 DEF Ahead, Behind, Those

LEMMA AheadIs ==
  ASSUME file \in Files
  PROVE  /\ Ahead \in Seq(1..Len(Boxes)) /\ Sequence(Ahead)
         /\ \A k \in 1..Len(Ahead) : Ahead[k] \in 1..Len(Boxes) /\ Boxes[Ahead[k]].type = "ftyp"
<1>1. PICK n \in Nat : n = Len(Boxes)
  BY BoxesLie
<1>2. PICK s : s = Ahead
  OBVIOUS
<1>3. s \in Seq(1..n) /\ \A k \in DOMAIN s : s[k] \in OfType({"ftyp"})
  BY <1>1, <1>2, ThoseNumbers DEF Ahead
<1>4. DOMAIN s = 1..Len(s) /\ Sequence(s)
  BY <1>3, SequenceOf
<1>5. \A k \in 1..Len(s) : s[k] \in 1..Len(Boxes) /\ Boxes[s[k]].type = "ftyp"
  BY <1>3, <1>4 DEF OfType
<1> QED BY <1>1, <1>2, <1>3, <1>4, <1>5

LEMMA BehindIs ==
  ASSUME file \in Files
  PROVE  /\ Behind \in Seq(1..Len(Boxes)) /\ Sequence(Behind)
         /\ \A k \in 1..Len(Behind) : Behind[k] \in 1..Len(Boxes) /\ Boxes[Behind[k]].type \notin {"ftyp", "moov"}
<1>1. PICK n \in Nat : n = Len(Boxes)
  BY BoxesLie
<1>2. PICK s : s = Behind
  OBVIOUS
<1>3. s \in Seq(1..n) /\ \A k \in DOMAIN s : s[k] \in OfNoType({"ftyp", "moov"})
  BY <1>1, <1>2, ThoseNumbers DEF Behind
<1>4. DOMAIN s = 1..Len(s) /\ Sequence(s)
  BY <1>3, SequenceOf
<1>5. \A k \in 1..Len(s) : s[k] \in 1..Len(Boxes) /\ Boxes[s[k]].type \notin {"ftyp", "moov"}
  BY <1>3, <1>4 DEF OfNoType
<1> QED BY <1>1, <1>2, <1>3, <1>4, <1>5

LEMMA MovieBoxIs ==
  ASSUME file \in Files, HasMovie
  PROVE  /\ MovieBox(Len(Boxes)) \in 1..Len(Boxes)
         /\ Boxes[MovieBox(Len(Boxes))].type = "moov"
         /\ MovieStart = BoxStart(MovieBox(Len(Boxes)))
<1>1. DOMAIN Boxes = 1..Len(Boxes)
  BY BoxesLie
<1>2. \E i \in 1..Len(Boxes) : Boxes[i].type = "moov"
  BY <1>1 DEF HasMovie
<1>3. MovieStart = BoxStart(MovieBox(Len(Boxes)))
  BY <1>1 DEF MovieStart, MovieBox
<1> QED BY <1>2, <1>3 DEF MovieBox

(* The pieces: the moov of the order laid out again.                       *)
Mark == [i \in 1..Len(Boxes) |-> IF Boxes[i].type = "moov" THEN 0 ELSE i]

LEMMA MarkKeeps ==
  ASSUME NEW s, Sequence(s), \A k \in 1..Len(s) : s[k] \in 1..Len(Boxes) /\ Boxes[s[k]].type # "moov"
  PROVE  Chosen(Mark, s) = s
<1>1. PICK c : c = Chosen(Mark, s)
  OBVIOUS
<1>2. Sequence(c) /\ Len(c) = Len(s) /\ \A k \in 1..Len(s) : c[k] = Mark[s[k]]
  BY <1>1, ChosenEach
<1>3. \A k \in 1..Len(s) : c[k] = s[k]
  BY <1>2 DEF Mark
<1> QED BY <1>1, <1>2, <1>3, EqualAny

LEMMA PiecesAre ==
  ASSUME file \in Files, HasMovie, NEW order, order = Order(Len(Boxes))
  PROVE  /\ [k \in DOMAIN order |-> IF Boxes[order[k]].type = "moov" THEN 0 ELSE order[k]]
              = Ahead \o <<0>> \o Behind
         /\ order \in Seq(1..Len(Boxes))
<1>1. PICK m \in 1..Len(Boxes) : m = MovieBox(Len(Boxes))
  BY MovieBoxIs
<1>2. Boxes[m].type = "moov"
  BY <1>1, MovieBoxIs
<1>3. PICK a : a = Ahead
  OBVIOUS
<1>4. PICK b : b = Behind
  OBVIOUS
<1>5. PICK o : o = <<m>>
  OBVIOUS
<1>6. /\ Sequence(a) /\ \A k \in 1..Len(a) : a[k] \in 1..Len(Boxes) /\ Boxes[a[k]].type # "moov"
      /\ Sequence(b) /\ \A k \in 1..Len(b) : b[k] \in 1..Len(Boxes) /\ Boxes[b[k]].type # "moov"
  BY <1>3, <1>4, AheadIs, BehindIs
<1>7. Sequence(o)
  BY <1>5, OneElement
<1>8. Sequence(a \o o)
  BY <1>6, <1>7, ConcatAny
<1>9. order = (a \o o) \o b
  BY <1>1, <1>3, <1>4, <1>5, OrderIs
<1>10. Chosen(Mark, order) = Chosen(Mark, a \o o) \o Chosen(Mark, b)
  BY <1>6, <1>8, <1>9, ChosenConcat
<1>11. Chosen(Mark, a \o o) = Chosen(Mark, a) \o Chosen(Mark, o)
  BY <1>6, <1>7, ChosenConcat
<1>12. Chosen(Mark, a) = a /\ Chosen(Mark, b) = b
  BY <1>6, MarkKeeps
<1>13. Chosen(Mark, o) = <<0>>
  <2>1. Mark[m] = 0
    BY <1>2 DEF Mark
  <2> QED BY <1>5, <2>1 DEF Chosen
<1>14. order \in Seq(1..Len(Boxes))
  <2>1. a \in Seq(1..Len(Boxes)) /\ b \in Seq(1..Len(Boxes))
    BY <1>3, <1>4, AheadIs, BehindIs
  <2>2. o \in Seq(1..Len(Boxes))
    BY <1>5
  <2> QED BY <1>9, <2>1, <2>2
<1>15. \A k \in DOMAIN order : order[k] \in 1..Len(Boxes)
  BY <1>14
<1>16. [k \in DOMAIN order |-> IF Boxes[order[k]].type = "moov" THEN 0 ELSE order[k]] = Chosen(Mark, order)
  BY <1>15 DEF Mark, Chosen
<1> QED BY <1>3, <1>4, <1>10, <1>11, <1>12, <1>13, <1>14, <1>16

(* WHAT IS STILL TO COME                                                   *)

Places == 0..Len(Boxes)

(* A moov of n bytes as it is laid out again.                              *)
Minus(n) == [k \in 1..n |-> -k]

(* What is laid out of each piece, of L bytes where that is the moov.      *)
Held(L) == [i \in Places |-> IF i = 0 THEN Minus(L) ELSE There(i)]

(* What is to come, `n` bytes of the first piece behind.                   *)
Coming(p, n, L) ==
  IF p = <<>> THEN <<>>
  ELSE Bytes(BoxStart(Head(p)) + n, EndThere(Head(p))) \o FlattenSeq(Chosen(Held(L), Tail(p)))

Once(p) == \A i, j \in 1..Len(p) : p[i] = 0 /\ p[j] = 0 => i = j

LEMMA HeldType ==
  ASSUME file \in Files, NEW L \in Nat
  PROVE  /\ Held(L) \in [Places -> Seq(Int)]
         /\ 0 \in Places /\ Held(L)[0] = Minus(L) /\ Minus(L) \in Seq(Int)
         /\ \A i \in Places : i # 0 => i \in 1..Len(Boxes) /\ Held(L)[i] = There(i)
         /\ 1..Len(Boxes) \subseteq Places
<1>1. Len(Boxes) \in Nat
  BY BoxesLie
<1>2. \A i \in Places : i # 0 => i \in 1..Len(Boxes)
  BY <1>1 DEF Places
<1>3. \A i \in 1..Len(Boxes) : There(i) \in Seq(Int)
  BY ThereIs
<1>4. Minus(L) \in Seq(Int)
  BY DEF Minus
<1>5. \A i \in Places : (IF i = 0 THEN Minus(L) ELSE There(i)) \in Seq(Int)
  BY <1>2, <1>3, <1>4
<1>6. Held(L) \in [Places -> Seq(Int)]
  BY <1>5 DEF Held
<1>7. 0 \in Places /\ 1..Len(Boxes) \subseteq Places
  BY <1>1 DEF Places
<1>8. \A i \in Places : Held(L)[i] = IF i = 0 THEN Minus(L) ELSE There(i)
  BY DEF Held
<1> QED BY <1>2, <1>4, <1>6, <1>7, <1>8

LEMMA ChosenTail ==
  ASSUME file \in Files, NEW L \in Nat, NEW p \in Seq(Places), p # <<>>
  PROVE  /\ FlattenSeq(Chosen(Held(L), p)) = Held(L)[Head(p)] \o FlattenSeq(Chosen(Held(L), Tail(p)))
         /\ Head(p) \in Places /\ Tail(p) \in Seq(Places)
         /\ Held(L)[Head(p)] \in Seq(Int)
         /\ FlattenSeq(Chosen(Held(L), Tail(p))) \in Seq(Int)
<1>1. Head(p) \in Places /\ Tail(p) \in Seq(Places) /\ <<Head(p)>> \in Seq(Places)
  OBVIOUS
<1>2. p = <<Head(p)>> \o Tail(p)
  OBVIOUS
<1>3. PICK h \in Places : h = Head(p)
  BY <1>1
<1>4. PICK t \in Seq(Places) : t = Tail(p)
  BY <1>1
<1>5. PICK o \in Seq(Places) : o = <<h>>
  BY <1>1, <1>3
<1>6. Chosen(Held(L), o \o t) = Chosen(Held(L), o) \o Chosen(Held(L), t)
  BY SequenceOf, ChosenConcat
<1>7. PICK e \in Seq(Int) : e = Held(L)[h]
  BY HeldType
<1>8. Chosen(Held(L), o) = <<e>>
  BY <1>5, <1>7 DEF Chosen
<1>9. PICK u \in Seq(Seq(Int)) : u = Chosen(Held(L), t)
  BY HeldType, ChosenIs
<1>0. <<e>> \in Seq(Seq(Int))
  OBVIOUS
<1>10. PICK v \in Seq(Seq(Int)) : v = <<e>>
  BY <1>0
<1>11. FlattenSeq(v \o u) = FlattenSeq(v) \o FlattenSeq(u)
  BY ONLY FlattenConcat, u \in Seq(Seq(Int)), v \in Seq(Seq(Int))
<1>12. FlattenSeq(v) = e
  BY <1>10, FlattenOne
<1>13. FlattenSeq(u) \in Seq(Int)
  BY ONLY FlattenType, u \in Seq(Seq(Int))
<1>14. p = o \o t
  BY <1>2, <1>3, <1>4, <1>5
<1>15. FlattenSeq(Chosen(Held(L), p)) = e \o FlattenSeq(u)
  BY ONLY <1>6, <1>8, <1>9, <1>10, <1>11, <1>12, <1>14
<1> QED BY <1>1, <1>3, <1>4, <1>7, <1>9, <1>13, <1>15

LEMMA ComingWhole ==
  ASSUME file \in Files, NEW L \in Nat, NEW p \in Seq(Places), p = <<>> \/ Head(p) # 0
  PROVE  Coming(p, 0, L) = FlattenSeq(Chosen(Held(L), p))
<1>1. CASE p = <<>>
  <2>1. Chosen(Held(L), <<>>) = <<>>
    BY DEF Chosen
  <2> QED BY <1>1, <2>1, FlattenEmpty DEF Coming
<1>2. CASE p # <<>>
  <2>1. Head(p) \in Places /\ Head(p) # 0
    BY <1>2, ChosenTail
  <2>2. PICK h \in 1..Len(Boxes) : h = Head(p)
    BY <2>1, HeldType
  <2>3. Held(L)[h] = There(h)
    BY <2>1, <2>2, HeldType
  <2>4. BoxStart(h) + 0 = BoxStart(h)
    BY ThereIs
  <2>5. Coming(p, 0, L) = There(h) \o FlattenSeq(Chosen(Held(L), Tail(p)))
    BY <1>2, <2>2, <2>4 DEF Coming, There
  <2> QED BY <1>2, <2>2, <2>3, <2>5, ChosenTail
<1> QED BY <1>1, <1>2

LEMMA OnceTail ==
  ASSUME NEW p \in Seq(Places), p # <<>>, Once(p)
  PROVE  /\ Once(Tail(p))
         /\ Head(p) = 0 => (Tail(p) = <<>> \/ Head(Tail(p)) # 0)
<1>1. PICK n \in Nat : n = Len(p) /\ n > 0
  OBVIOUS
<1>0. Tail(p) \in Seq(Places)
  OBVIOUS
<1>2. PICK t \in Seq(Places) : t = Tail(p)
  BY <1>0
<1>3. Len(t) = n - 1 /\ Head(p) = p[1]
  BY <1>1, <1>2
<1>4. \A i \in 1..(n - 1) : t[i] = p[i + 1]
  BY <1>1, <1>2
<1>5. Once(t)
  <2> SUFFICES ASSUME NEW i \in 1..(n - 1), NEW j \in 1..(n - 1), t[i] = 0, t[j] = 0 PROVE i = j
    BY <1>3 DEF Once
  <2>1. i + 1 \in 1..n /\ j + 1 \in 1..n /\ p[i + 1] = 0 /\ p[j + 1] = 0
    BY <1>4
  <2>2. i + 1 = j + 1
    BY <1>1, <2>1 DEF Once
  <2> QED BY <2>2
<1>6. ASSUME Head(p) = 0, t # <<>> PROVE Head(t) # 0
  <2>1. Len(t) # 0 /\ Head(t) = t[1]
    BY <1>6
  <2>2. 1 \in 1..(n - 1) /\ 1 \in 1..n /\ 2 \in 1..n
    BY <1>3, <2>1
  <2>3. t[1] = p[2]
    BY <1>4, <2>2
  <2>4. p[2] # 0
    BY <1>1, <1>3, <1>6, <2>2 DEF Once
  <2> QED BY <2>1, <2>3, <2>4
<1> QED BY <1>2, <1>5, <1>6

Plan == IF Rearranged THEN Ahead \o <<0>> \o Behind ELSE Numbers(Len(Boxes))

(* What is laid out, in all.                                               *)
Expected(L) == FlattenSeq(Chosen(Held(L), Plan))

LEMMA PlanIs ==
  ASSUME file \in Files
  PROVE  Plan \in Seq(Places) /\ Once(Plan)
<1>1. PICK n \in Nat : n = Len(Boxes)
  BY BoxesLie
<1>2. CASE Rearranged
  <2>1. PICK a : a = Ahead
    OBVIOUS
  <2>2. PICK b : b = Behind
    OBVIOUS
  <2>3. /\ a \in Seq(1..n) /\ Sequence(a) /\ \A k \in 1..Len(a) : a[k] \in 1..n
        /\ b \in Seq(1..n) /\ Sequence(b) /\ \A k \in 1..Len(b) : b[k] \in 1..n
    BY <1>1, <2>1, <2>2, AheadIs, BehindIs
  <2>4. a \in Seq(0..n) /\ b \in Seq(0..n) /\ <<0>> \in Seq(0..n)
    BY <2>3
  <2>5. a \o <<0>> \in Seq(0..n)
    BY <2>4
  <2>6. (a \o <<0>>) \o b \in Seq(0..n)
    BY <2>4, <2>5
  <2>7. PICK c : c = a \o <<0>>
    OBVIOUS
  <2>8. PICK p : p = c \o b
    OBVIOUS
  <2>9. Sequence(<<0>>) /\ Len(<<0>>) = 1
    BY OneElement
  <2>10. /\ Sequence(c) /\ Len(c) = Len(a) + 1 /\ Len(a) \in Nat
         /\ \A k \in 1..Len(a) : c[k] = a[k]
    BY <2>3, <2>7, <2>9, ConcatAny
  <2>11. /\ Len(p) = Len(c) + Len(b) /\ Len(b) \in Nat
         /\ \A k \in 1..Len(c) : p[k] = c[k]
         /\ \A k \in 1..Len(b) : p[Len(c) + k] = b[k]
    <3>1. /\ Len(c \o b) = Len(c) + Len(b) /\ Len(b) \in Nat
          /\ \A k \in 1..Len(c) : (c \o b)[k] = c[k]
          /\ \A k \in 1..Len(b) : (c \o b)[Len(c) + k] = b[k]
      <4>1. Sequence(c) /\ Sequence(b)
        BY <2>3, <2>10
      <4> QED BY ONLY <4>1, ConcatAny
    <3> QED BY <2>8, <3>1
  <2>12. ASSUME NEW k \in 1..Len(p), k # Len(a) + 1 PROVE p[k] # 0
    <3>1. CASE k <= Len(a)
      <4>1. k \in 1..Len(a) /\ k \in 1..Len(c)
        BY <2>10, <2>11, <2>12, <3>1
      <4>2. p[k] = a[k] /\ a[k] \in 1..n
        BY <2>3, <2>10, <2>11, <4>1
      <4> QED BY <4>2
    <3>2. CASE k > Len(a)
      <4>1. k - Len(c) \in 1..Len(b) /\ k = Len(c) + (k - Len(c))
        BY <2>10, <2>11, <2>12, <3>2
      <4>2. PICK j \in 1..Len(b) : k = Len(c) + j
        BY <4>1
      <4>3. p[k] = b[j] /\ b[j] \in 1..n
        BY <2>3, <2>11, <4>2
      <4> QED BY <4>3
    <3>3. k <= Len(a) \/ k > Len(a)
      BY <2>10, <2>11
    <3> QED BY <3>1, <3>2, <3>3
  <2>13. Once(p)
    BY <2>12 DEF Once
  <2>14. Plan = p
    BY <1>2, <2>1, <2>2, <2>7, <2>8 DEF Plan
  <2> QED BY <1>1, <2>6, <2>7, <2>8, <2>13, <2>14 DEF Places
<1>3. CASE ~Rearranged
  <2>1. PICK p : p = Numbers(n)
    OBVIOUS
  <2>2. p \in Seq(1..n) /\ Len(p) = n /\ \A i \in 1..n : p[i] = i
    BY <2>1, NumbersAre
  <2>3. p \in Seq(0..n)
    BY <2>2
  <2>4. Once(p)
    BY <2>2 DEF Once
  <2>5. Plan = p
    BY <1>1, <1>3, <2>1 DEF Plan
  <2> QED BY <1>1, <2>3, <2>4, <2>5 DEF Places
<1> QED BY <1>2, <1>3

LEMMA ExpectedType ==
  ASSUME file \in Files, NEW L \in Nat
  PROVE  Expected(L) \in Seq(Int)
<1>1. PICK p \in Seq(Places) : p = Plan
  BY PlanIs
<1>2. PICK u \in Seq(Seq(Int)) : u = Chosen(Held(L), p)
  BY HeldType, ChosenIs
<1>3. FlattenSeq(u) \in Seq(Int)
  BY ONLY FlattenType, u \in Seq(Seq(Int))
<1> QED BY <1>1, <1>2, <1>3 DEF Expected

(* All boxes, one after the other, are the whole file.                     *)
LEMMA WholeFile ==
  ASSUME file \in Files, NEW L \in Nat
  PROVE  FlattenSeq(Chosen(Held(L), Numbers(Len(Boxes)))) = Bytes(0, file.length)
<1>0. PICK N \in Nat : N = Len(Boxes)
  BY BoxesLie
<1> DEFINE First(n) == FlattenSeq(Chosen(Held(L), Numbers(n)))
           Upto(n) == IF n = N THEN file.length ELSE BoxStart(n + 1)
           U == {n \in Nat : n <= N => First(n) = Bytes(0, Upto(n))}
<1>1. 0 \in U
  <2>1. Numbers(0) = <<>>
    BY DEF Numbers
  <2>2. Chosen(Held(L), <<>>) = <<>>
    BY DEF Chosen
  <2>3. First(0) = <<>>
    BY <2>1, <2>2, FlattenEmpty
  <2>4. Upto(0) = 0
    <3>1. CASE N = 0
      <4>1. /\ file.length \in Nat /\ BoxStart(1) = 0 /\ file.length <= BoxStart(Len(Boxes) + 1)
        BY BoxesLie
      <4> QED BY <1>0, <3>1, <4>1
    <3>2. CASE N # 0
      BY <3>2, BoxesLie
    <3> QED BY <3>1, <3>2
  <2>5. Bytes(0, 0) = <<>>
    BY BytesNone
  <2> QED BY <2>3, <2>4, <2>5
<1>2. ASSUME NEW n \in Nat, n \in U PROVE n + 1 \in U
  <2> SUFFICES ASSUME n + 1 <= N PROVE First(n + 1) = Bytes(0, Upto(n + 1))
    OBVIOUS
  <2>1. First(n) = Bytes(0, BoxStart(n + 1))
    BY <1>2
  <2>2. n + 1 \in 1..Len(Boxes) /\ n + 1 \in Places
    BY <1>0 DEF Places
  <2>3. Held(L)[n + 1] = There(n + 1)
    BY <2>2, HeldType
  <2>4. /\ BoxStart(n + 1) \in Nat /\ EndThere(n + 1) \in Nat
        /\ BoxStart(n + 1) < EndThere(n + 1)
    BY <2>2, ThereIs
  <2>5. EndThere(n + 1) = Upto(n + 1)
    <3>1. CASE n + 1 = N
      BY <1>0, <2>2, <3>1, ThereIs
    <3>2. CASE n + 1 < N
      <4>1. EndThere(n + 1) = BoxEnd(n + 1)
        BY <1>0, <2>2, <3>2, ThereIs
      <4>2. BoxEnd(n + 1) = BoxStart(n + 1 + 1)
        BY <2>2, BoxesLie
      <4> QED BY <3>2, <4>1, <4>2
    <3> QED BY <3>1, <3>2
  <2>6. First(n + 1) = First(n) \o Held(L)[n + 1]
    <3>1. Sequence(Numbers(n)) /\ Numbers(n + 1) = Numbers(n) \o <<n + 1>>
      BY NumbersAre, NumbersGrow
    <3>2. Numbers(n) \in Seq(Places)
      <4>1. Numbers(n) \in Seq(1..n)
        BY NumbersAre
      <4>2. 1..n \subseteq Places
        BY <1>0 DEF Places
      <4> QED BY <4>1, <4>2
    <3>3. PICK q \in Seq(Places) : q = Numbers(n)
      BY <3>2
    <3>4. PICK o : o = <<n + 1>>
      OBVIOUS
    <3>5. Sequence(o) /\ Sequence(q)
      BY <3>1, <3>3, <3>4, OneElement
    <3>6. Chosen(Held(L), q \o o) = Chosen(Held(L), q) \o Chosen(Held(L), o)
      BY <3>5, ChosenConcat
    <3>7. PICK e \in Seq(Int) : e = Held(L)[n + 1]
      BY <2>2, HeldType
    <3>8. Chosen(Held(L), o) = <<e>>
      BY <3>4, <3>7 DEF Chosen
    <3>9. PICK u \in Seq(Seq(Int)) : u = Chosen(Held(L), q)
      BY HeldType, ChosenIs
    <3>10. <<e>> \in Seq(Seq(Int))
      OBVIOUS
    <3>11. PICK v \in Seq(Seq(Int)) : v = <<e>>
      BY <3>10
    <3>12. FlattenSeq(u \o v) = FlattenSeq(u) \o FlattenSeq(v)
      BY ONLY FlattenConcat, u \in Seq(Seq(Int)), v \in Seq(Seq(Int))
    <3>13. FlattenSeq(v) = e
      BY <3>11, FlattenOne
    <3> QED BY <3>1, <3>3, <3>4, <3>6, <3>7, <3>8, <3>9, <3>11, <3>12, <3>13
  <2>7. Bytes(0, BoxStart(n + 1)) \o Bytes(BoxStart(n + 1), EndThere(n + 1)) = Bytes(0, EndThere(n + 1))
    <3>1. PICK x \in Nat : x = BoxStart(n + 1)
      BY <2>4
    <3>2. PICK y \in Nat : y = EndThere(n + 1)
      BY <2>4
    <3>3. 0 \in Nat /\ 0 <= x /\ x <= y
      BY <2>4, <3>1, <3>2
    <3>4. Bytes(0, x) \o Bytes(x, y) = Bytes(0, y)
      BY ONLY <3>3, x \in Nat, y \in Nat, BytesConcat
    <3> QED BY <3>1, <3>2, <3>4
  <2> QED BY <2>1, <2>3, <2>5, <2>6, <2>7 DEF There
<1>3. \A n \in Nat : n \in U
  <2> HIDE DEF U
  <2> QED BY <1>1, <1>2, SetInduction
<1>4. First(N) = Bytes(0, file.length)
  BY <1>3
<1> QED BY <1>0, <1>4

(* The pieces of some types, and what the file holds of them.              *)
LEMMA HeldOfSome ==
  ASSUME file \in Files, NEW L \in Nat, NEW T
  PROVE  FlattenSeq(Chosen(Held(L), Those(Numbers(Len(Boxes)), T)))
           = FlattenSeq([i \in 1..Len(Boxes) |-> IF i \in T THEN There(i) ELSE <<>>])
<1>1. PICK N \in Nat : N = Len(Boxes)
  BY BoxesLie
<1>2. Held(L) \in [0..N -> Seq(Int)] /\ \A i \in 1..N : Held(L)[i] = There(i)
  <2>1. Places = 0..N
    BY <1>1 DEF Places
  <2>2. Held(L) \in [Places -> Seq(Int)]
    BY HeldType
  <2>3. ASSUME NEW i \in 1..N PROVE Held(L)[i] = There(i)
    <3>1. i \in Places /\ i # 0
      BY <2>1
    <3> QED BY <3>1, HeldType
  <2> QED BY <2>1, <2>2, <2>3
<1>4. PICK g \in [0..N -> Seq(Int)] : g = Held(L)
  BY <1>2
<1>5. FlattenSeq(Chosen(g, Those(Numbers(N), T))) = FlattenSeq(Some(g, N, T))
  BY ONLY FlattenChosen, N \in Nat, g \in [0..N -> Seq(Int)]
<1>6. Some(g, N, T) = [i \in 1..N |-> IF i \in T THEN There(i) ELSE <<>>]
  BY <1>2, <1>4 DEF Some
<1> QED BY <1>1, <1>4, <1>5, <1>6

LEMMA FlattenChosenConcat ==
  ASSUME file \in Files, NEW L \in Nat, NEW p \in Seq(Places), NEW q \in Seq(Places)
  PROVE  FlattenSeq(Chosen(Held(L), p \o q)) = FlattenSeq(Chosen(Held(L), p)) \o FlattenSeq(Chosen(Held(L), q))
<1>1. Sequence(p) /\ Sequence(q)
  BY SequenceOf
<1>2. Chosen(Held(L), p \o q) = Chosen(Held(L), p) \o Chosen(Held(L), q)
  BY <1>1, ChosenConcat
<1>3. PICK u \in Seq(Seq(Int)) : u = Chosen(Held(L), p)
  BY HeldType, ChosenIs
<1>4. PICK v \in Seq(Seq(Int)) : v = Chosen(Held(L), q)
  BY HeldType, ChosenIs
<1>5. FlattenSeq(u \o v) = FlattenSeq(u) \o FlattenSeq(v)
  BY ONLY FlattenConcat, u \in Seq(Seq(Int)), v \in Seq(Seq(Int))
<1> QED BY <1>2, <1>3, <1>4, <1>5

(* The boxes ahead of the moov that is laid out, it, and those behind.     *)
LEMMA ExpectedParts ==
  ASSUME file \in Files, NEW L \in Nat, Rearranged
  PROVE  \E a \in Seq(Int), b \in Seq(Int) :
           /\ a = FlattenSeq(Chosen(Held(L), Ahead))
           /\ b = FlattenSeq(Chosen(Held(L), Behind))
           /\ Minus(L) \in Seq(Int)
           /\ Expected(L) = (a \o Minus(L)) \o b
<1>1. PICK a \in Seq(Places) : a = Ahead
  <2>1. Ahead \in Seq(1..Len(Boxes)) /\ 1..Len(Boxes) \subseteq Places
    BY AheadIs, HeldType
  <2> QED BY <2>1
<1>2. PICK b \in Seq(Places) : b = Behind
  <2>1. Behind \in Seq(1..Len(Boxes)) /\ 1..Len(Boxes) \subseteq Places
    BY BehindIs, HeldType
  <2> QED BY <2>1
<1>3. 0 \in Places /\ <<0>> \in Seq(Places)
  <2>1. 0 \in Places
    BY HeldType
  <2> QED BY <2>1
<1>4. PICK o \in Seq(Places) : o = <<0>>
  BY <1>3
<1>5. a \o o \in Seq(Places)
  OBVIOUS
<1>6. PICK c \in Seq(Places) : c = a \o o
  BY <1>5
<1>7. FlattenSeq(Chosen(Held(L), c \o b)) = FlattenSeq(Chosen(Held(L), c)) \o FlattenSeq(Chosen(Held(L), b))
  BY FlattenChosenConcat
<1>8. FlattenSeq(Chosen(Held(L), a \o o)) = FlattenSeq(Chosen(Held(L), a)) \o FlattenSeq(Chosen(Held(L), o))
  BY FlattenChosenConcat
<1>9. PICK e \in Seq(Int) : e = Minus(L)
  BY HeldType
<1>10. FlattenSeq(Chosen(Held(L), o)) = e
  <2>1. Held(L)[0] = e
    BY <1>9, HeldType
  <2>2. Chosen(Held(L), o) = << e >>
    BY <1>4, <2>1 DEF Chosen
  <2>3. FlattenSeq(<<e>>) = e
    BY FlattenOne
  <2> QED BY <2>2, <2>3
<1>11. Plan = c \o b
  BY <1>1, <1>2, <1>4, <1>6 DEF Plan
<1>12. FlattenSeq(Chosen(Held(L), a)) \in Seq(Int) /\ FlattenSeq(Chosen(Held(L), b)) \in Seq(Int)
  <2>1. PICK u \in Seq(Seq(Int)) : u = Chosen(Held(L), a)
    BY HeldType, ChosenIs
  <2>2. PICK v \in Seq(Seq(Int)) : v = Chosen(Held(L), b)
    BY HeldType, ChosenIs
  <2>3. FlattenSeq(u) \in Seq(Int) /\ FlattenSeq(v) \in Seq(Int)
    BY ONLY FlattenType, u \in Seq(Seq(Int)), v \in Seq(Seq(Int))
  <2> QED BY <2>1, <2>2, <2>3
<1>13. PICK x \in Seq(Int) : x = FlattenSeq(Chosen(Held(L), a))
  BY <1>12
<1>14. PICK y \in Seq(Int) : y = FlattenSeq(Chosen(Held(L), b))
  BY <1>12
<1>15. Expected(L) = (x \o e) \o y
  BY <1>6, <1>7, <1>8, <1>10, <1>11, <1>13, <1>14 DEF Expected
<1> QED BY <1>1, <1>2, <1>9, <1>13, <1>14, <1>15

(* What has passed through, of what is laid out.                           *)
Passed(bytes) == Those(bytes, Nat)

LEMMA PassedType ==
  ASSUME NEW bytes \in Seq(Int)
  PROVE  Passed(bytes) \in Seq(Int)
<1>1. PICK s : s = Those(bytes, Nat)
  OBVIOUS
<1>2. Sequence(s) /\ \A k \in DOMAIN s : s[k] \in Nat
  BY <1>1, SequenceOf, ThoseAny
<1>3. Len(s) \in Nat /\ DOMAIN s = 1..Len(s) /\ s = [i \in 1..Len(s) |-> s[i]]
  BY <1>2, SequenceShape
<1>4. s \in Seq(Int)
  BY <1>2, <1>3
<1> QED BY <1>1, <1>4 DEF Passed

LEMMA PassedConcat ==
  ASSUME NEW s \in Seq(Int), NEW t \in Seq(Int)
  PROVE  Passed(s \o t) = Passed(s) \o Passed(t)
<1>1. Sequence(s) /\ Sequence(t)
  BY SequenceOf
<1> QED BY <1>1, ThoseConcat DEF Passed

LEMMA PassedAll ==
  ASSUME NEW s \in Seq(Nat)
  PROVE  Passed(s) = s
<1>1. Sequence(s) /\ \A k \in DOMAIN s : s[k] \in Nat
  BY SequenceOf
<1> QED BY <1>1, ThoseAll DEF Passed

LEMMA PassedNone ==
  ASSUME NEW n \in Nat
  PROVE  Passed(Minus(n)) = <<>> /\ Passed(<<>>) = <<>>
<1>1. DOMAIN Minus(n) = 1..n /\ \A k \in 1..n : Minus(n)[k] = -k
  BY DEF Minus
<1>2. \A k \in DOMAIN Minus(n) : Minus(n)[k] \notin Nat
  BY <1>1
<1>3. \A k \in DOMAIN <<>> : <<>>[k] \notin Nat
  OBVIOUS
<1> QED BY <1>2, <1>3, ThoseNone DEF Passed

(* What passes through of some of the boxes: all that the file holds.      *)
LEMMA PassedOfSome ==
  ASSUME file \in Files, NEW L \in Nat, NEW T
  PROVE  /\ FlattenSeq(Chosen(Held(L), Those(Numbers(Len(Boxes)), T))) \in Seq(Nat)
         /\ Passed(FlattenSeq(Chosen(Held(L), Those(Numbers(Len(Boxes)), T))))
              = FlattenSeq([i \in 1..Len(Boxes) |-> IF i \in T THEN There(i) ELSE <<>>])
<1>1. PICK N \in Nat : N = Len(Boxes)
  BY BoxesLie
<1>2. \A i \in 1..N : There(i) \in Seq(Nat)
  <2> SUFFICES ASSUME NEW i \in 1..N PROVE There(i) \in Seq(Nat)
    OBVIOUS
  <2>1. PICK x \in Nat : x = BoxStart(i)
    BY <1>1, ThereIs
  <2>2. PICK y \in Nat : y = EndThere(i)
    BY <1>1, ThereIs
  <2>3. y - x \in Nat /\ \A k \in 1..(y - x) : x + k - 1 \in Nat
    BY <1>1, <2>1, <2>2, ThereIs
  <2>4. [k \in 1..(y - x) |-> x + k - 1] \in Seq(Nat)
    BY <2>3
  <2> QED BY <2>1, <2>2, <2>4 DEF There, Bytes
<1>3. <<>> \in Seq(Nat)
  OBVIOUS
<1>4. PICK all : all = [i \in 1..N |-> IF i \in T THEN There(i) ELSE <<>>]
  OBVIOUS
<1>5. all \in Seq(Seq(Nat))
  <2>1. \A i \in 1..N : (IF i \in T THEN There(i) ELSE <<>>) \in Seq(Nat)
    BY <1>2, <1>3
  <2> QED BY <1>4, <2>1
<1>6. FlattenSeq(all) \in Seq(Nat)
  BY ONLY <1>5, FlattenType
<1>7. FlattenSeq(Chosen(Held(L), Those(Numbers(Len(Boxes)), T))) = FlattenSeq(all)
  BY <1>1, <1>4, HeldOfSome
<1> QED BY <1>1, <1>4, <1>6, <1>7, PassedAll

(* All that passes through, in the order it is laid out.                   *)
LEMMA ExpectedIs ==
  ASSUME file \in Files, NEW L \in Nat
  PROVE  Passed(Expected(L)) =
           IF Rearranged
           THEN FlattenSeq([i \in DOMAIN Boxes |-> IF Boxes[i].type = "ftyp" THEN There(i) ELSE <<>>])
                \o FlattenSeq([i \in DOMAIN Boxes |->
                                 IF Boxes[i].type \notin {"ftyp", "moov"} THEN There(i) ELSE <<>>])
           ELSE Bytes(0, file.length)
<1>1. CASE ~Rearranged
  <2>1. Expected(L) = Bytes(0, file.length)
    BY <1>1, WholeFile DEF Expected, Plan
  <2>2. PICK n \in Nat : n = file.length
    BY BoxesLie
  <2>3. PICK s : s = Bytes(0, n)
    OBVIOUS
  <2>4. s \in Seq(Int) /\ Sequence(s) /\ Len(s) = n /\ \A k \in 1..n : s[k] \in Nat
    <3>1. 0 \in Nat /\ 0 <= n /\ n - 0 = n
      OBVIOUS
    <3> QED BY <2>3, <3>1, BytesAre
  <2>5. s \in Seq(Nat)
    BY <2>4
  <2> QED BY <1>1, <2>1, <2>2, <2>3, <2>5, PassedAll
<1>2. CASE Rearranged
  <2>1. PICK a \in Seq(Int), b \in Seq(Int) :
           /\ a = FlattenSeq(Chosen(Held(L), Ahead))
           /\ b = FlattenSeq(Chosen(Held(L), Behind))
           /\ Minus(L) \in Seq(Int)
           /\ Expected(L) = (a \o Minus(L)) \o b
    BY <1>2, ExpectedParts
  <2>2. PICK e \in Seq(Int) : e = Minus(L)
    BY <2>1
  <2>3. a \o e \in Seq(Int)
    OBVIOUS
  <2>4. Passed((a \o e) \o b) = Passed(a \o e) \o Passed(b)
    BY <2>3, PassedConcat
  <2>5. Passed(a \o e) = Passed(a) \o Passed(e)
    BY PassedConcat
  <2>6. Passed(e) = <<>> /\ Passed(a) \in Seq(Int)
    BY <2>2, PassedNone, PassedType
  <2>7. Passed(a) \o <<>> = Passed(a)
    BY <2>6
  <2>8. Passed(Expected(L)) = Passed(a) \o Passed(b)
    BY <2>1, <2>2, <2>4, <2>5, <2>6, <2>7
  <2>9. Passed(a) = FlattenSeq([i \in 1..Len(Boxes) |-> IF i \in OfType({"ftyp"}) THEN There(i) ELSE <<>>])
    BY <2>1, PassedOfSome DEF Ahead
  <2>10. Passed(b) = FlattenSeq([i \in 1..Len(Boxes) |-> IF i \in OfNoType({"ftyp", "moov"}) THEN There(i) ELSE <<>>])
    BY <2>1, PassedOfSome DEF Behind
  <2>11. DOMAIN Boxes = 1..Len(Boxes)
    BY BoxesLie
  <2>12. [i \in 1..Len(Boxes) |-> IF i \in OfType({"ftyp"}) THEN There(i) ELSE <<>>]
           = [i \in DOMAIN Boxes |-> IF Boxes[i].type = "ftyp" THEN There(i) ELSE <<>>]
    BY <2>11 DEF OfType
  <2>13. [i \in 1..Len(Boxes) |-> IF i \in OfNoType({"ftyp", "moov"}) THEN There(i) ELSE <<>>]
           = [i \in DOMAIN Boxes |-> IF Boxes[i].type \notin {"ftyp", "moov"} THEN There(i) ELSE <<>>]
    BY <2>11 DEF OfNoType
  <2> QED BY <1>2, <2>8, <2>9, <2>10, <2>12, <2>13
<1> QED BY <1>1, <1>2

LEMMA PrefixOf ==
  ASSUME NEW S, NEW s \in Seq(S), NEW t \in Seq(S), NEW u \in Seq(S), s \o t = u
  PROVE  IsPrefix(s, u)
<1>1. Sequence(s) /\ Sequence(t) /\ Sequence(u)
  BY SequenceOf
<1>2. /\ Len(u) = Len(s) + Len(t) /\ Len(s) \in Nat /\ Len(t) \in Nat
      /\ \A i \in 1..Len(s) : u[i] = s[i]
  <2>1. /\ Len(s \o t) = Len(s) + Len(t) /\ Len(s) \in Nat /\ Len(t) \in Nat
        /\ \A i \in 1..Len(s) : (s \o t)[i] = s[i]
    BY ONLY <1>1, ConcatAny
  <2> QED BY <2>1
<1>3. SubSeq(s, 1, Len(s)) = SubSeq(u, 1, Len(s))
  BY <1>2
<1> QED BY <1>2, <1>3 DEF IsPrefix

LEMMA KeepsFrom ==
  ASSUME file \in Files, laid \in Seq(Int), NEW L \in Nat, NEW rest \in Seq(Int),
         laid \o rest = Expected(L), Done => rest = <<>>
  PROVE  KeepsEveryByte
<1>1. PICK through \in Seq(Int) : through = Passed(laid)
  BY PassedType
<1>2. Where(laid, LAMBDA byte : byte >= 0) = through
  <2>1. DOMAIN laid = 1..Len(laid) /\ \A i \in DOMAIN laid : laid[i] \in Int
    OBVIOUS
  <2>2. {i \in DOMAIN laid : laid[i] >= 0} = {i \in DOMAIN laid : laid[i] \in Nat}
    BY <2>1
  <2> QED BY <1>1, <2>2 DEF Where, Passed, Those
<1>a. PICK e \in Seq(Int) : e = Passed(Expected(L))
  BY ExpectedType, PassedType
<1>b. PICK r \in Seq(Int) : r = Passed(rest)
  BY PassedType
<1>c. through \o r = e
  <2>1. Passed(laid \o rest) = Passed(laid) \o Passed(rest)
    BY ONLY laid \in Seq(Int), rest \in Seq(Int), PassedConcat
  <2> QED BY <1>1, <1>a, <1>b, <2>1
<1>3. IsPrefix(through, e)
  BY <1>c, PrefixOf
<1>4. Done => through = e
  <2>1. through \o <<>> = through
    OBVIOUS
  <2>2. rest = <<>> => r = <<>>
    <3>1. 0 \in Nat
      OBVIOUS
    <3> QED BY <1>b, <3>1, PassedNone
  <2> QED BY <1>c, <2>1, <2>2
<1> DEFINE ThereOf(i) == [k \in 1..(Min({BoxEnd(i), file.length}) - BoxStart(i)) |-> BoxStart(i) + k - 1]
           expected == IF Rearranged
             THEN FlattenSeq([i \in DOMAIN Boxes |-> IF Boxes[i].type = "ftyp" THEN ThereOf(i) ELSE <<>>])
                  \o FlattenSeq([i \in DOMAIN Boxes |->
                                   IF Boxes[i].type \notin {"ftyp", "moov"} THEN ThereOf(i) ELSE <<>>])
             ELSE [k \in 1..file.length |-> k - 1]
<1>5. e = expected
  <2>1. \A i : There(i) = ThereOf(i)
    BY DEF There, EndThere, Bytes
  <2>2. Bytes(0, file.length) = [k \in 1..file.length |-> k - 1]
    <3>1. PICK n \in Nat : n = file.length
      BY BoxesLie
    <3>2. n - 0 = n /\ \A k \in 1..n : 0 + k - 1 = k - 1
      OBVIOUS
    <3>3. Bytes(0, n) = [k \in 1..n |-> k - 1]
      BY <3>2 DEF Bytes
    <3> QED BY <3>1, <3>3
  <2> HIDE DEF ThereOf
  <2>3. [i \in DOMAIN Boxes |-> IF Boxes[i].type = "ftyp" THEN There(i) ELSE <<>>]
          = [i \in DOMAIN Boxes |-> IF Boxes[i].type = "ftyp" THEN ThereOf(i) ELSE <<>>]
    BY <2>1
  <2>4. [i \in DOMAIN Boxes |-> IF Boxes[i].type \notin {"ftyp", "moov"} THEN There(i) ELSE <<>>]
          = [i \in DOMAIN Boxes |-> IF Boxes[i].type \notin {"ftyp", "moov"} THEN ThereOf(i) ELSE <<>>]
    BY <2>1
  <2> QED BY <1>a, <2>2, <2>3, <2>4, ExpectedIs
<1>6. KeepsEveryByte <=> /\ IsPrefix(Where(laid, LAMBDA byte : byte >= 0), expected)
                         /\ Done => Where(laid, LAMBDA byte : byte >= 0) = expected
  BY DEF KeepsEveryByte
<1> HIDE DEF expected
<1> QED BY <1>2, <1>3, <1>4, <1>5, <1>6

(* WHAT A STEP LEAVES OF THE FILE                                          *)

LEMMA SameFile ==
  ASSUME file' = file, NEW L
  PROVE  /\ Places' = Places
         /\ Held(L)' = Held(L)
         /\ Rearranged' = Rearranged
         /\ Expected(L)' = Expected(L)
<1>1. Boxes' = Boxes
  BY DEF Boxes
<1>2. Places' = Places
  BY <1>1 DEF Places
<1>3. Held(L)' = Held(L)
  BY <1>1, <1>2 DEF Held, Minus, There, EndThere, Bytes, BoxStart, BoxEnd
<1>4. HasMovie' = HasMovie
  BY <1>1 DEF HasMovie
<1>5. MovieStart' = MovieStart
  BY <1>1 DEF MovieStart, BoxStart
<1>6. AsRead' = AsRead
  BY DEF AsRead
<1>7. Rearranged' = Rearranged
  BY <1>4, <1>5, <1>6 DEF Rearranged
<1>8. Ahead' = Ahead
  BY <1>1 DEF Ahead, OfType
<1>9. Behind' = Behind
  BY <1>1 DEF Behind, OfNoType
<1>10. Plan' = Plan
  BY <1>1, <1>7, <1>8, <1>9 DEF Plan
<1>11. Expected(L)' = Expected(L)
  BY <1>3, <1>10 DEF Expected
<1> QED BY <1>2, <1>3, <1>7, <1>11

(* The boxes cut short by the end of the file are among these pieces.      *)
Short(i) == BoxEnd(i) > file.length
KeepsShort(p) == \A i \in 1..Len(Boxes) : Short(i) => \E k \in 1..Len(p) : p[k] = i

(* What is laid out, of L bytes of the moov, and what is to come are all   *)
(* there is.                                                               *)
Lies(p, n, l, L) ==
  /\ L \in Nat
  /\ l \in Seq(Int)
  /\ p \in Seq(Places)
  /\ Once(p)
  /\ KeepsShort(p)
  /\ p # <<>> => Head(p) # 0 /\ n \in Nat /\ BoxStart(Head(p)) + n <= EndThere(Head(p))
  /\ l \o Coming(p, n, L) = Expected(L)

MoovLength(tables) == MovieLength(tables, WideAsRead(tables))

Passing == Lies(pieces, passed, laid, MoovLength(movie))

LEMMA SameLies ==
  ASSUME file' = file, NEW L, MoovLength(movie') = L, Lies(pieces', passed', laid', L)
  PROVE  Passing'
<1>1. Boxes' = Boxes
  BY DEF Boxes
<1>2. Places' = Places /\ Held(L)' = Held(L) /\ Expected(L)' = Expected(L)
  BY SameFile
<1>3. MoovLength(movie)' = L
  BY DEF MoovLength, MovieLength, WideAsRead
<1>4. Lies(pieces, passed, laid, L)'
  BY <1>1, <1>2 DEF Lies, KeepsShort, Short, Coming, Bytes, BoxStart, EndThere, BoxEnd
<1> QED BY <1>3, <1>4 DEF Passing

(* THE STEPS OF THE OUTPUT                                                 *)

LEMMA ComingType ==
  ASSUME file \in Files, NEW L \in Nat, NEW p \in Seq(Places), NEW n,
         p # <<>> => Head(p) # 0 /\ n \in Nat /\ BoxStart(Head(p)) + n <= EndThere(Head(p))
  PROVE  Coming(p, n, L) \in Seq(Int)
<1>1. CASE p = <<>>
  BY <1>1 DEF Coming
<1>2. CASE p # <<>>
  <2>1. PICK h \in 1..Len(Boxes) : h = Head(p)
    BY <1>2, ChosenTail, HeldType
  <2>2. BoxStart(h) + n \in Nat /\ EndThere(h) \in Nat /\ BoxStart(h) + n <= EndThere(h)
    BY <1>2, <2>1, ThereIs
  <2>3. Bytes(BoxStart(h) + n, EndThere(h)) \in Seq(Int)
    BY <2>2, BytesAre
  <2>4. FlattenSeq(Chosen(Held(L), Tail(p))) \in Seq(Int)
    BY <1>2, ChosenTail
  <2>5. Coming(p, n, L) = Bytes(BoxStart(h) + n, EndThere(h)) \o FlattenSeq(Chosen(Held(L), Tail(p)))
    BY <1>2, <2>1 DEF Coming
  <2> QED BY <2>3, <2>4, <2>5
<1> QED BY <1>1, <1>2

LEMMA Regrouped ==
  ASSUME NEW a \in Seq(Int), NEW b \in Seq(Int), NEW c \in Seq(Int)
  PROVE  (a \o b) \o c = a \o (b \o c)
OBVIOUS

(* The first piece is not one cut short.                                   *)
LEMMA ShortTail ==
  ASSUME NEW p \in Seq(Places), p # <<>>, KeepsShort(p), Head(p) \in 1..Len(Boxes) => ~Short(Head(p))
  PROVE  KeepsShort(Tail(p))
<1>1. PICK n \in Nat : n = Len(p) /\ n > 0
  OBVIOUS
<1>2. PICK t : t = Tail(p)
  OBVIOUS
<1>3. Len(t) = n - 1 /\ Head(p) = p[1] /\ \A i \in 1..(n - 1) : t[i] = p[i + 1]
  BY <1>1, <1>2
<1>4. ASSUME NEW i \in 1..Len(Boxes), Short(i) PROVE \E k \in 1..Len(t) : t[k] = i
  <2>1. PICK k \in 1..n : p[k] = i
    BY <1>1, <1>4 DEF KeepsShort
  <2>2. k # 1
    BY <1>3, <1>4, <2>1
  <2>3. k - 1 \in 1..(n - 1) /\ t[k - 1] = i
    <3>1. k - 1 \in 1..(n - 1) /\ (k - 1) + 1 = k
      BY <2>2
    <3> QED BY <1>3, <2>1, <3>1
  <2> QED BY <1>3, <2>3
<1> QED BY <1>2, <1>4 DEF KeepsShort

LEMMA OutputGives ==
  ASSUME file \in Files, NEW rest \in Seq(Places), Once(rest), KeepsShort(rest),
         NEW tables, NEW L \in Nat, L = MoovLength(tables), NEW bytes \in Seq(Int),
         bytes \o FlattenSeq(Chosen(Held(L), rest)) = Expected(L),
         Output(rest, tables, bytes)
  PROVE  Lies(pieces', 0, laid', L)
<1>1. CASE rest # <<>> /\ Head(rest) = 0
  <2>1. pieces' = Tail(rest) /\ laid' = bytes \o Minus(L)
    BY <1>1 DEF Output, Minus, MoovLength
  <2>2. PICK e \in Seq(Int) : e = Minus(L)
    BY HeldType
  <2>3. laid' \in Seq(Int)
    BY <2>1, <2>2
  <2>4. PICK p \in Seq(Places) : p = Tail(rest)
    BY <1>1, ChosenTail
  <2>5. Once(p) /\ (p = <<>> \/ Head(p) # 0)
    BY <1>1, <2>4, OnceTail
  <2>6. PICK u \in Seq(Int) : u = FlattenSeq(Chosen(Held(L), p))
    BY <1>1, <2>4, ChosenTail
  <2>7. FlattenSeq(Chosen(Held(L), rest)) = e \o u
    BY <1>1, <2>2, <2>4, <2>6, ChosenTail, HeldType
  <2>8. Coming(p, 0, L) = u
    BY <2>5, <2>6, ComingWhole
  <2>9. p # <<>> => BoxStart(Head(p)) + 0 <= EndThere(Head(p))
    <3> SUFFICES ASSUME p # <<>> PROVE BoxStart(Head(p)) + 0 <= EndThere(Head(p))
      OBVIOUS
    <3>1. PICK h \in 1..Len(Boxes) : h = Head(p)
      BY <2>5, ChosenTail, HeldType
    <3> QED BY <3>1, ThereIs
  <2>10. pieces' = p
    BY <2>1, <2>4
  <2>11. (bytes \o e) \o u = bytes \o (e \o u)
    BY Regrouped
  <2>12. laid' \o Coming(p, 0, L) = Expected(L)
    BY <2>1, <2>2, <2>7, <2>8, <2>11
  <2>13. KeepsShort(p)
    BY <1>1, <2>4, ShortTail
  <2> QED BY <2>3, <2>5, <2>9, <2>10, <2>12, <2>13 DEF Lies
<1>2. CASE ~(rest # <<>> /\ Head(rest) = 0)
  <2>1. pieces' = rest /\ laid' = bytes
    BY <1>2 DEF Output
  <2>2. Coming(rest, 0, L) = FlattenSeq(Chosen(Held(L), rest))
    BY <1>2, ComingWhole
  <2>3. rest # <<>> => Head(rest) # 0 /\ BoxStart(Head(rest)) + 0 <= EndThere(Head(rest))
    <3> SUFFICES ASSUME rest # <<>> PROVE Head(rest) # 0 /\ BoxStart(Head(rest)) + 0 <= EndThere(Head(rest))
      OBVIOUS
    <3>1. PICK h \in 1..Len(Boxes) : h = Head(rest)
      BY <1>2, ChosenTail, HeldType
    <3> QED BY <1>2, <3>1, ThereIs
  <2> QED BY <2>1, <2>2, <2>3 DEF Lies
<1> QED BY <1>1, <1>2

LEMMA PassThroughKeeps ==
  ASSUME file \in Files, Passing,
         NEW offset \in Nat, NEW upTo \in Nat, upTo <= file.length,
         PassThrough(offset, upTo)
  PROVE  Passing' /\ movie' = movie /\ file' = file
<1>0. file' = file /\ pieces # <<>>
  BY DEF PassThrough
<1>a. PICK L \in Nat : L = MoovLength(movie)
  BY DEF Passing, Lies
<1>b. Lies(pieces, passed, laid, L)
  BY <1>a DEF Passing
<1>1. PICK h \in 1..Len(Boxes) : h = Head(pieces)
  BY <1>0, <1>b, ChosenTail, HeldType DEF Lies
<1>2. /\ laid \in Seq(Int) /\ pieces \in Seq(Places) /\ Once(pieces) /\ KeepsShort(pieces)
      /\ passed \in Nat /\ BoxStart(h) + passed <= EndThere(h)
      /\ laid \o Coming(pieces, passed, L) = Expected(L)
  BY <1>0, <1>1, <1>b DEF Lies
<1>3. CASE offset > PassFrom /\ failed' = "unwanted" /\ UNCHANGED layout
  <2>1. Lies(pieces', passed', laid', L) /\ movie' = movie
    BY <1>3, <1>b DEF layout
  <2> QED BY <1>0, <1>a, <2>1, SameLies
<1>4. CASE /\ offset <= PassFrom
           /\ upTo > PassFrom
           /\ \E bytes \in {laid \o [k \in 1..(PassTo(upTo) - PassFrom) |-> PassFrom + k - 1]} :
                IF PassedWhole(upTo) THEN NextPiece(bytes)
                ELSE /\ passed' = passed + (PassTo(upTo) - PassFrom)
                     /\ laid' = bytes
                     /\ UNCHANGED pieces
           /\ UNCHANGED <<movie, failed>>
  <2>1. PICK a \in Nat : a = BoxStart(h) + passed
    BY <1>2, ThereIs
  <2>2. PassFrom = a
    BY <1>1, <2>1 DEF PassFrom
  <2>3. PICK e \in Nat : e = EndThere(h)
    BY ThereIs
  <2>4. /\ BoxEnd(h) \in Nat /\ BoxStart(h) \in Nat
        /\ e = Min({BoxEnd(h), file.length}) /\ file.length \in Nat
        /\ RunsToFileEnd(h) => BoxEnd(h) = file.length
        /\ a <= e /\ e <= file.length /\ e <= BoxEnd(h)
    BY <1>2, <2>1, <2>3, ThereIs, BoxesLie, LastEnds DEF EndThere
  <2>5. h < Len(Boxes) => e = BoxEnd(h)
    BY <2>3, ThereIs
  <2>6. h = Len(Boxes) => e = file.length
    BY <2>3, ThereIs
  <2>7. h < Len(Boxes) \/ h = Len(Boxes)
    <3>1. Len(Boxes) \in Nat
      BY BoxesLie
    <3> QED BY <3>1
  <2>8. PICK b : b = PassTo(upTo)
    OBVIOUS
  <2>9. /\ b = IF RunsToFileEnd(h) \/ upTo < BoxEnd(h) THEN upTo ELSE BoxEnd(h)
        /\ PassedWhole(upTo) <=> ~RunsToFileEnd(h) /\ upTo >= BoxEnd(h)
    BY <1>1, <2>8 DEF PassTo, PassedWhole
  <2>10. b \in Nat /\ a <= b /\ b <= e
    BY <1>4, <2>2, <2>4, <2>5, <2>6, <2>7, <2>9
  <2>11. PICK more \in Seq(Int) : more = Bytes(a, b)
    BY <2>10, BytesAre
  <2>12. laid \o [k \in 1..(PassTo(upTo) - PassFrom) |-> PassFrom + k - 1] = laid \o more
    BY <2>2, <2>8, <2>11 DEF Bytes
  <2>13. laid \o more \in Seq(Int)
    BY <1>2
  <2>14. PICK rest \in Seq(Int) : rest = FlattenSeq(Chosen(Held(L), Tail(pieces)))
    BY <1>0, <1>2, ChosenTail
  <2>15. Coming(pieces, passed, L) = Bytes(a, e) \o rest
    BY <1>0, <1>1, <2>1, <2>3, <2>14 DEF Coming
  <2>16. PICK left \in Seq(Int) : left = Bytes(b, e)
    BY <2>10, BytesAre
  <2>17. Bytes(a, e) = more \o left
    BY <2>10, <2>11, <2>16, BytesConcat
  <2>18. PICK l \in Seq(Int) : l = laid
    BY <1>2
  <2>19. Expected(L) = (l \o more) \o (left \o rest)
    <3>1. Expected(L) = l \o ((more \o left) \o rest)
      BY <1>2, <2>15, <2>17, <2>18
    <3>2. l \o ((more \o left) \o rest) = (l \o more) \o (left \o rest)
      <4>2. left \o rest \in Seq(Int)
        OBVIOUS
      <4>3. (more \o left) \o rest = more \o (left \o rest)
        BY ONLY more \in Seq(Int), left \in Seq(Int), rest \in Seq(Int), Regrouped
      <4>4. (l \o more) \o (left \o rest) = l \o (more \o (left \o rest))
        BY ONLY <4>2, l \in Seq(Int), more \in Seq(Int), Regrouped
      <4> QED BY <4>3, <4>4
    <3> QED BY <3>1, <3>2
  <2>20. PICK bytes \in Seq(Int) : bytes = laid \o more
    BY <2>13
  <2>21. CASE PassedWhole(upTo)
    <3>1. b = e /\ upTo >= BoxEnd(h)
      BY <2>4, <2>5, <2>6, <2>7, <2>9, <2>21
    <3>2. left = <<>>
      BY <2>16, <3>1, BytesNone
    <3>3. left \o rest = rest
      BY <3>2
    <3>4. bytes \o rest = Expected(L)
      BY <2>18, <2>19, <2>20, <3>3
    <3>5. PICK p \in Seq(Places) : p = Tail(pieces)
      BY <1>0, <1>2, ChosenTail
    <3>6. Once(p)
      BY <1>0, <1>2, <3>5, OnceTail
    <3>7. passed' = 0 /\ Output(p, movie, bytes)
      BY <1>4, <2>12, <2>20, <2>21, <3>5 DEF NextPiece
    <3>8. KeepsShort(p)
      <4>1. ~Short(h)
        BY <2>4, <3>1 DEF Short
      <4> QED BY <1>0, <1>1, <1>2, <3>5, <4>1, ShortTail
    <3>9. bytes \o FlattenSeq(Chosen(Held(L), p)) = Expected(L)
      BY <2>14, <3>4, <3>5
    <3>10. Lies(pieces', 0, laid', L)
      BY <1>a, <3>6, <3>7, <3>8, <3>9, OutputGives
    <3> QED BY <1>0, <1>4, <1>a, <3>7, <3>10, SameLies
  <2>22. CASE ~PassedWhole(upTo)
    <3>1. passed' = passed + (b - a) /\ laid' = bytes /\ pieces' = pieces
      BY <1>4, <2>2, <2>8, <2>12, <2>20, <2>22
    <3>2. passed' \in Nat /\ BoxStart(h) + passed' = b
      <4>1. passed \in Nat /\ BoxStart(h) \in Nat /\ a = BoxStart(h) + passed /\ b \in Nat /\ a <= b
        BY <1>2, <2>1, <2>4, <2>10
      <4>2. PICK x \in Nat : x = BoxStart(h)
        BY <4>1
      <4>3. PICK y \in Nat : y = passed
        BY <4>1
      <4>4. y + (b - a) \in Nat /\ x + (y + (b - a)) = b
        <5>1. a = x + y
          BY <4>1, <4>2, <4>3
        <5>2. b \in Nat /\ a <= b
          BY <4>1
        <5> QED BY ONLY <5>1, <5>2, x \in Nat, y \in Nat
      <4>5. passed' = y + (b - a)
        BY <3>1, <4>3
      <4> QED BY <4>2, <4>4, <4>5
    <3>3. Coming(pieces', passed', L) = left \o rest
      BY <1>0, <1>1, <2>3, <2>14, <2>16, <3>1, <3>2 DEF Coming
    <3>4. laid' \o Coming(pieces', passed', L) = Expected(L)
      BY <2>18, <2>19, <2>20, <3>1, <3>3
    <3>5. pieces' # <<>> => /\ Head(pieces') # 0 /\ passed' \in Nat
                            /\ BoxStart(Head(pieces')) + passed' <= EndThere(Head(pieces'))
      BY <1>1, <2>3, <2>10, <3>1, <3>2
    <3>6. Lies(pieces', passed', laid', L)
      BY <1>2, <3>1, <3>4, <3>5 DEF Lies
    <3> QED BY <1>0, <1>4, <1>a, <3>6, SameLies
  <2> QED BY <2>21, <2>22
<1> QED BY <1>3, <1>4 DEF PassThrough

LEMMA FinishPassingKeeps ==
  ASSUME file \in Files, Passing, FinishPassing
  PROVE  Passing' /\ movie' = movie /\ file' = file
<1>0. file' = file /\ pieces # <<>> /\ PassFrom >= file.length
  BY DEF FinishPassing
<1>a. PICK L \in Nat : L = MoovLength(movie)
  BY DEF Passing, Lies
<1>b. Lies(pieces, passed, laid, L)
  BY <1>a DEF Passing
<1>1. PICK h \in 1..Len(Boxes) : h = Head(pieces)
  BY <1>0, <1>b, ChosenTail, HeldType DEF Lies
<1>2. /\ laid \in Seq(Int) /\ pieces \in Seq(Places) /\ Once(pieces) /\ KeepsShort(pieces)
      /\ passed \in Nat /\ BoxStart(h) + passed <= EndThere(h)
      /\ laid \o Coming(pieces, passed, L) = Expected(L)
  BY <1>0, <1>1, <1>b DEF Lies
<1>3. CASE RunsToFileEnd(Head(pieces)) /\ NextPiece(laid) /\ UNCHANGED <<movie, failed>>
  <2>1. PICK a \in Nat : a = BoxStart(h) + passed
    BY <1>2, ThereIs
  <2>2. EndThere(h) = a
    <3>1. EndThere(h) \in Nat /\ EndThere(h) <= file.length /\ file.length \in Nat
      BY ThereIs, BoxesLie
    <3> QED BY <1>0, <1>1, <1>2, <2>1, <3>1 DEF PassFrom
  <2>3. PICK rest \in Seq(Int) : rest = FlattenSeq(Chosen(Held(L), Tail(pieces)))
    BY <1>0, <1>2, ChosenTail
  <2>4. Coming(pieces, passed, L) = <<>> \o rest
    BY <1>0, <1>1, <2>1, <2>2, <2>3, BytesNone DEF Coming
  <2>5. laid \o rest = Expected(L)
    BY <1>2, <2>4
  <2>6. PICK p \in Seq(Places) : p = Tail(pieces)
    BY <1>0, <1>2, ChosenTail
  <2>7. Once(p)
    BY <1>0, <1>2, <2>6, OnceTail
  <2>8. passed' = 0 /\ Output(p, movie, laid)
    BY <1>3, <2>6 DEF NextPiece
  <2>9. KeepsShort(p)
    <3>1. ~Short(h)
      <4>1. BoxEnd(h) = file.length /\ file.length \in Nat
        BY <1>1, <1>3, LastEnds, BoxesLie
      <4> QED BY <4>1 DEF Short
    <3> QED BY <1>0, <1>1, <1>2, <2>6, <3>1, ShortTail
  <2>10. laid \o FlattenSeq(Chosen(Held(L), p)) = Expected(L)
    BY <2>3, <2>5, <2>6
  <2>11. Lies(pieces', 0, laid', L)
    BY <1>2, <1>a, <2>7, <2>8, <2>9, <2>10, OutputGives
  <2> QED BY <1>0, <1>3, <1>a, <2>8, <2>11, SameLies
<1>4. CASE failed' = "unfinished" /\ UNCHANGED layout
  <2>1. Lies(pieces', passed', laid', L) /\ movie' = movie
    BY <1>4, <1>b DEF layout
  <2> QED BY <1>0, <1>a, <2>1, SameLies
<1> QED BY <1>3, <1>4 DEF FinishPassing

(* WHERE EACH PART OF A JOINED SEQUENCE IS                                 *)

(* The first n sequences joined have this many elements, and hold each of  *)
(* theirs behind those before.                                             *)
Lengths(seqs) == [k \in 1..Len(seqs) |-> Len(seqs[k])]

Holding(whole, seqs, f, n) ==
  /\ Len(whole) = f[n]
  /\ \A k \in 1..n : \A j \in 1..Len(seqs[k]) : whole[f[k - 1] + j] = seqs[k][j]

LEMMA FlattenAt ==
  ASSUME NEW S, NEW seqs \in Seq(Seq(S)), NEW f, Sums(f, Len(seqs), Lengths(seqs))
  PROVE  Holding(FlattenSeq(seqs), seqs, f, Len(seqs))
<1>0. PICK N \in Nat : N = Len(seqs)
  OBVIOUS
<1>1. \A k \in 1..N : seqs[k] \in Seq(S) /\ Len(seqs[k]) \in Nat /\ Lengths(seqs)[k] = Len(seqs[k])
  BY <1>0 DEF Lengths
<1>2. /\ f[0] = 0
      /\ \A n \in 0..N : f[n] \in Nat
      /\ \A n \in 1..N : f[n] = f[n - 1] + Len(seqs[n])
      /\ \A m \in 0..N, n \in 0..N : m <= n => f[m] <= f[n]
  <2>1. \A k \in 1..N : Lengths(seqs)[k] \in Nat
    BY <1>1
  <2>2. PICK own : own = Lengths(seqs)
    OBVIOUS
  <2>3. Sums(f, N, own) /\ \A k \in 1..N : own[k] \in Nat
    BY <1>0, <2>1, <2>2
  <2>4. /\ f[0] = 0
        /\ \A n \in 0..N : f[n] \in Nat
        /\ \A n \in 1..N : f[n] = f[n - 1] + own[n]
        /\ \A m \in 0..N, n \in 0..N : m <= n => f[m] <= f[n]
    BY ONLY <2>3, N \in Nat, SumsSteps
  <2> QED BY <1>1, <2>2, <2>4
<1> DEFINE First(n) == FlattenSeq(SubSeq(seqs, 1, n))
           U == {n \in Nat : n <= N => Holding(First(n), seqs, f, n)}
<1>3. 0 \in U
  <2>1. SubSeq(seqs, 1, 0) = <<>>
    OBVIOUS
  <2>2. First(0) = <<>> /\ Len(<<>>) = 0
    BY <2>1, FlattenEmpty
  <2> QED BY <1>2, <2>2 DEF Holding
<1>4. ASSUME NEW n \in Nat, n \in U PROVE n + 1 \in U
  <2> SUFFICES ASSUME n + 1 <= N PROVE Holding(First(n + 1), seqs, f, n + 1)
    OBVIOUS
  <2>1. /\ First(n + 1) = First(n) \o seqs[n + 1]
        /\ SubSeq(seqs, 1, n) \in Seq(Seq(S))
    BY <1>0, FlattenFront
  <2>2. PICK u \in Seq(S) : u = First(n)
    BY <2>1, FlattenType
  <2>3. n + 1 \in 1..N /\ n \in 0..N /\ n + 1 - 1 = n
    BY <1>0
  <2>4. PICK e \in Seq(S) : e = seqs[n + 1]
    BY <1>1, <2>3
  <2>5. Holding(u, seqs, f, n)
    BY <1>4, <2>2
  <2>6. Len(u) = f[n] /\ f[n] \in Nat /\ f[n + 1] = f[n] + Len(e)
    BY <1>2, <2>3, <2>4, <2>5 DEF Holding
  <2>7. /\ Len(u \o e) = Len(u) + Len(e) /\ Len(e) \in Nat
        /\ \A i \in 1..Len(u) : (u \o e)[i] = u[i]
        /\ \A i \in 1..Len(e) : (u \o e)[Len(u) + i] = e[i]
    OBVIOUS
  <2>8. ASSUME NEW k \in 1..(n + 1), NEW j \in 1..Len(seqs[k])
        PROVE  (u \o e)[f[k - 1] + j] = seqs[k][j]
    <3>1. CASE k = n + 1
      BY <2>3, <2>4, <2>6, <2>7, <2>8, <3>1
    <3>2. CASE k # n + 1
      <4>1. k \in 1..n /\ k \in 1..N /\ k - 1 \in 0..N /\ n \in 0..N /\ k \in 0..N
        BY <2>3, <3>2
      <4>2. f[k] = f[k - 1] + Len(seqs[k]) /\ f[k] <= f[n] /\ f[k - 1] \in Nat /\ Len(seqs[k]) \in Nat
        <5>1. f[k] <= f[n]
          <6>1. k <= n
            BY <4>1
          <6> QED BY <1>2, <4>1, <6>1
        <5> QED BY <1>1, <1>2, <4>1, <5>1
      <4>3. f[k - 1] + j \in 1..Len(u)
        <5>1. j \in Nat /\ j >= 1 /\ j <= Len(seqs[k])
          BY <2>8, <4>2
        <5>2. PICK x \in Nat : x = f[k - 1]
          BY <4>2
        <5>3. PICK y \in Nat : y = Len(seqs[k])
          BY <4>2
        <5>4. PICK z \in Nat : z = f[n]
          BY <2>6
        <5>5. x + y <= z /\ Len(u) = z
          BY <2>6, <4>2, <5>2, <5>3, <5>4
        <5>6. x + j \in 1..z
          BY ONLY <5>1, <5>3, <5>5, x \in Nat, y \in Nat, z \in Nat
        <5> QED BY <5>2, <5>5, <5>6
      <4>4. u[f[k - 1] + j] = seqs[k][j]
        BY <2>5, <2>8, <4>1 DEF Holding
      <4> QED BY <2>7, <4>3, <4>4
    <3> QED BY <3>1, <3>2
  <2>9. Holding(u \o e, seqs, f, n + 1)
    BY <2>6, <2>7, <2>8 DEF Holding
  <2> QED BY <2>1, <2>2, <2>4, <2>9
<1>5. \A n \in Nat : n \in U
  <2> HIDE DEF U
  <2> QED BY <1>3, <1>4, SetInduction
<1>6. Holding(First(N), seqs, f, N)
  BY <1>5
<1>7. SubSeq(seqs, 1, N) = seqs
  BY <1>0
<1> QED BY <1>0, <1>6, <1>7

LEMMA LengthsSum ==
  ASSUME NEW S, NEW seqs \in Seq(Seq(S))
  PROVE  \E f : /\ Sums(f, Len(seqs), Lengths(seqs))
                /\ f[0] = 0
                /\ \A n \in 0..Len(seqs) : f[n] \in Nat
                /\ \A n \in 1..Len(seqs) : f[n] = f[n - 1] + Len(seqs[n])
                /\ \A m \in 0..Len(seqs), n \in 0..Len(seqs) : m <= n => f[m] <= f[n]
<1>0. PICK N \in Nat : N = Len(seqs)
  OBVIOUS
<1>1. PICK own : own = Lengths(seqs)
  OBVIOUS
<1>2. \A k \in 1..N : own[k] \in Nat /\ own[k] = Len(seqs[k])
  BY <1>0, <1>1 DEF Lengths
<1>3. PICK f : Sums(f, N, own)
  BY <1>2, SumsExist
<1>4. /\ f[0] = 0
      /\ \A n \in 0..N : f[n] \in Nat
      /\ \A n \in 1..N : f[n] = f[n - 1] + own[n]
      /\ \A m \in 0..N, n \in 0..N : m <= n => f[m] <= f[n]
  BY ONLY <1>2, <1>3, N \in Nat, SumsSteps
<1> QED BY <1>0, <1>1, <1>2, <1>3, <1>4

LEMMA ThoseHas ==
  ASSUME NEW s, NEW T, Sequence(s), NEW i \in 1..Len(s), s[i] \in T
  PROVE  Those(s, T) # <<>>
<1>1. PICK e : e = s[i]
  OBVIOUS
<1>2. \E k \in 1..Len(Those(s, T)) : Those(s, T)[k] = e
  <2>1. e \in T /\ \E j \in 1..Len(s) : s[j] = e
    BY <1>1
  <2>2. \A d \in T : (\E j \in 1..Len(s) : s[j] = d) => \E k \in 1..Len(Those(s, T)) : Those(s, T)[k] = d
    BY ThoseShape
  <2> QED BY ONLY <2>1, <2>2
<1>3. Len(<<>>) = 0
  OBVIOUS
<1> QED BY <1>2, <1>3

(* What is joined of sequences without a negative number has none.         *)
LEMMA FlattenNegative ==
  ASSUME NEW seqs \in Seq(Seq(Int)), Those(FlattenSeq(seqs), {n \in Int : n < 0}) = <<>>
  PROVE  \A k \in 1..Len(seqs) : \A j \in 1..Len(seqs[k]) : seqs[k][j] >= 0
<1>1. PICK f : /\ Sums(f, Len(seqs), Lengths(seqs))
               /\ f[0] = 0
               /\ \A n \in 0..Len(seqs) : f[n] \in Nat
               /\ \A n \in 1..Len(seqs) : f[n] = f[n - 1] + Len(seqs[n])
               /\ \A m \in 0..Len(seqs), n \in 0..Len(seqs) : m <= n => f[m] <= f[n]
  BY LengthsSum
<1>2. PICK w \in Seq(Int) : w = FlattenSeq(seqs)
  BY FlattenType
<1>3. Holding(w, seqs, f, Len(seqs))
  BY <1>1, <1>2, FlattenAt
<1> SUFFICES ASSUME NEW k \in 1..Len(seqs), NEW j \in 1..Len(seqs[k]) PROVE seqs[k][j] >= 0
  OBVIOUS
<1>4. PICK e \in Int : e = seqs[k][j]
  OBVIOUS
<1>5. Len(seqs) \in Nat /\ Len(seqs[k]) \in Nat
  OBVIOUS
<1>6. /\ k - 1 \in 0..Len(seqs) /\ k \in 0..Len(seqs) /\ Len(seqs) \in 0..Len(seqs)
      /\ k <= Len(seqs)
  BY <1>5
<1>7. f[k - 1] \in Nat /\ f[k] = f[k - 1] + Len(seqs[k]) /\ f[k] <= f[Len(seqs)]
  BY <1>1, <1>6
<1>8. Len(w) = f[Len(seqs)] /\ w[f[k - 1] + j] = e /\ Len(w) \in Nat
  BY <1>3, <1>4 DEF Holding
<1>9. PICK x \in Nat : x = f[k - 1]
  BY <1>7
<1>10. x + j \in 1..Len(w)
  <2>1. PICK l \in Nat : l = Len(seqs[k])
    BY <1>5
  <2>2. j \in 1..l
    BY <2>1
  <2>3. PICK m \in Nat : m = Len(w)
    BY <1>8
  <2>4. x + l <= m
    BY <1>7, <1>8, <1>9, <2>1, <2>3
  <2>5. x + j \in 1..m
    BY ONLY <2>2, <2>4, x \in Nat, l \in Nat, m \in Nat
  <2> QED BY <2>3, <2>5
<1>11. Sequence(w)
  BY SequenceOf
<1>12. e \notin {n \in Int : n < 0}
  <2> SUFFICES ASSUME e \in {n \in Int : n < 0} PROVE FALSE
    OBVIOUS
  <2>1. PICK T : T = {n \in Int : n < 0}
    OBVIOUS
  <2>2. e \in T /\ \E i \in 1..Len(w) : w[i] = e
    BY <1>8, <1>9, <1>10, <2>1
  <2>b. PICK i \in 1..Len(w) : w[i] \in T
    BY <2>2
  <2>3. Those(w, T) # <<>>
    BY <1>11, <2>b, ThoseHas
  <2>4. Those(w, T) = <<>>
    BY <1>2, <2>1
  <2> QED BY <2>3, <2>4
<1> QED BY <1>4, <1>12

(* WHAT IS COMPUTED STEP BY STEP                                           *)

Steps(f, N, first, step) ==
  f = [n \in 0..N |-> IF n = 0 THEN first ELSE step[n][f[n - 1]]]

LEMMA StepsExist ==
  ASSUME NEW N \in Nat, NEW first, NEW step
  PROVE  \E f : Steps(f, N, first, step)
<1> DEFINE Value(f, n) == IF n = 0 THEN first ELSE step[n][f[n - 1]]
           T == {m \in Nat : \E f : f = [n \in 0..N |-> f[n]]
                                    /\ \A n \in 0..N : n <= m => f[n] = Value(f, n)}
<1>1. 0 \in T
  <2> DEFINE g == [n \in 0..N |-> first]
  <2>1. g = [n \in 0..N |-> g[n]]
    OBVIOUS
  <2>2. \A n \in 0..N : n <= 0 => g[n] = Value(g, n)
    OBVIOUS
  <2> QED BY <2>1, <2>2
<1>2. ASSUME NEW m \in Nat, m \in T PROVE m + 1 \in T
  <2>1. PICK f : f = [n \in 0..N |-> f[n]] /\ \A n \in 0..N : n <= m => f[n] = Value(f, n)
    BY <1>2
  <2> DEFINE g == [n \in 0..N |-> IF n = m + 1 THEN Value(f, n) ELSE f[n]]
  <2>2. g = [n \in 0..N |-> g[n]]
    OBVIOUS
  <2>3. ASSUME NEW n \in 0..N, n <= m + 1 PROVE g[n] = Value(g, n)
    <3>1. g[n] = Value(f, n)
      <4>1. n # m + 1 => n <= m
        BY <2>3
      <4>2. n # m + 1 => f[n] = Value(f, n)
        BY <2>1, <4>1
      <4> HIDE DEF Value
      <4> QED BY <4>2
    <3>2. n # 0 => g[n - 1] = f[n - 1]
      <4>1. n # 0 => n - 1 \in 0..N /\ n - 1 # m + 1
        BY <2>3
      <4> QED BY <4>1
    <3> QED BY <3>1, <3>2
  <2> HIDE DEF g, Value
  <2> QED BY <2>2, <2>3
<1>3. N \in T
  <2>1. \A n \in Nat : n \in T
    <3> HIDE DEF T
    <3> QED BY <1>1, <1>2, SetInduction
  <2> HIDE DEF T
  <2> QED BY <2>1
<1>4. PICK f : f = [n \in 0..N |-> f[n]] /\ \A n \in 0..N : n <= N => f[n] = Value(f, n)
  BY <1>3
<1>5. \A n \in 0..N : f[n] = Value(f, n)
  <2>1. \A n \in 0..N : n <= N
    OBVIOUS
  <2> HIDE DEF Value
  <2> QED BY <1>4, <2>1
<1>6. f = [n \in 0..N |-> Value(f, n)]
  <2> HIDE DEF Value
  <2> QED BY <1>4, <1>5
<1> QED BY <1>6 DEF Steps

StepsTaken(f, N, S, first, step) ==
  /\ f = [n \in 0..N |-> f[n]]
  /\ \A n \in 0..N : f[n] \in S
  /\ f[0] = first
  /\ \A n \in 1..N : f[n] = step[n][f[n - 1]]

LEMMA StepsIn ==
  ASSUME NEW N \in Nat, NEW S, NEW first \in S, NEW step \in [1..N -> [S -> S]]
  PROVE  \E f : StepsTaken(f, N, S, first, step)
<1>1. PICK f : Steps(f, N, first, step)
  BY StepsExist
<1>2. f = [n \in 0..N |-> f[n]] /\ \A n \in 0..N : f[n] = IF n = 0 THEN first ELSE step[n][f[n - 1]]
  <2>1. f = [n \in 0..N |-> IF n = 0 THEN first ELSE step[n][f[n - 1]]]
    BY <1>1 DEF Steps
  <2>2. \A n \in 0..N : f[n] = IF n = 0 THEN first ELSE step[n][f[n - 1]]
    BY <2>1
  <2> QED BY <2>1, <2>2, Zenon
<1>3. f[0] = first
  <2>1. 0 \in 0..N
    OBVIOUS
  <2> QED BY <1>2, <2>1
<1>4. \A n \in 1..N : f[n] = step[n][f[n - 1]]
  <2>1. \A n \in 1..N : n \in 0..N /\ n # 0
    OBVIOUS
  <2> QED BY <1>2, <2>1
<1> DEFINE U == {n \in Nat : n <= N => f[n] \in S}
<1>5. 0 \in U
  BY <1>3
<1>6. ASSUME NEW n \in Nat, n \in U PROVE n + 1 \in U
  <2> SUFFICES ASSUME n + 1 <= N PROVE f[n + 1] \in S
    OBVIOUS
  <2>1. n + 1 \in 1..N /\ n + 1 - 1 = n
    OBVIOUS
  <2>2. f[n] \in S
    BY <1>6, <2>1
  <2>3. step[n + 1] \in [S -> S]
    BY <2>1
  <2> QED BY <1>4, <2>1, <2>2, <2>3
<1>7. \A n \in Nat : n \in U
  <2> HIDE DEF U
  <2> QED BY <1>5, <1>6, SetInduction
<1>8. \A n \in 0..N : f[n] \in S
  BY <1>7
<1> QED BY <1>2, <1>3, <1>4, <1>8 DEF StepsTaken

(* WHERE THE BOXES LAID OUT AGAIN START                                    *)

Capped(x) == IF x <= MaxPosition THEN x ELSE MaxPosition

LEMMA NewLengthIs ==
  ASSUME file \in Files, NEW i \in 1..Len(Boxes), NEW L \in Nat
  PROVE  /\ NewLength(i, L) \in Nat
         /\ Boxes[i].type = "moov" => NewLength(i, L) = L
         /\ Boxes[i].type # "moov" /\ ~RunsToFileEnd(i) => NewLength(i, L) = Boxes[i].bytes
<1>1. Boxes[i] \in FileBox
  BY BoxesLie
<1>2. Boxes[i].bytes \in Nat
  BY <1>1 DEF FileBox
<1> QED BY <1>2, LimitsAssumption DEF NewLength

Caps(f, N, own) == f = [k \in 0..N |-> IF k = 0 THEN 0 ELSE Min({MaxPosition, f[k - 1] + own[k]})]

LEMMA CappedIs ==
  ASSUME NEW x \in Nat
  PROVE  Capped(x) \in Nat /\ Min({MaxPosition, x}) = Capped(x)
<1>1. MaxPosition \in Int /\ x \in Int /\ MaxPosition \in Nat
  BY LimitsAssumption
<1>2. Min({MaxPosition, x}) = IF MaxPosition <= x THEN MaxPosition ELSE x
  BY <1>1, OfTwo
<1> QED BY <1>1, <1>2 DEF Capped

LEMMA CapsSteps ==
  ASSUME NEW N \in Nat, NEW own, \A n \in 1..N : own[n] \in Nat, NEW f, Caps(f, N, own)
  PROVE  /\ f[0] = 0
         /\ \A n \in 0..N : f[n] \in Nat
         /\ \A n \in 1..N : f[n] = Capped(f[n - 1] + own[n])
<1>1. \A n \in 0..N : f[n] = IF n = 0 THEN 0 ELSE Min({MaxPosition, f[n - 1] + own[n]})
  BY DEF Caps
<1>2. f[0] = 0
  <2>1. 0 \in 0..N
    OBVIOUS
  <2> QED BY <1>1, <2>1
<1>3. \A n \in 1..N : n \in 0..N /\ n # 0
  OBVIOUS
<1> DEFINE U == {n \in Nat : n <= N => f[n] \in Nat}
<1>4. 0 \in U
  BY <1>2
<1>5. ASSUME NEW n \in Nat, n \in U PROVE n + 1 \in U
  <2> SUFFICES ASSUME n + 1 <= N PROVE f[n + 1] \in Nat
    OBVIOUS
  <2>1. n + 1 \in 1..N /\ n + 1 \in 0..N /\ n + 1 - 1 = n /\ n + 1 # 0
    OBVIOUS
  <2>2. f[n] \in Nat /\ own[n + 1] \in Nat
    BY <1>5, <2>1
  <2>3. PICK x \in Nat : x = f[n] + own[n + 1]
    BY <2>2
  <2>4. f[n + 1] = Min({MaxPosition, x})
    BY <1>1, <2>1, <2>3
  <2> QED BY <2>4, CappedIs
<1>6. \A n \in Nat : n \in U
  <2> HIDE DEF U
  <2> QED BY <1>4, <1>5, SetInduction
<1>7. \A n \in 0..N : f[n] \in Nat
  BY <1>6
<1>8. ASSUME NEW n \in 1..N PROVE f[n] = Capped(f[n - 1] + own[n])
  <2>1. n - 1 \in 0..N
    OBVIOUS
  <2>2. PICK x \in Nat : x = f[n - 1] + own[n]
    BY <1>7, <2>1
  <2>3. f[n] = Min({MaxPosition, x})
    BY <1>1, <1>3, <2>2
  <2> QED BY <2>2, <2>3, CappedIs
<1> QED BY <1>2, <1>7, <1>8

LEMMA CapsExist ==
  ASSUME NEW N \in Nat, NEW own, \A n \in 1..N : own[n] \in Nat
  PROVE  \E f : Caps(f, N, own)
<1>1. PICK step : step = [k \in 1..N |-> [x \in Nat |-> Capped(x + own[k])]]
  OBVIOUS
<1>2. \A k \in 1..N : \A x \in Nat : Capped(x + own[k]) \in Nat
  <2> SUFFICES ASSUME NEW k \in 1..N, NEW x \in Nat PROVE Capped(x + own[k]) \in Nat
    OBVIOUS
  <2>1. PICK y \in Nat : y = x + own[k]
    OBVIOUS
  <2> QED BY <2>1, CappedIs
<1>3. step \in [1..N -> [Nat -> Nat]] /\ \A k \in 1..N : \A x \in Nat : step[k][x] = Capped(x + own[k])
  BY <1>1, <1>2
<1>4. PICK f : /\ f = [n \in 0..N |-> f[n]]
               /\ \A n \in 0..N : f[n] \in Nat
               /\ f[0] = 0
               /\ \A n \in 1..N : f[n] = step[n][f[n - 1]]
  <2>1. PICK S : S = Nat
    OBVIOUS
  <2>2. step \in [1..N -> [S -> S]] /\ 0 \in S
    BY <1>3, <2>1
  <2>3. PICK first \in S : first = 0
    BY <2>2
  <2>4. \E f : StepsTaken(f, N, S, first, step)
    BY ONLY <2>2, N \in Nat, first \in S, StepsIn
  <2> QED BY <2>1, <2>3, <2>4 DEF StepsTaken
<1>5. ASSUME NEW k \in 0..N
      PROVE  f[k] = IF k = 0 THEN 0 ELSE Min({MaxPosition, f[k - 1] + own[k]})
  <2>1. CASE k = 0
    BY <1>4, <2>1
  <2>2. CASE k # 0
    <3>1. k \in 1..N /\ k - 1 \in 0..N
      BY <2>2
    <3>2. f[k - 1] \in Nat /\ f[k] = step[k][f[k - 1]]
      BY <1>4, <3>1
    <3>3. f[k] = Capped(f[k - 1] + own[k])
      BY <1>3, <3>1, <3>2
    <3>4. PICK x \in Nat : x = f[k - 1] + own[k]
      BY <3>1, <3>2
    <3> QED BY <2>2, <3>3, <3>4, CappedIs
  <2> QED BY <2>1, <2>2
<1>6. f = [k \in 0..N |-> IF k = 0 THEN 0 ELSE Min({MaxPosition, f[k - 1] + own[k]})]
  BY <1>4, <1>5, Zenon
<1> QED BY <1>6 DEF Caps

LEMMA StartsAre ==
  ASSUME file \in Files, NEW order \in Seq(1..Len(Boxes)), NEW L \in Nat
  PROVE  \E g : /\ NewStarts(order, L) = [k \in DOMAIN order |-> g[k - 1]]
                /\ g[0] = 0
                /\ \A n \in 0..Len(order) : g[n] \in Nat
                /\ \A n \in 1..Len(order) : g[n] = Capped(g[n - 1] + NewLength(order[n], L))
<1>0. PICK N \in Nat : N = Len(order)
  OBVIOUS
<1> DEFINE Next0(f) == [k \in 0..N |-> IF k = 0 THEN 0 ELSE Min({MaxPosition, f[k - 1] + NewLength(order[k], L)})]
           g == CHOOSE f : f = Next0(f)
<1>1. PICK own : own = [k \in 1..N |-> NewLength(order[k], L)]
  OBVIOUS
<1>2. \A k \in 1..N : own[k] = NewLength(order[k], L) /\ own[k] \in Nat
  <2>1. \A k \in 1..N : order[k] \in 1..Len(Boxes)
    BY <1>0
  <2>2. \A k \in 1..N : NewLength(order[k], L) \in Nat
    BY <2>1, NewLengthIs
  <2> QED BY <1>1, <2>2
<1>3. ASSUME NEW f PROVE Caps(f, N, own) <=> f = Next0(f)
  <2>1. \A k \in 0..N : k # 0 => own[k] = NewLength(order[k], L)
    BY <1>2
  <2>2. [k \in 0..N |-> IF k = 0 THEN 0 ELSE Min({MaxPosition, f[k - 1] + own[k]})] = Next0(f)
    BY <2>1
  <2> QED BY <2>2 DEF Caps
<1>4. \E f : Caps(f, N, own)
  BY <1>2, CapsExist
<1>5. \E f : f = Next0(f)
  <2> HIDE DEF Next0
  <2> QED BY <1>3, <1>4
<1>6. g = Next0(g)
  <2> HIDE DEF Next0
  <2> QED BY <1>5
<1>7. NewStarts(order, L) = [k \in DOMAIN order |-> g[k - 1]]
  BY <1>0 DEF NewStarts
<1>8. Caps(g, N, own)
  <2> HIDE DEF Next0, g
  <2> QED BY <1>3, <1>6
<1> HIDE DEF g
<1>9. PICK h : h = g
  OBVIOUS
<1>10. /\ h[0] = 0
       /\ \A n \in 0..N : h[n] \in Nat
       /\ \A n \in 1..N : h[n] = Capped(h[n - 1] + own[n])
  BY <1>2, <1>8, <1>9, CapsSteps
<1> QED BY <1>0, <1>2, <1>7, <1>9, <1>10

(* THE TABLES THAT ARE WIDENED                                             *)

NewOrder == Ahead \o << MovieBox(Len(Boxes)) >> \o Behind

(* The offsets as they move, the tables in `wide` the wide ones.           *)
Moves(wide) == MovedTables(AsRead, NewOrder, NewStarts(NewOrder, MovieLength(AsRead, wide)))

(* No offset outgrows a table that is not in `wide`.                       *)
Settles(wide) ==
  /\ wide \subseteq DOMAIN AsRead
  /\ \A k \in DOMAIN AsRead : \A n \in DOMAIN AsRead[k].offsets :
       Moves(wide)[k][n] > CompactReach => k \in wide

LEMMA NewOrderIs ==
  ASSUME file \in Files, HasMovie
  PROVE  NewOrder = Order(Len(Boxes)) /\ NewOrder \in Seq(1..Len(Boxes))
<1>1. NewOrder = Order(Len(Boxes))
  BY OrderIs DEF NewOrder
<1>2. PICK order : order = NewOrder
  OBVIOUS
<1>3. order \in Seq(1..Len(Boxes))
  BY <1>1, <1>2, PiecesAre
<1> QED BY <1>1, <1>2, <1>3

LEMMA LiesInIs ==
  ASSUME file \in Files, NEW order \in Seq(1..Len(Boxes)), NEW offset \in Nat,
         NEW k, k = LiesIn(offset, order), k # 0
  PROVE  /\ k \in 1..Len(order) /\ order[k] \in 1..Len(Boxes)
         /\ offset >= BoxStart(order[k])
         /\ RunsToFileEnd(order[k]) \/ offset < BoxEnd(order[k])
<1>1. DOMAIN order = 1..Len(order) /\ \A i \in 1..Len(order) : order[i] \in 1..Len(Boxes)
  OBVIOUS
<1>2. k \in DOMAIN order /\ offset >= BoxStart(order[k]) /\ (RunsToFileEnd(order[k]) \/ offset < BoxEnd(order[k]))
  BY DEF LiesIn
<1> QED BY <1>1, <1>2

(* An offset moves as far as its box does, or is refused.                  *)
MovesWithBox(order, starts, offset, moved) ==
  \E k \in 1..Len(order) :
    /\ Boxes[order[k]].type # "moov"
    /\ offset >= BoxStart(order[k])
    /\ RunsToFileEnd(order[k]) \/ offset < BoxEnd(order[k])
    /\ moved = starts[k] + (offset - BoxStart(order[k]))

LEMMA MovedIs ==
  ASSUME file \in Files, NEW order \in Seq(1..Len(Boxes)), NEW offset \in Nat, NEW L \in Nat,
         NEW starts, starts = NewStarts(order, L),
         NEW moved, moved = Moved(offset, order, starts)
  PROVE  /\ moved \in Int
         /\ moved >= 0 => MovesWithBox(order, starts, offset, moved)
<1>1. PICK k : k = LiesIn(offset, order)
  OBVIOUS
<1>2. moved = MovedWith(offset, order, starts, k)
  BY <1>1 DEF Moved
<1>3. CASE k = 0
  BY <1>2, <1>3 DEF MovedWith, OutOfFile
<1>4. CASE k # 0
  <2>1. /\ k \in 1..Len(order) /\ order[k] \in 1..Len(Boxes)
        /\ offset >= BoxStart(order[k])
        /\ RunsToFileEnd(order[k]) \/ offset < BoxEnd(order[k])
    BY <1>1, <1>4, LiesInIs
  <2>2. PICK i \in 1..Len(Boxes) : i = order[k]
    BY <2>1
  <2>3. PICK b \in Nat : b = BoxStart(i)
    BY <2>2, BoxesLie
  <2>4. starts[k] \in Nat
    <3>1. PICK g : /\ starts = [j \in DOMAIN order |-> g[j - 1]]
                   /\ \A n \in 0..Len(order) : g[n] \in Nat
      BY StartsAre
    <3>2. DOMAIN order = 1..Len(order) /\ k - 1 \in 0..Len(order)
      BY <2>1
    <3>3. starts[k] = g[k - 1]
      BY <2>1, <3>1, <3>2
    <3> QED BY <3>1, <3>2, <3>3
  <2>5. PICK s \in Nat : s = starts[k]
    BY <2>4
  <2>6. moved = IF Boxes[i].type = "moov" THEN -2
                ELSE IF s + (offset - b) > MaxPosition THEN -1
                ELSE s + (offset - b)
    BY <1>2, <1>4, <2>2, <2>3, <2>5 DEF MovedWith, OutOfFile, InMovie
  <2>7. offset >= b
    BY <2>1, <2>2, <2>3
  <2>8. CASE Boxes[i].type = "moov"
    BY <2>6, <2>8
  <2>9. CASE Boxes[i].type # "moov"
    <3>1. s + (offset - b) \in Nat
      BY <2>7
    <3>2. moved \in Int /\ (moved >= 0 => moved = s + (offset - b))
      BY <2>6, <2>9, <3>1
    <3> QED BY <2>1, <2>2, <2>3, <2>5, <2>9, <3>2 DEF MovesWithBox
  <2> QED BY <2>8, <2>9
<1> QED BY <1>3, <1>4

LEMMA MovesAre ==
  ASSUME file \in Files, HasMovie, NEW wide
  PROVE  /\ Moves(wide) \in Seq(Seq(Int)) /\ Len(Moves(wide)) = Len(AsRead)
         /\ \A k \in 1..Len(AsRead) :
              /\ Len(Moves(wide)[k]) = Len(AsRead[k].offsets)
              /\ \A n \in 1..Len(AsRead[k].offsets) :
                   Moves(wide)[k][n] =
                     IF AsRead[k].here[n]
                     THEN Moved(AsRead[k].offsets[n], NewOrder, NewStarts(NewOrder, MovieLength(AsRead, wide)))
                     ELSE AsRead[k].offsets[n]
<1>1. PICK tables : tables = AsRead
  OBVIOUS
<1>2. PICK order \in Seq(1..Len(Boxes)) : order = NewOrder
  BY NewOrderIs
<1>3. PICK L \in Nat : L = MovieLength(tables, wide)
  BY <1>1, AsReadIs, MovieLengthIs
<1>4. PICK starts : starts = NewStarts(order, L)
  OBVIOUS
<1>5. /\ DOMAIN tables = 1..Len(tables) /\ Len(tables) \in Nat
      /\ \A k \in 1..Len(tables) :
           /\ DOMAIN tables[k].offsets = 1..Len(tables[k].offsets)
           /\ tables[k].offsets \in Seq(Nat)
  BY <1>1, AsReadIs DEF Sized
<1>6. PICK moves : moves = Moves(wide)
  OBVIOUS
<1>7. moves = MovedTables(tables, order, starts)
  BY <1>1, <1>2, <1>3, <1>4, <1>6 DEF Moves
<1>8. DOMAIN moves = 1..Len(tables)
  BY <1>5, <1>7 DEF MovedTables
<1>9. ASSUME NEW k \in 1..Len(tables)
      PROVE  /\ moves[k] \in Seq(Int)
             /\ Len(moves[k]) = Len(tables[k].offsets)
             /\ \A n \in 1..Len(tables[k].offsets) :
                  moves[k][n] = IF tables[k].here[n] THEN Moved(tables[k].offsets[n], order, starts)
                                ELSE tables[k].offsets[n]
  <2>1. PICK m \in Nat : m = Len(tables[k].offsets)
    BY <1>5
  <2>2. moves[k] = [n \in 1..m |-> IF tables[k].here[n] THEN Moved(tables[k].offsets[n], order, starts)
                                   ELSE tables[k].offsets[n]]
    BY <1>5, <1>7, <2>1 DEF MovedTables
  <2>3. ASSUME NEW n \in 1..m
        PROVE  (IF tables[k].here[n] THEN Moved(tables[k].offsets[n], order, starts)
                ELSE tables[k].offsets[n]) \in Int
    <3>1. PICK offset \in Nat : offset = tables[k].offsets[n]
      BY <1>5, <2>1
    <3>2. PICK moved : moved = Moved(offset, order, starts)
      OBVIOUS
    <3>3. moved \in Int
      BY <1>4, <3>2, MovedIs
    <3> QED BY <3>1, <3>2, <3>3
  <2>4. PICK s : s = moves[k]
    OBVIOUS
  <2>5. s \in [1..m -> Int]
    BY <2>2, <2>3, <2>4
  <2>6. s \in Seq(Int) /\ Len(s) = m
    BY <2>5
  <2> QED BY <2>1, <2>2, <2>4, <2>6
<1>10. moves \in [1..Len(tables) -> Seq(Int)]
  <2>1. moves = [k \in DOMAIN moves |-> moves[k]]
    <3>1. moves = [k \in DOMAIN tables |->
                     [n \in DOMAIN tables[k].offsets |->
                        IF tables[k].here[n] THEN Moved(tables[k].offsets[n], order, starts)
                        ELSE tables[k].offsets[n]]]
      BY <1>7 DEF MovedTables
    <3> QED BY <3>1
  <2> QED BY <1>8, <1>9, <2>1
<1>11. moves \in Seq(Seq(Int)) /\ Len(moves) = Len(tables)
  BY <1>5, <1>10
<1> QED BY <1>1, <1>2, <1>3, <1>4, <1>6, <1>9, <1>11

(* THE LOOP THAT WIDENS                                                    *)

LEMMA PassGrows ==
  ASSUME NEW tables, NEW N \in Nat, DOMAIN tables = 1..N, NEW order, NEW wide, wide \subseteq 1..N
  PROVE  wide \subseteq Pass(tables, order, wide) /\ Pass(tables, order, wide) \subseteq 1..N
<1>1. PICK moved : moved = MovedTables(tables, order, NewStarts(order, MovieLength(tables, wide)))
  OBVIOUS
<1>2. Pass(tables, order, wide)
        = wide \cup { k \in DOMAIN tables : \E n \in DOMAIN moved[k] : moved[k][n] > CompactReach }
  BY <1>1 DEF Pass
<1> QED BY <1>2

(* The loop, one pass after the other.                                     *)
PassesOf(f, tables, order, N) ==
  /\ f[0] = WideAsRead(tables)
  /\ \A n \in 1..N : f[n] = Pass(tables, order, f[n - 1])

LEMMA WideAfterIs ==
  ASSUME NEW tables, NEW N \in Nat, Len(tables) = N, DOMAIN tables = 1..N, NEW order
  PROVE  \E f : /\ PassesOf(f, tables, order, N)
                /\ WideAfter(tables, order) = f[N]
<1> DEFINE P(w) == Pass(tables, order, w)
           Next0(f) == [pass \in 0..N |->
                          IF pass = 0 THEN WideAsRead(tables)
                          ELSE UNION { Pass(tables, order, wide) : wide \in {f[pass - 1]} }]
           g == CHOOSE f : f = Next0(f)
<1>1. PICK S : S = SUBSET (1..N)
  OBVIOUS
<1>2. PICK first \in S : first = WideAsRead(tables)
  BY <1>1 DEF WideAsRead
<1>3. PICK step : step = [n \in 1..N |-> [w \in S |-> P(w)]]
  OBVIOUS
<1>4. step \in [1..N -> [S -> S]] /\ \A n \in 1..N : \A w \in S : step[n][w] = P(w)
  <2>1. \A w \in S : P(w) \in S
    BY <1>1, PassGrows
  <2> HIDE DEF P
  <2> QED BY <1>3, <2>1
<1>5. PICK f : StepsTaken(f, N, S, first, step)
  <2>1. \E f : StepsTaken(f, N, S, first, step)
    BY ONLY <1>4, N \in Nat, first \in S, StepsIn
  <2> QED BY <2>1
<1>6. \A X : UNION { Pass(tables, order, wide) : wide \in {X} } = P(X)
  OBVIOUS
<1>7. ASSUME NEW n \in 0..N
      PROVE  f[n] = IF n = 0 THEN WideAsRead(tables)
                    ELSE UNION { Pass(tables, order, wide) : wide \in {f[n - 1]} }
  <2>1. CASE n = 0
    BY <1>2, <1>5, <2>1 DEF StepsTaken
  <2>2. CASE n # 0
    <3>1. n \in 1..N /\ n - 1 \in 0..N
      BY <2>2
    <3>2. f[n - 1] \in S /\ f[n] = step[n][f[n - 1]]
      BY <1>5, <3>1 DEF StepsTaken
    <3>3. f[n] = P(f[n - 1])
      <4> HIDE DEF P
      <4> QED BY <1>4, <3>1, <3>2
    <3>4. UNION { Pass(tables, order, wide) : wide \in {f[n - 1]} } = P(f[n - 1])
      BY <1>6
    <3> QED BY <2>2, <3>3, <3>4
  <2> QED BY <2>1, <2>2
<1>8. f = Next0(f)
  <2>1. f = [n \in 0..N |-> f[n]]
    BY <1>5 DEF StepsTaken
  <2> QED BY <1>7, <2>1, Zenon
<1>9. g = Next0(g)
  <2> HIDE DEF Next0
  <2> QED BY <1>8
<1>10. WideAfter(tables, order) = g[N]
  BY DEF WideAfter
<1> HIDE DEF g
<1>11. PICK h : h = g
  OBVIOUS
<1>12. h = Next0(h)
  BY <1>9, <1>11
<1>13. \A n \in 0..N : h[n] = IF n = 0 THEN WideAsRead(tables)
                              ELSE UNION { Pass(tables, order, wide) : wide \in {h[n - 1]} }
  BY <1>12
<1>14. h[0] = WideAsRead(tables)
  <2>1. 0 \in 0..N
    OBVIOUS
  <2> QED BY <1>13, <2>1
<1>15. ASSUME NEW n \in 1..N PROVE h[n] = Pass(tables, order, h[n - 1])
  <2>1. n \in 0..N /\ n # 0
    OBVIOUS
  <2>2. h[n] = UNION { Pass(tables, order, wide) : wide \in {h[n - 1]} }
    BY <1>13, <2>1
  <2>3. PICK X : X = h[n - 1]
    OBVIOUS
  <2>4. UNION { Pass(tables, order, wide) : wide \in {X} } = P(X)
    BY <1>6
  <2> QED BY <2>2, <2>3, <2>4
<1> QED BY <1>10, <1>11, <1>14, <1>15 DEF PassesOf

(* As many passes as there are tables: the last one widens none.           *)
LEMMA PassesEnd ==
  ASSUME NEW tables, NEW N \in Nat, DOMAIN tables = 1..N, NEW order,
         NEW f, PassesOf(f, tables, order, N)
  PROVE  f[N] \subseteq 1..N /\ Pass(tables, order, f[N]) \subseteq f[N]
<1> DEFINE P(w) == Pass(tables, order, w)
           U == {n \in Nat : n <= N => f[n] \subseteq 1..N /\ (P(f[n]) = f[n] \/ Cardinality(f[n]) >= n)}
<1>1. 0 \in U
  <2>1. f[0] \subseteq 1..N
    BY DEF PassesOf, WideAsRead
  <2>2. Cardinality(f[0]) \in Nat
    BY <2>1, PlacesFinite
  <2> HIDE DEF P
  <2> QED BY <2>1, <2>2
<1>2. ASSUME NEW n \in Nat, n \in U PROVE n + 1 \in U
  <2> SUFFICES ASSUME n + 1 <= N
               PROVE  f[n + 1] \subseteq 1..N /\ (P(f[n + 1]) = f[n + 1] \/ Cardinality(f[n + 1]) >= n + 1)
    OBVIOUS
  <2>1. n + 1 \in 1..N /\ n + 1 - 1 = n /\ n <= N
    OBVIOUS
  <2>2. f[n] \subseteq 1..N /\ (P(f[n]) = f[n] \/ Cardinality(f[n]) >= n)
    BY <1>2, <2>1
  <2>3. f[n + 1] = P(f[n])
    BY <2>1 DEF PassesOf
  <2>4. f[n] \subseteq P(f[n]) /\ P(f[n]) \subseteq 1..N
    BY <2>2, PassGrows
  <2> HIDE DEF P
  <2>5. CASE P(f[n]) = f[n]
    BY <2>2, <2>3, <2>5
  <2>6. CASE P(f[n]) # f[n]
    <3>1. PICK A : A = f[n]
      OBVIOUS
    <3>2. PICK B : B = P(f[n])
      OBVIOUS
    <3>3. A \subseteq 1..N /\ B \subseteq 1..N /\ A \subseteq B /\ A # B
      BY <2>4, <2>2, <2>6, <3>1, <3>2
    <3>4. IsFiniteSet(B) /\ Cardinality(B) \in Nat /\ Cardinality(A) \in Nat
      BY <3>3, PlacesFinite
    <3>5. Cardinality(A) < Cardinality(B)
      <4>1. A \in SUBSET B
        BY <3>3
      <4>2. Cardinality(A) <= Cardinality(B) /\ (Cardinality(B) = Cardinality(A) => B = A)
        BY <3>4, <4>1, FS_Subset
      <4> QED BY <3>3, <3>4, <4>2
    <3>6. Cardinality(A) >= n
      BY <2>2, <2>6, <3>1
    <3>7. Cardinality(B) >= n + 1
      BY <3>4, <3>5, <3>6
    <3> QED BY <2>3, <2>4, <3>2, <3>7
  <2> QED BY <2>5, <2>6
<1>3. \A n \in Nat : n \in U
  <2> HIDE DEF U
  <2> QED BY <1>1, <1>2, SetInduction
<1>4. f[N] \subseteq 1..N /\ (P(f[N]) = f[N] \/ Cardinality(f[N]) >= N)
  <2> HIDE DEF P
  <2> QED BY <1>3
<1>5. CASE P(f[N]) = f[N]
  BY <1>4, <1>5
<1>6. CASE Cardinality(f[N]) >= N
  <2>1. PICK A : A = f[N]
    OBVIOUS
  <2>2. IsFiniteSet(1..N) /\ Cardinality(1..N) = N
    BY FS_Interval
  <2>3. Cardinality(A) \in Nat /\ A \subseteq 1..N
    BY <1>4, <2>1, PlacesFinite
  <2>4. A = 1..N
    <3>1. PICK B : B = 1..N
      OBVIOUS
    <3>2. A \in SUBSET B /\ IsFiniteSet(B) /\ Cardinality(B) = N
      BY <2>2, <2>3, <3>1
    <3>3. Cardinality(A) <= Cardinality(B) /\ (Cardinality(B) = Cardinality(A) => B = A)
      BY <3>2, FS_Subset
    <3>4. Cardinality(A) >= N
      BY <1>6, <2>1
    <3> QED BY <2>3, <3>1, <3>2, <3>3, <3>4
  <2>5. P(A) \subseteq 1..N
    BY <2>3, PassGrows
  <2> QED BY <2>1, <2>4, <2>5
<1> QED BY <1>4, <1>5, <1>6

LEMMA WideSettles ==
  ASSUME file \in Files, HasMovie, NEW wide, wide = WideAfter(AsRead, NewOrder)
  PROVE  Settles(wide)
<1>1. PICK tables : tables = AsRead
  OBVIOUS
<1>2. PICK order : order = NewOrder
  OBVIOUS
<1>3. PICK N \in Nat : N = Len(tables)
  BY <1>1, AsReadIs DEF Sized
<1>4. DOMAIN tables = 1..N
  BY <1>1, <1>3, AsReadIs
<1>5. PICK f : PassesOf(f, tables, order, N) /\ wide = f[N]
  <2>1. \E f : PassesOf(f, tables, order, N) /\ WideAfter(tables, order) = f[N]
    BY <1>3, <1>4, WideAfterIs
  <2> QED BY <1>1, <1>2, <2>1
<1>6. wide \subseteq 1..N /\ Pass(tables, order, wide) \subseteq wide
  BY <1>4, <1>5, PassesEnd
<1>7. ASSUME NEW k \in DOMAIN AsRead, NEW n \in DOMAIN AsRead[k].offsets, Moves(wide)[k][n] > CompactReach
      PROVE  k \in wide
  <2>1. PICK moved : moved = MovedTables(tables, order, NewStarts(order, MovieLength(tables, wide)))
    OBVIOUS
  <2>2. moved = Moves(wide)
    BY <1>1, <1>2, <2>1 DEF Moves
  <2>3. k \in 1..Len(AsRead) /\ DOMAIN AsRead[k].offsets = 1..Len(AsRead[k].offsets)
    BY AsReadIs
  <2>4. Moves(wide)[k] \in Seq(Int) /\ Len(Moves(wide)[k]) = Len(AsRead[k].offsets)
    BY <2>3, MovesAre
  <2>5. n \in DOMAIN moved[k]
    BY <2>2, <2>3, <2>4
  <2>6. k \in DOMAIN tables /\ moved[k][n] > CompactReach
    BY <1>1, <1>7, <2>2
  <2>7. k \in Pass(tables, order, wide)
    BY <2>1, <2>5, <2>6 DEF Pass
  <2> QED BY <1>6, <2>7
<1> QED BY <1>1, <1>4, <1>6, <1>7 DEF Settles

(* THE END OF THE FILE                                                     *)

(* The tables are as their offsets move, and none is refused.              *)
FollowsMoves(wide, tables) ==
  /\ Len(tables) = Len(AsRead) /\ DOMAIN tables = 1..Len(AsRead)
  /\ \A k \in 1..Len(AsRead) :
       /\ Len(tables[k].offsets) = Len(AsRead[k].offsets)
       /\ tables[k].wide <=> k \in wide
       /\ \A n \in 1..Len(AsRead[k].offsets) :
            tables[k].offsets[n] = Moves(wide)[k][n] /\ Moves(wide)[k][n] >= 0

LEMMA LayOutGives ==
  ASSUME file \in Files, HasMovie, NEW order, order = Order(Len(Boxes)), NEW wide,
         NEW out, out = LayOut(AsRead, Len(Boxes), order, wide)
  PROVE  /\ Sized(out.movie)
         /\ out.failed = "none" => out.pieces = Plan
         /\ out.failed # "none" => out.pieces = <<>>
         /\ out.failed = "none" => IF Rearranged THEN FollowsMoves(wide, out.movie) ELSE out.movie = AsRead
<1>1. PICK N \in Nat : N = Len(Boxes)
  BY BoxesLie
<1>2. PICK tables : tables = AsRead
  OBVIOUS
<1>3. Sized(tables) /\ DOMAIN tables = 1..Len(tables)
  BY <1>2, AsReadIs
<1>4. CASE AsItIs(tables, N)
  <2>1. ~Rearranged
    <3>1. \A offset \in OffsetsHere(tables) : offset \in Nat /\ offset >= MovieStart
      BY <1>1, <1>2, <1>4, AsReadIs, MovieBoxIs DEF AsItIs
    <3>2. MovieStart \in Nat
      BY MovieBoxIs, BoxesLie
    <3> QED BY <1>2, <3>1, <3>2 DEF Rearranged
  <2>2. out = [failed |-> "none", pieces |-> Numbers(N), movie |-> tables]
    BY <1>1, <1>2, <1>4 DEF LayOut, Numbers
  <2>3. Plan = Numbers(N)
    BY <1>1, <2>1 DEF Plan
  <2> QED BY <1>2, <1>3, <2>1, <2>2, <2>3
<1>5. CASE ~AsItIs(tables, N)
  <2>1. Rearranged
    <3>1. PICK offset \in OffsetsHere(tables) : ~(offset >= MovieStart)
      BY <1>1, <1>2, <1>5, MovieBoxIs DEF AsItIs
    <3>2. offset \in Nat /\ MovieStart \in Nat
      BY <1>2, AsReadIs, MovieBoxIs, BoxesLie
    <3> QED BY <1>2, <3>1, <3>2 DEF Rearranged
  <2>2. PICK starts : starts = NewStarts(order, MovieLength(tables, wide))
    OBVIOUS
  <2>3. PICK moved : moved = MovedTables(tables, order, starts)
    OBVIOUS
  <2>4. out = Relaid(tables, order, wide, moved)
    BY <1>1, <1>2, <1>5, <2>2, <2>3 DEF LayOut
  <2>5. DOMAIN moved = 1..Len(tables) /\ \A k \in 1..Len(tables) : Len(moved[k]) \in Nat
    <3>1. \A k \in 1..Len(tables) : DOMAIN tables[k].offsets = 1..Len(tables[k].offsets)
      BY <1>2, AsReadIs
    <3>2. ASSUME NEW k \in 1..Len(tables) PROVE Len(moved[k]) \in Nat
      <4>1. PICK n \in Nat : n = Len(tables[k].offsets)
        BY <1>3 DEF Sized
      <4>2. moved[k] = [m \in 1..n |-> IF tables[k].here[m] THEN Moved(tables[k].offsets[m], order, starts)
                                       ELSE tables[k].offsets[m]]
        BY <1>3, <2>3, <3>1, <4>1 DEF MovedTables
      <4>3. Len(moved[k]) = n
        BY <4>2
      <4> QED BY <4>3
    <3> QED BY <1>3, <2>3, <3>2 DEF MovedTables
  <2>6. PICK failures : failures = Where(FlattenSeq(moved), LAMBDA offset : offset < 0)
    OBVIOUS
  <2>7. CASE failures # <<>>
    <3>1. out = [failed |-> Failure(Head(failures)), pieces |-> <<>>, movie |-> tables]
      BY <2>4, <2>6, <2>7 DEF Relaid
    <3>2. Failure(Head(failures)) # "none"
      BY DEF Failure
    <3> QED BY <1>3, <3>1, <3>2
  <2>8. CASE failures = <<>>
    <3> DEFINE Widened(k) == [tables[k] EXCEPT !.offsets = moved[k], !.wide = k \in wide]
    <3>1. PICK pieced : pieced = [k \in DOMAIN order |-> IF Boxes[order[k]].type = "moov" THEN 0 ELSE order[k]]
      OBVIOUS
    <3>2. PICK m : m = [k \in DOMAIN tables |-> Widened(k)]
      OBVIOUS
    <3>3. out = [failed |-> "none", movie |-> m, pieces |-> pieced]
      <4>1. Relaid(tables, order, wide, moved)
              = [failed |-> "none",
                 movie |-> [k \in DOMAIN tables |-> Widened(k)],
                 pieces |-> [k \in DOMAIN order |-> IF Boxes[order[k]].type = "moov" THEN 0 ELSE order[k]]]
        BY <2>6, <2>8, Zenon DEF Relaid
      <4> QED BY <2>4, <3>1, <3>2, <4>1, Zenon
    <3>4. out.failed = "none" /\ out.movie = m /\ out.pieces = pieced
      BY <3>3
    <3>5. pieced = Ahead \o <<0>> \o Behind
      BY <3>1, PiecesAre
    <3>6. Plan = Ahead \o <<0>> \o Behind
      BY <2>1 DEF Plan
    <3>7. Sized(m)
      <4>1. PICK n \in Nat : n = Len(tables)
        BY <1>3 DEF Sized
      <4>2. m = [k \in 1..n |-> Widened(k)]
        BY <1>3, <3>2, <4>1
      <4>3. ASSUME NEW k \in 1..n PROVE Len(Widened(k).offsets) \in Nat
        <5>1. tables[k] \in ReadTable
          BY <1>2, <4>1, AsReadType
        <5>2. PICK x : x = moved[k]
          OBVIOUS
        <5>3. PICK y : y = (k \in wide)
          OBVIOUS
        <5>4. PICK t : t = tables[k]
          OBVIOUS
        <5>5. Widened(k) = [t EXCEPT !.offsets = x, !.wide = y]
          BY <5>2, <5>3, <5>4, Zenon
        <5>6. DOMAIN t = {"offsets", "wide", "here"}
          BY <5>1, <5>4 DEF ReadTable
        <5>7. [t EXCEPT !.offsets = x, !.wide = y].offsets = x
          BY <5>6
        <5>8. Len(x) \in Nat
          BY <2>5, <4>1, <5>2
        <5> QED BY <5>5, <5>7, <5>8, Zenon
      <4> HIDE DEF Widened
      <4>4. Len(m) = n /\ \A k \in 1..n : m[k] = Widened(k)
        BY <4>2
      <4> QED BY <4>3, <4>4 DEF Sized
    <3> HIDE DEF Widened
    <3>8. FollowsMoves(wide, m)
      <4>1. PICK n \in Nat : n = Len(tables)
        BY <1>3 DEF Sized
      <4>2. m = [k \in 1..n |-> Widened(k)]
        BY <1>3, <3>2, <4>1
      <4>3. Len(m) = n /\ DOMAIN m = 1..n /\ \A k \in 1..n : m[k] = Widened(k)
        BY <4>2
      <4>4. ASSUME NEW k \in 1..n
            PROVE  Widened(k).offsets = moved[k] /\ (Widened(k).wide <=> k \in wide)
        <5>1. tables[k] \in ReadTable
          BY <1>2, <4>1, AsReadType
        <5>2. PICK x : x = moved[k]
          OBVIOUS
        <5>3. PICK y : y = (k \in wide)
          OBVIOUS
        <5>4. PICK t : t = tables[k]
          OBVIOUS
        <5>5. Widened(k) = [t EXCEPT !.offsets = x, !.wide = y]
          BY <5>2, <5>3, <5>4, Zenon DEF Widened
        <5>6. DOMAIN t = {"offsets", "wide", "here"}
          BY <5>1, <5>4 DEF ReadTable
        <5>7. [t EXCEPT !.offsets = x, !.wide = y].offsets = x
          BY <5>6
        <5>8. [t EXCEPT !.offsets = x, !.wide = y].wide = y
          BY <5>6
        <5> QED BY <5>2, <5>3, <5>5, <5>7, <5>8, Zenon
      <4>5. moved = Moves(wide)
        BY <1>2, <2>2, <2>3, NewOrderIs DEF Moves
      <4>6. moved \in Seq(Seq(Int)) /\ Len(moved) = n
            /\ \A k \in 1..n : Len(moved[k]) = Len(tables[k].offsets)
        BY <1>2, <4>1, <4>5, MovesAre
      <4>7. PICK whole : whole = FlattenSeq(moved)
        OBVIOUS
      <4>8. whole \in Seq(Int)
        BY <4>6, <4>7, FlattenType
      <4>9. Those(whole, {i \in Int : i < 0}) = <<>>
        <5>1. DOMAIN whole = 1..Len(whole) /\ \A i \in DOMAIN whole : whole[i] \in Int
          BY <4>8
        <5>2. {i \in DOMAIN whole : whole[i] < 0} = {i \in DOMAIN whole : whole[i] \in {j \in Int : j < 0}}
          BY <5>1
        <5>3. Where(whole, LAMBDA offset : offset < 0) = <<>>
          BY <2>6, <2>8, <4>7
        <5> QED BY <5>2, <5>3 DEF Where, Those
      <4>10. \A k \in 1..n : \A i \in 1..Len(moved[k]) : moved[k][i] >= 0
        BY <4>6, <4>7, <4>9, FlattenNegative
      <4> QED BY <1>2, <4>1, <4>3, <4>4, <4>5, <4>6, <4>10 DEF FollowsMoves
    <3> QED BY <2>1, <3>4, <3>5, <3>6, <3>7, <3>8
  <2> QED BY <2>7, <2>8
<1> QED BY <1>4, <1>5

(* Every box is one of the pieces, but for a moov that is laid out again.  *)
LEMMA PlanHas ==
  ASSUME file \in Files, NEW i \in 1..Len(Boxes), Boxes[i].type # "moov"
  PROVE  \E k \in 1..Len(Plan) : Plan[k] = i
<1>1. PICK n \in Nat : n = Len(Boxes)
  BY BoxesLie
<1>2. PICK s : s = Numbers(n)
  OBVIOUS
<1>3. Sequence(s) /\ Len(s) = n /\ \A j \in 1..n : s[j] = j
  BY <1>2, NumbersAre
<1>4. \E j \in 1..Len(s) : s[j] = i
  BY <1>1, <1>3
<1>5. CASE ~Rearranged
  BY <1>1, <1>2, <1>4, <1>5 DEF Plan
<1>6. CASE Rearranged
  <2>1. PICK a : a = Ahead
    OBVIOUS
  <2>2. PICK b : b = Behind
    OBVIOUS
  <2>3. PICK o : o = <<0>>
    OBVIOUS
  <2>4. Sequence(a) /\ Sequence(b) /\ Sequence(o)
    BY <2>1, <2>2, <2>3, AheadIs, BehindIs, OneElement
  <2>5. PICK c : c = a \o o
    OBVIOUS
  <2>6. /\ Sequence(c) /\ Len(c) = Len(a) + Len(o) /\ Len(a) \in Nat /\ Len(o) \in Nat
        /\ \A k \in 1..Len(a) : c[k] = a[k]
    BY <2>4, <2>5, ConcatAny
  <2>7. /\ Len(c \o b) = Len(c) + Len(b) /\ Len(b) \in Nat /\ Len(c) \in Nat
        /\ \A k \in 1..Len(c) : (c \o b)[k] = c[k]
        /\ \A k \in 1..Len(b) : (c \o b)[Len(c) + k] = b[k]
    <3>1. Sequence(c) /\ Sequence(b)
      BY <2>4, <2>6
    <3> QED BY ONLY <3>1, ConcatAny
  <2>8. Plan = c \o b
    BY <1>6, <2>1, <2>2, <2>3, <2>5 DEF Plan
  <2>9. PICK p : p = Plan
    OBVIOUS
  <2>10. /\ Len(p) = Len(c) + Len(b)
         /\ \A k \in 1..Len(c) : p[k] = c[k]
         /\ \A k \in 1..Len(b) : p[Len(c) + k] = b[k]
    BY <2>7, <2>8, <2>9
  <2>11. CASE Boxes[i].type = "ftyp"
    <3>1. PICK T : T = OfType({"ftyp"})
      OBVIOUS
    <3>2. i \in T /\ a = Those(s, T)
      BY <1>1, <1>2, <2>1, <2>11, <3>1 DEF OfType, Ahead
    <3>3. PICK k \in 1..Len(a) : a[k] = i
      BY <1>3, <1>4, <3>2, ThoseShape
    <3>4. k \in 1..Len(c) /\ k \in 1..Len(p)
      BY <2>6, <2>7, <2>10
    <3>5. p[k] = i
      BY <2>6, <2>10, <3>3, <3>4
    <3> QED BY <2>9, <3>4, <3>5
  <2>12. CASE Boxes[i].type # "ftyp"
    <3>1. PICK T : T = OfNoType({"ftyp", "moov"})
      OBVIOUS
    <3>2. i \in T /\ b = Those(s, T)
      BY <1>1, <1>2, <2>2, <2>12, <3>1 DEF OfNoType, Behind
    <3>3. PICK k \in 1..Len(b) : b[k] = i
      BY <1>3, <1>4, <3>2, ThoseShape
    <3>4. Len(c) + k \in 1..Len(p) /\ p[Len(c) + k] = i
      BY <2>7, <2>10, <3>3
    <3> QED BY <2>9, <3>4
  <2> QED BY <2>11, <2>12
<1> QED BY <1>5, <1>6

(* No box that is gathered is cut short.                                   *)
GatheredWhole == \A i \in 1..Len(Boxes) : IsGathered(i) => BoxEnd(i) <= file.length

LEMMA PlanKeepsShort ==
  ASSUME file \in Files, GatheredWhole
  PROVE  KeepsShort(Plan)
<1> SUFFICES ASSUME NEW i \in 1..Len(Boxes), Short(i) PROVE \E k \in 1..Len(Plan) : Plan[k] = i
  BY DEF KeepsShort
<1>1. ~IsGathered(i)
  <2>1. BoxEnd(i) \in Nat /\ file.length \in Nat
    BY BoxesLie
  <2> QED BY <2>1 DEF GatheredWhole, Short
<1>2. Boxes[i].type # "moov"
  BY <1>1 DEF IsGathered
<1> QED BY <1>2, PlanHas

(* The moov as it is once the file has ended.                              *)
LaidOutSo(failure, tables) ==
  failure = "none" =>
    /\ HasMovie
    /\ IF Rearranged THEN \E wide : Settles(wide) /\ FollowsMoves(wide, tables)
       ELSE tables = AsRead

LEMMA EndFileKeeps ==
  ASSUME file \in Files, file' = file, laid = <<>>, NEW r, Sized(r.movie),
         r.failed = "none" => r.boxes = Len(Boxes) /\ (HasMovie => r.movie = AsRead) /\ GatheredWhole,
         EndFile(r)
  PROVE  /\ finished' = TRUE
         /\ Sized(movie')
         /\ LaidOutSo(failed', movie')
         /\ (failed' # "none" /\ laid' = <<>>) \/ Passing'
<1>1. finished' = TRUE /\ passed' = 0
  BY DEF EndFile
<1>2. CASE r.failed # "none"
  BY <1>1, <1>2 DEF EndFile, FailAtEnd, LaidOutSo
<1>3. CASE r.failed = "none"
  <2>1. r.boxes = Len(Boxes)
    BY <1>3
  <2>2. (\E i \in 1..r.boxes : Boxes[i].type = "moov") <=> HasMovie
    BY <2>1, BoxesLie DEF HasMovie
  <2>3. CASE ~HasMovie
    BY <1>1, <1>3, <2>2, <2>3 DEF EndFile, FailAtEnd, LaidOutSo
  <2>4. CASE HasMovie
    <3>1. \E order \in {Order(r.boxes)} :
          \E wide \in {WideAfter(r.movie, order)} :
          \E out \in {LayOut(r.movie, r.boxes, order, wide)} : LaidOut(out)
      BY <1>3, <2>2, <2>4 DEF EndFile
    <3>2. PICK order : /\ order = Order(r.boxes)
                       /\ \E wide \in {WideAfter(r.movie, order)} :
                          \E out \in {LayOut(r.movie, r.boxes, order, wide)} : LaidOut(out)
      BY <3>1
    <3>3. PICK wide, out : /\ wide = WideAfter(r.movie, order)
                           /\ out = LayOut(r.movie, r.boxes, order, wide) /\ LaidOut(out)
      BY <3>2
    <3>4. /\ out = LayOut(AsRead, Len(Boxes), order, wide) /\ order = Order(Len(Boxes))
          /\ wide = WideAfter(AsRead, order)
      BY <1>3, <2>1, <2>4, <3>2, <3>3
    <3>5. /\ Sized(out.movie)
          /\ out.failed = "none" => out.pieces = Plan
          /\ out.failed # "none" => out.pieces = <<>>
          /\ out.failed = "none" => IF Rearranged THEN FollowsMoves(wide, out.movie) ELSE out.movie = AsRead
      BY <2>4, <3>4, LayOutGives
    <3>6. failed' = out.failed /\ movie' = out.movie /\ Output(out.pieces, out.movie, laid)
      BY <3>3 DEF LaidOut
    <3>a. LaidOutSo(failed', movie')
      <4>1. order = NewOrder
        BY <3>4, OrderIs DEF NewOrder
      <4>2. Settles(wide)
        BY <2>4, <3>4, <4>1, WideSettles
      <4> QED BY <2>4, <3>5, <3>6, <4>2 DEF LaidOutSo
    <3>7. CASE out.failed # "none"
      BY <1>1, <3>5, <3>6, <3>7, <3>a DEF Output
    <3>8. CASE out.failed = "none"
      <4>1. PICK p \in Seq(Places) : p = Plan
        BY PlanIs
      <4>2. Once(p)
        BY <4>1, PlanIs
      <4>3. PICK l \in Seq(Int) : l = <<>>
        <5>1. <<>> \in Seq(Int)
          OBVIOUS
        <5> QED BY <5>1
      <4>a. PICK L \in Nat : L = MoovLength(out.movie)
        BY <3>5, MovieLengthIs DEF MoovLength
      <4>5. l \o FlattenSeq(Chosen(Held(L), p)) = Expected(L)
        <5>1. PICK e \in Seq(Int) : e = Expected(L)
          BY ExpectedType
        <5>2. <<>> \o e = e
          OBVIOUS
        <5> QED BY <4>1, <4>3, <5>1, <5>2 DEF Expected
      <4>b. KeepsShort(p)
        BY <1>3, <4>1, PlanKeepsShort
      <4>6. Output(p, out.movie, l)
        BY <3>5, <3>6, <3>8, <4>1, <4>3
      <4>7. Lies(pieces', 0, laid', L)
        BY <4>2, <4>5, <4>6, <4>a, <4>b, OutputGives
      <4>8. Passing'
        BY <1>1, <3>6, <4>7, <4>a, SameLies
      <4> QED BY <1>1, <3>5, <3>6, <3>a, <4>8
    <3> QED BY <3>7, <3>8
  <2> QED BY <2>3, <2>4
<1> QED BY <1>2, <1>3

(* THE BOXES READ                                                          *)

MovieRead(last, holds) == \E i \in 1..last : Boxes[i].type = "moov" /\ ~(holds /\ i = last)

(* None of the boxes read calls for a failure.                             *)
Accepted(last, holds) ==
  \A i \in 1..last : /\ HeaderFailure(i) = "none"
                     /\ IsGathered(i) /\ ~(holds /\ i = last) =>
                          EndFailure(i) = "none" /\ BoxEnd(i) <= file.length

Ready(last, reached, holds) ==
  /\ last = 0 => ~holds /\ reached = 0
  /\ holds => /\ last # 0 /\ IsGathered(last)
              /\ RunsToFileEnd(last) => reached <= HeaderEnd(last) + MovieBytes
              /\ ~RunsToFileEnd(last) => reached < BoxEnd(last)
  /\ Accepted(last, holds)

Reading ==
  /\ boxes \in 0..Len(Boxes) /\ gathering \in BOOLEAN /\ position \in Nat
  /\ Ready(boxes, position, gathering)
  /\ boxes # 0 /\ ~gathering => ~RunsToFileEnd(boxes) /\ position = BoxEnd(boxes)
  /\ movie = IF MovieRead(boxes, gathering) THEN AsRead ELSE <<>>
  /\ laid = <<>> /\ pieces = <<>>

Met(upTo) == {i \in DOMAIN Boxes : IF i > boxes THEN BoxStart(i) < upTo ELSE i = boxes /\ gathering}
MetFailing(upTo) == {i \in Met(upTo) : FailureOf(i, upTo) # "none"}

(* The position lies before the boxes not met yet.                         *)
LEMMA PositionBefore ==
  ASSUME file \in Files, Reading, NEW i \in 1..Len(Boxes), i > boxes
  PROVE  position <= BoxStart(i)
<1>1. Len(Boxes) \in Nat /\ boxes \in Nat /\ BoxStart(i) \in Nat
  BY BoxesLie DEF Reading
<1>2. CASE boxes = 0
  BY <1>1, <1>2 DEF Reading, Ready
<1>3. CASE boxes # 0
  <2>1. boxes \in 1..Len(Boxes) /\ boxes < i /\ boxes < Len(Boxes)
    BY <1>1, <1>3
  <2>2. BoxEnd(boxes) <= BoxStart(i) /\ BoxEnd(boxes) \in Nat
    BY <2>1, BoxesLie
  <2>3. ~RunsToFileEnd(boxes)
    BY <2>1, LastEnds
  <2>4. position <= BoxEnd(boxes)
    BY <1>3, <2>2, <2>3 DEF Reading, Ready
  <2> QED BY <1>1, <2>2, <2>4 DEF Reading
<1> QED BY <1>2, <1>3

LEMMA MetAre ==
  ASSUME file \in Files, Reading, NEW upTo \in Nat
  PROVE  /\ Met(upTo) \subseteq 1..Len(Boxes)
         /\ \A i \in Met(upTo) : i >= boxes /\ (i = boxes => gathering) /\ (i # boxes => BoxStart(i) < upTo)
         /\ gathering => boxes \in Met(upTo)
         /\ \A i \in 1..Len(Boxes) : i > boxes /\ BoxStart(i) < upTo => i \in Met(upTo)
<1>1. DOMAIN Boxes = 1..Len(Boxes) /\ Len(Boxes) \in Nat /\ boxes \in Nat /\ boxes <= Len(Boxes)
  BY BoxesLie DEF Reading
<1>2. Met(upTo) \subseteq 1..Len(Boxes)
  BY <1>1 DEF Met
<1>3. gathering => boxes \in 1..Len(Boxes)
  BY <1>1 DEF Reading, Ready
<1> QED BY <1>1, <1>2, <1>3 DEF Met

LEMMA LastMet ==
  ASSUME file \in Files, Reading, NEW upTo \in Nat, NEW last, last = Max(Met(upTo) \cup {boxes})
  PROVE  /\ last \in 0..Len(Boxes) /\ last >= boxes
         /\ last # boxes => last \in Met(upTo)
         /\ \A i \in Met(upTo) : i <= last
         /\ \A i \in 1..Len(Boxes) : i > boxes /\ i <= last => i \in Met(upTo)
<1> DEFINE M == Met(upTo)
<1>1. Len(Boxes) \in Nat /\ boxes \in Nat /\ boxes <= Len(Boxes) /\ M \subseteq 1..Len(Boxes)
  BY BoxesLie, MetAre DEF Reading
<1>2. \A i \in M : i >= boxes /\ (i = boxes => gathering) /\ (i # boxes => BoxStart(i) < upTo)
  BY MetAre
<1>3. \A i \in 1..Len(Boxes) : i > boxes /\ BoxStart(i) < upTo => i \in M
  BY MetAre
<1> HIDE DEF M
<1>4. \E m \in M \cup {boxes} : \A n \in M \cup {boxes} : m >= n
  <2>1. CASE M = {}
    BY <1>1, <2>1
  <2>2. CASE M # {}
    <3>1. PICK m \in M : \A n \in M : n <= m
      BY <1>1, <2>2, Greatest
    <3> QED BY <1>1, <1>2, <3>1
  <2> QED BY <2>1, <2>2
<1>5. last \in M \cup {boxes} /\ \A n \in M \cup {boxes} : last >= n
  BY <1>4 DEF Max, M
<1>6. last \in 0..Len(Boxes) /\ last >= boxes /\ \A n \in M : n <= last
  <2>1. \A n \in M : n \in Nat /\ n <= Len(Boxes)
    BY <1>1
  <2>2. last \in Nat /\ last <= Len(Boxes)
    BY <1>1, <1>5, <2>1
  <2>3. boxes \in M \cup {boxes} /\ \A n \in M : n \in M \cup {boxes}
    OBVIOUS
  <2>4. last >= boxes /\ \A n \in M : last >= n
    BY <1>5, <2>3
  <2>5. last \in 0..Len(Boxes)
    BY <1>1, <2>2
  <2>6. ASSUME NEW n \in M PROVE n <= last
    <3>1. n \in Nat /\ last >= n
      BY <2>1, <2>4
    <3> QED BY <2>2, <3>1
  <2> QED BY <2>4, <2>5, <2>6
<1>7. last # boxes => last \in M
  BY <1>5
<1>8. ASSUME NEW i \in 1..Len(Boxes), i > boxes, i <= last PROVE i \in M
  <2>1. last \in M /\ last # boxes /\ last \in 1..Len(Boxes)
    BY <1>1, <1>6, <1>7, <1>8
  <2>2. BoxStart(last) < upTo
    BY <1>2, <2>1
  <2>3. CASE i = last
    BY <2>1, <2>3
  <2>4. CASE i # last
    <3>1. i < last
      BY <1>8, <2>1, <2>4
    <3>2. BoxEnd(i) <= BoxStart(last) /\ BoxStart(i) < BoxEnd(i) /\ BoxStart(i) \in Nat /\ BoxEnd(i) \in Nat /\ BoxStart(last) \in Nat
      BY <2>1, <3>1, BoxesLie
    <3> QED BY <1>3, <1>8, <2>2, <3>2
  <2> QED BY <2>3, <2>4
<1> QED BY <1>6, <1>7, <1>8 DEF M

LEMMA EventsFailing ==
  ASSUME file \in Files, Reading, NEW upTo \in Nat, MetFailing(upTo) # {}
  PROVE  \E i \in MetFailing(upTo) : Events(upTo) = Failing(FailureOf(i, upTo))
<1> DEFINE T == MetFailing(upTo)
<1>1. T \subseteq Nat /\ T # {}
  BY MetAre DEF MetFailing
<1>2. PICK n \in T : \A m \in T : n <= m
  BY <1>1, Least
<1>3. Min(T) \in T
  BY <1>2 DEF Min
<1>4. Events(upTo) = Failing(FailureOf(Min(T), upTo))
  BY <1>1 DEF Events, EventsTo, MetFailing, Met
<1> QED BY <1>3, <1>4

LEMMA EventsPassing ==
  ASSUME file \in Files, Reading, NEW upTo \in Nat, upTo <= file.length, MetFailing(upTo) = {}
  PROVE  \E last \in 0..Len(Boxes), holds \in BOOLEAN, reached \in Nat :
           /\ Events(upTo) = Read(last, reached, holds)
           /\ Ready(last, reached, holds)
<1>1. PICK last : last = Max(Met(upTo) \cup {boxes})
  OBVIOUS
<1>2. /\ last \in 0..Len(Boxes) /\ last >= boxes
      /\ last # boxes => last \in Met(upTo)
      /\ \A i \in Met(upTo) : i <= last
      /\ \A i \in 1..Len(Boxes) : i > boxes /\ i <= last => i \in Met(upTo)
  BY <1>1, LastMet
<1>3. PICK reached : reached = Max({position, upTo})
  OBVIOUS
<1>4. reached = (IF position >= upTo THEN position ELSE upTo) /\ reached \in Nat
  <2>1. position \in Nat
    BY DEF Reading
  <2>2. position \in Int /\ upTo \in Int
    BY <2>1
  <2> QED BY <1>3, <2>1, <2>2, OfTwo
<1>5. PICK holds \in BOOLEAN :
        holds <=> last # 0 /\ IsGathered(last) /\ (RunsToFileEnd(last) \/ upTo < BoxEnd(last))
                           /\ (last = boxes => gathering)
  OBVIOUS
<1>6. Events(upTo) = Read(last, reached, holds)
  BY <1>1, <1>3, <1>5 DEF Events, EventsTo, MetFailing, Met
<1>7. \A i \in Met(upTo) : FailureOf(i, upTo) = "none"
  BY DEF MetFailing
<1>8. Len(Boxes) \in Nat /\ boxes \in Nat /\ boxes <= Len(Boxes) /\ position \in Nat /\ gathering \in BOOLEAN
  BY BoxesLie DEF Reading
<1>9. \A i \in 1..Len(Boxes) : BoxStart(i) \in Nat /\ BoxEnd(i) \in Nat
  BY BoxesLie
<1>10. ASSUME last = 0 PROVE ~holds /\ reached = 0
  <2>1. boxes = 0 /\ position = 0
    BY <1>2, <1>8, <1>10 DEF Reading, Ready
  <2>2. upTo = 0
    <3>1. CASE Len(Boxes) = 0
      <4>1. BoxStart(1) = 0 /\ file.length <= BoxStart(Len(Boxes) + 1) /\ file.length \in Nat
        BY BoxesLie
      <4> QED BY <3>1, <4>1
    <3>2. CASE Len(Boxes) # 0
      <4>1. 1 \in 1..Len(Boxes) /\ 1 > boxes
        BY <1>8, <2>1, <3>2
      <4>2. 1 \notin Met(upTo)
        BY <1>2, <1>10
      <4>3. ~(BoxStart(1) < upTo)
        BY <4>1, <4>2, MetAre
      <4> QED BY <4>3, BoxesLie
    <3> QED BY <3>1, <3>2
  <2> QED BY <1>4, <1>5, <1>10, <2>1, <2>2
<1>11. ASSUME holds
       PROVE  /\ last # 0 /\ IsGathered(last)
              /\ RunsToFileEnd(last) => reached <= HeaderEnd(last) + MovieBytes
              /\ ~RunsToFileEnd(last) => reached < BoxEnd(last)
  <2>1. last # 0 /\ IsGathered(last) /\ (RunsToFileEnd(last) \/ upTo < BoxEnd(last)) /\ (last = boxes => gathering)
    BY <1>5, <1>11
  <2>2. last \in 1..Len(Boxes)
    BY <1>2, <1>8, <2>1
  <2>3. last \in Met(upTo)
    BY <1>2, <2>1, MetAre
  <2>4. FailureOf(last, upTo) = "none"
    BY <1>7, <2>3
  <2>5. HeaderEnd(last) \in Nat /\ BoxStart(last) \in Nat /\ HeaderEnd(last) = BoxStart(last) + 1 /\ MovieBytes \in Nat
    BY <2>2, <1>9, LimitsAssumption DEF HeaderEnd
  <2>6. last # boxes => position <= BoxStart(last) /\ BoxStart(last) < upTo
    <3> SUFFICES ASSUME last # boxes PROVE position <= BoxStart(last) /\ BoxStart(last) < upTo
      OBVIOUS
    <3>1. last > boxes
      BY <1>2, <1>8, <2>2
    <3> QED BY <2>2, <2>3, <3>1, PositionBefore, MetAre
  <2>7. ASSUME RunsToFileEnd(last) PROVE reached <= HeaderEnd(last) + MovieBytes
    <3>1. ~(upTo > HeaderEnd(last) + MovieBytes)
      BY <2>1, <2>4, <2>7 DEF FailureOf
    <3>2. position <= HeaderEnd(last) + MovieBytes
      <4>1. CASE last = boxes
        BY <2>1, <2>7, <4>1 DEF Reading, Ready
      <4>2. CASE last # boxes
        BY <1>8, <2>5, <2>6, <4>2
      <4> QED BY <4>1, <4>2
    <3> QED BY <1>4, <2>5, <3>1, <3>2
  <2>8. ASSUME ~RunsToFileEnd(last) PROVE reached < BoxEnd(last)
    <3>1. upTo < BoxEnd(last)
      BY <2>1, <2>8
    <3>2. position < BoxEnd(last)
      <4>1. CASE last = boxes
        BY <2>1, <2>8, <4>1 DEF Reading, Ready
      <4>2. CASE last # boxes
        <5>1. BoxStart(last) < BoxEnd(last)
          BY <2>2, BoxesLie
        <5> QED BY <1>8, <1>9, <2>2, <2>6, <4>2, <5>1
      <4> QED BY <4>1, <4>2
    <3> QED BY <1>4, <3>1, <3>2
  <2> QED BY <2>1, <2>7, <2>8
<1>12. Accepted(last, holds)
  <2> SUFFICES ASSUME NEW i \in 1..last
               PROVE  /\ HeaderFailure(i) = "none"
                      /\ IsGathered(i) /\ ~(holds /\ i = last) =>
                           EndFailure(i) = "none" /\ BoxEnd(i) <= file.length
    BY DEF Accepted
  <2>1. i \in 1..Len(Boxes) /\ i <= last
    BY <1>2, <1>8
  <2>2. CASE i \in Met(upTo)
    <3>1. FailureOf(i, upTo) = "none"
      BY <1>7, <2>2
    <3>2. HeaderFailure(i) = "none"
      BY <3>1 DEF FailureOf
    <3>3. ASSUME IsGathered(i), ~(holds /\ i = last)
          PROVE  EndFailure(i) = "none" /\ BoxEnd(i) <= file.length
      <4>1. ~RunsToFileEnd(i) /\ upTo >= BoxEnd(i)
        <5>1. CASE i = last
          <6>1. ~(RunsToFileEnd(last) \/ upTo < BoxEnd(last))
            <7>1. last = boxes => gathering
              BY <2>2, <5>1, MetAre
            <7>2. last # 0
              BY <2>1, <5>1
            <7> QED BY <1>5, <3>3, <5>1, <7>1, <7>2
          <6> QED BY <1>9, <2>1, <5>1, <6>1
        <5>2. CASE i # last
          <6>1. i < last /\ last \in 1..Len(Boxes) /\ i < Len(Boxes)
            BY <1>2, <1>8, <2>1, <5>2
          <6>2. i >= boxes
            BY <2>2, MetAre
          <6>3. last # boxes
            BY <1>8, <6>1, <6>2
          <6>4. BoxStart(last) < upTo
            BY <1>2, <6>3, MetAre
          <6>5. BoxEnd(i) <= BoxStart(last)
            BY <2>1, <6>1, BoxesLie
          <6>6. ~RunsToFileEnd(i)
            BY <2>1, <6>1, LastEnds
          <6> QED BY <1>9, <2>1, <6>1, <6>4, <6>5, <6>6
        <5> QED BY <5>1, <5>2
      <4>2. EndFailure(i) = "none"
        BY <3>1, <3>2, <3>3, <4>1 DEF FailureOf
      <4>3. BoxEnd(i) \in Nat /\ file.length \in Nat
        BY <2>1, BoxesLie
      <4> QED BY <4>1, <4>2, <4>3
    <3> QED BY <3>2, <3>3
  <2>3. CASE i \notin Met(upTo)
    <3>1. i <= boxes
      BY <1>2, <1>8, <2>1, <2>3
    <3>2. i \in 1..boxes
      BY <1>8, <2>1, <3>1
    <3>3. i = boxes => ~gathering
      BY <2>3, MetAre
    <3> QED BY <3>2, <3>3 DEF Reading, Ready, Accepted
  <2> QED BY <2>2, <2>3
<1>13. Ready(last, reached, holds)
  BY <1>10, <1>11, <1>12 DEF Ready
<1> QED BY <1>2, <1>4, <1>6, <1>13

LEMMA SameReading ==
  ASSUME file' = file,
         boxes' \in 0..Len(Boxes), gathering' \in BOOLEAN, position' \in Nat,
         Ready(boxes', position', gathering'),
         boxes' # 0 /\ ~gathering' => ~RunsToFileEnd(boxes') /\ position' = BoxEnd(boxes'),
         movie' = IF MovieRead(boxes', gathering') THEN AsRead ELSE <<>>,
         laid' = <<>>, pieces' = <<>>
  PROVE  Reading'
<1>1. Boxes' = Boxes
  BY DEF Boxes
<1>2. AsRead' = AsRead
  BY DEF AsRead
<1>3. Accepted(boxes', gathering') => Accepted(boxes, gathering)'
  BY <1>1 DEF Accepted, HeaderFailure, EndFailure, IsGathered, RunsToFileEnd, Duplicate, BoxStart, BoxEnd
<1>4. Ready(boxes', position', gathering') => Ready(boxes, position, gathering)'
  BY <1>1, <1>3 DEF Ready, IsGathered, RunsToFileEnd, HeaderEnd, BoxStart, BoxEnd
<1>5. MovieRead(boxes', gathering') = MovieRead(boxes, gathering)'
  BY <1>1 DEF MovieRead
<1> QED BY <1>1, <1>2, <1>4, <1>5 DEF Reading, RunsToFileEnd, BoxStart, BoxEnd

Inv ==
  /\ file \in Files
  /\ finished \in BOOLEAN
  /\ ~finished => laid = <<>> /\ (failed = "none" => Reading)
  /\ finished => /\ Sized(movie)
                 /\ LaidOutSo(failed, movie)
                 /\ Passing \/ (failed # "none" /\ laid = <<>>)

LEMMA SameOut ==
  ASSUME file' = file
  PROVE  LaidOutSo(failed', movie') <=> LaidOutSo(failed, movie)'
<1>1. Boxes' = Boxes /\ AsRead' = AsRead /\ HasMovie' = HasMovie
  BY DEF Boxes, AsRead, HasMovie
<1>2. NewOrder' = NewOrder
  BY <1>1 DEF NewOrder, Ahead, Behind, OfType, OfNoType, MovieBox
<1>3. PICK order : order = NewOrder /\ order = NewOrder'
  BY <1>2
<1>4. PICK tables : tables = AsRead /\ tables = AsRead'
  BY <1>1
<1>5. PICK n : n = Len(Boxes) /\ n = Len(Boxes)'
  BY <1>1
<1>6. \A length : NewStarts(order, length)' = NewStarts(order, length)
  BY <1>1 DEF NewStarts, NewLength, RunsToFileEnd
<1>7. \A starts, offset : Moved(offset, order, starts)' = Moved(offset, order, starts)
  BY <1>1 DEF Moved, MovedWith, LiesIn, RunsToFileEnd, BoxStart, BoxEnd
<1>8. \A starts : MovedTables(tables, order, starts)' = MovedTables(tables, order, starts)
  BY <1>7 DEF MovedTables
<1>9. \A wide : Moves(wide)' = Moves(wide)
  <2> SUFFICES ASSUME NEW wide PROVE Moves(wide)' = Moves(wide)
    OBVIOUS
  <2>1. PICK length : length = MovieLength(tables, wide)
    OBVIOUS
  <2>2. PICK starts : starts = NewStarts(order, length) /\ starts = NewStarts(order, length)'
    BY <1>6
  <2>3. MovieLength(AsRead, wide) = length
    BY <1>4, <2>1
  <2>4. MovieLength(AsRead, wide)' = length
    BY <1>4, <2>1 DEF MovieLength
  <2>5. Moves(wide) = MovedTables(tables, order, starts)
    BY <1>3, <1>4, <2>2, <2>3 DEF Moves
  <2>6. Moves(wide)' = MovedTables(tables, order, starts)'
    BY <1>3, <1>4, <2>2, <2>4 DEF Moves
  <2> QED BY <1>8, <2>5, <2>6
<1>10. \A wide : Settles(wide)' <=> Settles(wide)
  BY <1>1, <1>9 DEF Settles
<1>11. \A wide : FollowsMoves(wide, movie') <=> FollowsMoves(wide, movie)'
  BY <1>1, <1>9 DEF FollowsMoves
<1>12. Rearranged' = Rearranged
  BY <1>1 DEF Rearranged, MovieStart, OffsetsHere, BoxStart
<1> QED BY <1>1, <1>10, <1>11, <1>12 DEF LaidOutSo

LEMMA MovieSized ==
  ASSUME file \in Files, NEW m, NEW b \in BOOLEAN, m = IF b THEN AsRead ELSE <<>>
  PROVE  Sized(m)
<1>1. Sized(<<>>)
  BY DEF Sized
<1> QED BY <1>1, AsReadIs

(* The end of the file keeps the invariant, as the boxes are read.         *)
LEMMA EndingKeeps ==
  ASSUME file \in Files, file' = file, laid = <<>>, NEW r, Sized(r.movie),
         r.failed = "none" => r.boxes = Len(Boxes) /\ (HasMovie => r.movie = AsRead) /\ GatheredWhole,
         EndFile(r)
  PROVE  Inv'
<1>1. /\ finished' = TRUE
      /\ Sized(movie')
      /\ LaidOutSo(failed', movie')
      /\ (failed' # "none" /\ laid' = <<>>) \/ Passing'
  BY EndFileKeeps
<1>2. Sized(movie)'
  BY <1>1 DEF Sized
<1> QED BY <1>1, <1>2, SameOut DEF Inv

(* All boxes read, the moov is among them.                                 *)
LEMMA MovieReadWhole ==
  ASSUME file \in Files
  PROVE  HasMovie => MovieRead(Len(Boxes), FALSE)
  BY BoxesLie DEF HasMovie, MovieRead

(* All boxes accepted, none of those that are gathered is cut short.       *)
LEMMA AcceptedWhole ==
  ASSUME file \in Files, Accepted(Len(Boxes), FALSE)
  PROVE  GatheredWhole
  BY DEF Accepted, GatheredWhole

LEMMA ReadIs ==
  ASSUME NEW last, NEW reached, NEW holds
  PROVE  /\ Read(last, reached, holds).boxes = last
         /\ Read(last, reached, holds).gathering = holds
         /\ Read(last, reached, holds).failed = "none"
         /\ Read(last, reached, holds).position
              = IF last = 0 \/ holds THEN reached
                ELSE IF RunsToFileEnd(last) THEN HeaderEnd(last) ELSE BoxEnd(last)
         /\ Read(last, reached, holds).movie = IF MovieRead(last, holds) THEN AsRead ELSE <<>>
         /\ Read(last, reached, holds).ends <=> last # 0 /\ RunsToFileEnd(last) /\ ~holds
<1>1. Read(last, reached, holds).boxes = last
  BY DEF Read
<1>2. Read(last, reached, holds).gathering = holds
  BY DEF Read
<1>3. Read(last, reached, holds).failed = "none"
  BY DEF Read
<1>4. Read(last, reached, holds).position
              = IF last = 0 \/ holds THEN reached
                ELSE IF RunsToFileEnd(last) THEN HeaderEnd(last) ELSE BoxEnd(last)
  BY DEF Read
<1>5. Read(last, reached, holds).movie = IF MovieRead(last, holds) THEN AsRead ELSE <<>>
  BY DEF Read, MovieRead, AsRead
<1>6. Read(last, reached, holds).ends <=> last # 0 /\ RunsToFileEnd(last) /\ ~holds
  BY DEF Read
<1> QED BY <1>1, <1>2, <1>3, <1>4, <1>5, <1>6

LEMMA ReadKeeps ==
  ASSUME file \in Files, file' = file, finished = FALSE, laid = <<>>, pieces = <<>>,
         NEW last \in 0..Len(Boxes), NEW holds \in BOOLEAN, NEW reached \in Nat,
         Ready(last, reached, holds),
         NEW r, r = Read(last, reached, holds),
         KeepReading(r),
         IF r.ends THEN EndFile(r)
         ELSE movie' = r.movie /\ failed' = r.failed /\ UNCHANGED <<finished, pieces, passed, laid>>
  PROVE  Inv'
<1>1. PICK m : m = IF MovieRead(last, holds) THEN AsRead ELSE <<>>
  OBVIOUS
<1>2. PICK p : p = IF last = 0 \/ holds THEN reached
                   ELSE IF RunsToFileEnd(last) THEN HeaderEnd(last) ELSE BoxEnd(last)
  OBVIOUS
<1>3. PICK e \in BOOLEAN : e <=> last # 0 /\ RunsToFileEnd(last) /\ ~holds
  OBVIOUS
<1>4. r.boxes = last /\ r.gathering = holds /\ r.failed = "none" /\ r.position = p /\ r.movie = m /\ (r.ends <=> e)
  BY <1>1, <1>2, <1>3, ReadIs
<1>5. Sized(m)
  <2>1. MovieRead(last, holds) \in BOOLEAN
    BY DEF MovieRead
  <2> QED BY <1>1, <2>1, MovieSized
<1>6. Len(Boxes) \in Nat /\ last \in Nat /\ (last # 0 => last \in 1..Len(Boxes))
  BY BoxesLie
<1>7. CASE e
  <2>1. last # 0 /\ RunsToFileEnd(last) /\ ~holds
    BY <1>3, <1>7
  <2>2. last = Len(Boxes)
    BY <1>6, <2>1, LastEnds
  <2>3. HasMovie => m = AsRead
    BY <1>1, <2>1, <2>2, MovieReadWhole
  <2>4. EndFile(r)
    BY <1>4, <1>7
  <2>5. GatheredWhole
    <3>1. holds = FALSE
      BY <2>1
    <3>2. Accepted(last, holds)
      BY DEF Ready
    <3> QED BY <2>2, <3>1, <3>2, AcceptedWhole
  <2> QED BY <1>4, <1>5, <2>2, <2>3, <2>4, <2>5, EndingKeeps
<1>8. CASE ~e
  <2>1. /\ movie' = m /\ failed' = "none" /\ finished' = FALSE /\ pieces' = <<>> /\ laid' = <<>>
        /\ boxes' = last /\ gathering' = holds /\ position' = p
    BY <1>4, <1>8 DEF KeepReading
  <2>2. ASSUME last # 0, ~holds PROVE ~RunsToFileEnd(last) /\ p = BoxEnd(last)
    BY <1>2, <1>3, <1>8, <2>2
  <2>3. p \in Nat
    <3>1. CASE last = 0 \/ holds
      BY <1>2, <3>1
    <3>2. CASE last # 0 /\ ~holds
      BY <1>6, <2>2, <3>2, BoxesLie
    <3> QED BY <3>1, <3>2
  <2>4. Ready(last, p, holds)
    <3>1. CASE last = 0 \/ holds
      BY <1>2, <3>1
    <3>2. CASE last # 0 /\ ~holds
      BY <3>2 DEF Ready
    <3> QED BY <3>1, <3>2
  <2>5. Reading'
    BY <1>1, <2>1, <2>2, <2>3, <2>4, SameReading
  <2> QED BY <2>1, <2>5 DEF Inv
<1> QED BY <1>7, <1>8

LEMMA FailingKeeps ==
  ASSUME file \in Files, file' = file, finished = FALSE, laid = <<>>,
         NEW failure, failure # "none",
         NEW r, r = Failing(failure),
         IF r.ends THEN EndFile(r)
         ELSE movie' = r.movie /\ failed' = r.failed /\ UNCHANGED <<finished, pieces, passed, laid>>
  PROVE  Inv'
<1>1. r.ends = FALSE /\ r.failed = failure
  BY DEF Failing
<1>2. failed' = failure /\ finished' = FALSE /\ laid' = <<>>
  BY <1>1
<1> QED BY <1>2 DEF Inv

LEMMA ReadInputKeeps ==
  ASSUME Inv, NEW offset \in Nat, NEW upTo \in Nat, upTo <= file.length, ReadInput(offset, upTo)
  PROVE  Inv'
<1>1. file \in Files /\ file' = file /\ finished = FALSE /\ laid = <<>> /\ Reading /\ pieces = <<>>
  BY DEF Inv, ReadInput, Reading
<1>2. PICK r : /\ r = IF offset > position THEN Failing("unwanted") ELSE Events(upTo)
               /\ KeepReading(r)
               /\ IF r.ends THEN EndFile(r)
                  ELSE movie' = r.movie /\ failed' = r.failed /\ UNCHANGED <<finished, pieces, passed, laid>>
  BY DEF ReadInput
<1>3. CASE offset > position
  <2>1. r = Failing("unwanted") /\ "unwanted" # "none"
    BY <1>2, <1>3
  <2> QED BY <1>1, <1>2, <2>1, FailingKeeps
<1>4. CASE ~(offset > position)
  <2>1. r = Events(upTo)
    BY <1>2, <1>4
  <2>2. CASE MetFailing(upTo) # {}
    <3>1. PICK i \in MetFailing(upTo) : Events(upTo) = Failing(FailureOf(i, upTo))
      BY <1>1, <2>2, EventsFailing
    <3>2. PICK failure : failure = FailureOf(i, upTo)
      OBVIOUS
    <3>3. failure # "none" /\ r = Failing(failure)
      BY <2>1, <3>1, <3>2 DEF MetFailing
    <3> QED BY <1>1, <1>2, <3>3, FailingKeeps
  <2>3. CASE MetFailing(upTo) = {}
    <3>1. PICK last \in 0..Len(Boxes), holds \in BOOLEAN, reached \in Nat :
             /\ Events(upTo) = Read(last, reached, holds)
             /\ Ready(last, reached, holds)
      BY <1>1, <2>3, EventsPassing
    <3> QED BY <1>1, <1>2, <2>1, <3>1, ReadKeeps
  <2> QED BY <2>2, <2>3
<1> QED BY <1>3, <1>4

LEMMA FinishReadingKeeps ==
  ASSUME Inv, FinishReading
  PROVE  Inv'
<1>1. /\ file \in Files /\ file' = file /\ finished = FALSE /\ laid = <<>> /\ Reading
      /\ position >= file.length
  BY DEF Inv, FinishReading
<1>2. PICK r : r = LastEvent /\ KeepReading(r) /\ EndFile(r)
  BY DEF FinishReading
<1>3. Sized(movie)
  <2>1. MovieRead(boxes, gathering) \in BOOLEAN
    BY DEF MovieRead
  <2> QED BY <1>1, <2>1, MovieSized DEF Reading
<1>4. Len(Boxes) \in Nat /\ boxes \in Nat /\ boxes <= Len(Boxes) /\ file.length \in Nat /\ position \in Nat
  BY <1>1, BoxesLie DEF Reading
<1>5. CASE ~gathering
  <2>1. r.failed = "none" /\ r.boxes = boxes /\ r.movie = movie
    BY <1>2, <1>5 DEF LastEvent, Failing
  <2>2. boxes = Len(Boxes)
    <3>1. CASE boxes = 0
      <4>1. file.length = 0
        BY <1>1, <1>4, <3>1 DEF Reading, Ready
      <4>2. 1 \notin 1..Len(Boxes)
        <5>1. 1 \in 1..Len(Boxes) => BoxStart(1) < file.length /\ BoxStart(1) = 0
          BY <1>1, BoxesLie
        <5> QED BY <4>1, <5>1
      <4> QED BY <1>4, <3>1, <4>2
    <3>2. CASE boxes # 0
      <4>1. boxes \in 1..Len(Boxes) /\ position = BoxEnd(boxes)
        BY <1>1, <1>4, <1>5, <3>2 DEF Reading
      <4>2. boxes < Len(Boxes) => BoxEnd(boxes) < file.length
        BY <1>1, <4>1, LastEnds
      <4> QED BY <1>1, <1>4, <4>1, <4>2
    <3> QED BY <3>1, <3>2
  <2>3. HasMovie => movie = AsRead
    <3>1. gathering = FALSE
      BY <1>1, <1>5 DEF Reading
    <3> QED BY <1>1, <2>2, <3>1, MovieReadWhole DEF Reading
  <2>4. GatheredWhole
    <3>1. gathering = FALSE
      BY <1>1, <1>5 DEF Reading
    <3>2. Accepted(boxes, gathering)
      BY <1>1 DEF Reading, Ready
    <3> QED BY <1>1, <2>2, <3>1, <3>2, AcceptedWhole
  <2> QED BY <1>1, <1>2, <1>3, <2>1, <2>2, <2>3, <2>4, EndingKeeps
<1>6. CASE gathering /\ ~(RunsToFileEnd(boxes) /\ EndFailure(boxes) = "none")
  <2>1. r.failed # "none" /\ r.movie = movie
    BY <1>2, <1>6 DEF LastEvent, Failing
  <2> QED BY <1>1, <1>2, <1>3, <2>1, EndingKeeps
<1>7. CASE gathering /\ RunsToFileEnd(boxes) /\ EndFailure(boxes) = "none"
  <2>1. r = Read(boxes, position, FALSE)
    BY <1>2, <1>7 DEF LastEvent
  <2>2. PICK m : m = IF MovieRead(boxes, FALSE) THEN AsRead ELSE <<>>
    OBVIOUS
  <2>3. r.failed = "none" /\ r.boxes = boxes /\ r.movie = m
    <3>1. PICK no : no = FALSE
      OBVIOUS
    <3>2. PICK x : x = Read(boxes, position, no)
      OBVIOUS
    <3>3. r = x
      BY <2>1, <3>1, <3>2
    <3>4. x.failed = "none" /\ x.boxes = boxes /\ x.movie = IF MovieRead(boxes, no) THEN AsRead ELSE <<>>
      BY <3>2, ReadIs
    <3>5. m = IF MovieRead(boxes, no) THEN AsRead ELSE <<>>
      BY <2>2, <3>1
    <3> QED BY <3>3, <3>4, <3>5
  <2>4. boxes \in 1..Len(Boxes)
    BY <1>1, <1>4, <1>7 DEF Reading, Ready
  <2>5. boxes = Len(Boxes)
    BY <1>1, <1>7, <2>4, LastEnds
  <2>6. Sized(m)
    <3>1. MovieRead(boxes, FALSE) \in BOOLEAN
      BY DEF MovieRead
    <3> QED BY <1>1, <2>2, <3>1, MovieSized
  <2>7. HasMovie => m = AsRead
    BY <1>1, <2>2, <2>5, MovieReadWhole
  <2>8. GatheredWhole
    <3> SUFFICES ASSUME NEW i \in 1..Len(Boxes), IsGathered(i) PROVE BoxEnd(i) <= file.length
      BY DEF GatheredWhole
    <3>1. CASE i = boxes
      <4>1. BoxEnd(i) = file.length
        BY <1>1, <1>7, <3>1, LastEnds
      <4> QED BY <1>4, <4>1
    <3>2. CASE i # boxes
      <4>1. Accepted(boxes, gathering) /\ i \in 1..boxes
        BY <1>1, <2>5 DEF Reading, Ready
      <4> QED BY <3>2, <4>1 DEF Accepted
    <3> QED BY <3>1, <3>2
  <2> QED BY <1>1, <1>2, <2>3, <2>5, <2>6, <2>7, <2>8, EndingKeeps
<1> QED BY <1>5, <1>6, <1>7

LEMMA InvInit ==
  Init => Inv
<1> SUFFICES ASSUME Init PROVE Inv
  OBVIOUS
<1>1. /\ file \in Files /\ boxes = 0 /\ gathering = FALSE /\ position = 0 /\ movie = <<>>
      /\ finished = FALSE /\ pieces = <<>> /\ laid = <<>>
  BY DEF Init
<1>2. Len(Boxes) \in Nat
  BY <1>1, BoxesLie
<1>3. Ready(boxes, position, gathering)
  BY <1>1 DEF Ready, Accepted
<1>4. ~MovieRead(boxes, gathering)
  BY <1>1 DEF MovieRead
<1>5. Reading
  <2>1. boxes \in 0..Len(Boxes) /\ position \in Nat
    BY <1>1, <1>2
  <2>2. gathering \in BOOLEAN
    BY <1>1
  <2>3. ~(boxes # 0 /\ ~gathering)
    BY <1>1
  <2>4. movie = IF MovieRead(boxes, gathering) THEN AsRead ELSE <<>>
    BY <1>1, <1>4
  <2> QED BY <1>1, <1>3, <2>1, <2>2, <2>3, <2>4 DEF Reading
<1> QED BY <1>1, <1>5 DEF Inv

LEMMA PassingKeeps ==
  ASSUME Inv, file' = file, movie' = movie, finished' = finished, finished, failed = "none", Passing'
  PROVE  Inv'
<1>1. Sized(movie)' /\ finished' = TRUE
  <2>1. finished = TRUE /\ Sized(movie)
    BY DEF Inv
  <2> QED BY <2>1 DEF Sized
<1>2. LaidOutSo(failed, movie)'
  <2>1. LaidOutSo(failed, movie)
    BY DEF Inv
  <2>2. LaidOutSo(failed', movie')
    BY <2>1 DEF LaidOutSo
  <2> QED BY <2>2, SameOut
<1> QED BY <1>1, <1>2 DEF Inv

LEMMA WantedIs ==
  ASSUME Inv, Wants
  PROVE  WantedFrom \in Nat
<1>1. file \in Files /\ failed = "none" /\ finished \in BOOLEAN /\ (finished => pieces # <<>>)
  BY DEF Inv, Wants
<1>2. CASE finished
  <2>1. Passing /\ pieces # <<>>
    BY <1>1, <1>2 DEF Inv
  <2>a. PICK L \in Nat : Lies(pieces, passed, laid, L)
    BY <2>1 DEF Passing, Lies
  <2>2. PICK h \in 1..Len(Boxes) : h = Head(pieces)
    BY <1>1, <2>1, <2>a, ChosenTail, HeldType DEF Lies
  <2>3. BoxStart(h) \in Nat /\ passed \in Nat
    BY <1>1, <2>1, <2>2, <2>a, ThereIs DEF Lies
  <2>4. PICK x \in Nat : x = BoxStart(h)
    BY <2>3
  <2>5. WantedFrom = x + passed
    BY <1>2, <2>2, <2>4 DEF WantedFrom, PassFrom
  <2> QED BY <2>3, <2>5
<1>3. CASE ~finished
  <2>1. Reading
    BY <1>1, <1>3 DEF Inv
  <2> QED BY <1>3, <2>1 DEF Reading, WantedFrom
<1> QED BY <1>1, <1>2, <1>3

LEMMA InvNext ==
  Inv /\ [Next]_vars => Inv'
<1> SUFFICES ASSUME Inv, [Next]_vars PROVE Inv'
  OBVIOUS
<1>1. CASE HandleInput
  <2>1. PICK offset \in {0, WantedFrom, WantedFrom + 1} : \E upTo \in offset..file.length :
          ReadInput(offset, upTo) \/ PassThrough(offset, upTo)
    BY <1>1 DEF HandleInput
  <2>2. PICK upTo \in offset..file.length : ReadInput(offset, upTo) \/ PassThrough(offset, upTo)
    BY <2>1
  <2>3. offset \in Nat /\ upTo \in Nat /\ upTo <= file.length
    <3>1. Wants /\ WantedFrom \in Nat
      BY <1>1, WantedIs DEF HandleInput
    <3>2. offset \in Nat
      BY <2>1, <3>1
    <3>3. file.length \in Nat
      BY BoxesLie DEF Inv
    <3> QED BY <2>2, <3>2, <3>3
  <2>4. CASE ReadInput(offset, upTo)
    BY <2>3, <2>4, ReadInputKeeps
  <2>5. CASE PassThrough(offset, upTo)
    <3>1. finished /\ failed = "none" /\ finished' = finished
      BY <2>5 DEF PassThrough
    <3>2. file \in Files /\ Sized(movie) /\ Passing
      BY <3>1 DEF Inv
    <3>3. Passing' /\ movie' = movie /\ file' = file
      BY <2>3, <2>5, <3>2, PassThroughKeeps
    <3> QED BY <3>1, <3>3, PassingKeeps
  <2> QED BY <2>2, <2>4, <2>5
<1>2. CASE FinishReading
  BY <1>2, FinishReadingKeeps
<1>3. CASE FinishPassing
  <2>1. finished /\ failed = "none" /\ finished' = finished
    BY <1>3 DEF FinishPassing
  <2>2. file \in Files /\ Sized(movie) /\ Passing
    BY <2>1 DEF Inv
  <2>3. Passing' /\ movie' = movie /\ file' = file
    BY <1>3, <2>2, FinishPassingKeeps
  <2> QED BY <2>1, <2>3, PassingKeeps
<1>4. CASE UNCHANGED vars
  <2>1. /\ file' = file /\ boxes' = boxes /\ gathering' = gathering /\ position' = position
        /\ movie' = movie /\ finished' = finished /\ pieces' = pieces /\ passed' = passed
        /\ laid' = laid /\ failed' = failed
    BY <1>4 DEF vars, reading, layout
  <2>2. file \in Files /\ finished \in BOOLEAN
    BY DEF Inv
  <2>3. CASE ~finished
    <3>1. laid = <<>> /\ (failed = "none" => Reading)
      BY <2>3 DEF Inv
    <3>2. Reading => Reading'
      <4> SUFFICES ASSUME Reading PROVE Reading'
        OBVIOUS
      <4>1. /\ boxes \in 0..Len(Boxes) /\ gathering \in BOOLEAN /\ position \in Nat
            /\ Ready(boxes, position, gathering)
            /\ boxes # 0 /\ ~gathering => ~RunsToFileEnd(boxes) /\ position = BoxEnd(boxes)
            /\ movie = IF MovieRead(boxes, gathering) THEN AsRead ELSE <<>>
            /\ laid = <<>> /\ pieces = <<>>
        BY DEF Reading
      <4> QED BY <2>1, <4>1, SameReading
    <3> QED BY <2>1, <2>2, <2>3, <3>1, <3>2 DEF Inv
  <2>4. CASE finished
    <3>1. /\ Sized(movie) /\ (Passing \/ (failed # "none" /\ laid = <<>>))
          /\ LaidOutSo(failed, movie)
      BY <2>4 DEF Inv
    <3>2. Passing => Passing'
      <4> SUFFICES ASSUME Passing PROVE Passing'
        OBVIOUS
      <4>1. PICK L : L = MoovLength(movie)
        OBVIOUS
      <4>2. Lies(pieces', passed', laid', L) /\ MoovLength(movie') = L
        BY <2>1, <4>1 DEF Passing
      <4> QED BY <2>1, <4>2, SameLies
    <3>3. Sized(movie)'
      BY <2>1, <3>1 DEF Sized
    <3>4. LaidOutSo(failed, movie)'
      <4>1. LaidOutSo(failed', movie')
        BY <2>1, <3>1
      <4> QED BY <2>1, <4>1, SameOut
    <3> QED BY <2>1, <2>2, <2>4, <3>1, <3>2, <3>3, <3>4 DEF Inv
  <2> QED BY <2>2, <2>3, <2>4
<1> QED BY <1>1, <1>2, <1>3, <1>4 DEF Next, Finish

LEMMA InvKeeps ==
  Inv => KeepsEveryByte
<1> SUFFICES ASSUME Inv PROVE KeepsEveryByte
  OBVIOUS
<1>1. file \in Files /\ finished \in BOOLEAN
  BY DEF Inv
<1>2. CASE Passing /\ finished
  <2>0. PICK L \in Nat : Lies(pieces, passed, laid, L)
    BY <1>2 DEF Passing, Lies
  <2>1. /\ laid \in Seq(Int) /\ pieces \in Seq(Places)
        /\ pieces # <<>> => Head(pieces) # 0 /\ passed \in Nat /\ BoxStart(Head(pieces)) + passed <= EndThere(Head(pieces))
        /\ laid \o Coming(pieces, passed, L) = Expected(L)
    BY <2>0 DEF Lies
  <2>2. PICK rest \in Seq(Int) : rest = Coming(pieces, passed, L)
    BY <1>1, <2>1, ComingType
  <2>3. Done => rest = <<>>
    BY <2>2 DEF Done, Coming
  <2> QED BY <1>1, <2>1, <2>2, <2>3, KeepsFrom
<1>3. CASE laid = <<>> /\ ~Done
  <2>1. laid \in Seq(Int)
    BY <1>3
  <2>2. PICK L \in Nat : L = 0
    OBVIOUS
  <2>3. PICK rest \in Seq(Int) : rest = Expected(L)
    BY <1>1, ExpectedType
  <2>4. laid \o rest = Expected(L)
    <3>1. <<>> \o rest = rest
      OBVIOUS
    <3> QED BY <1>3, <2>3, <3>1
  <2> QED BY <1>1, <1>3, <2>1, <2>4, KeepsFrom
<1>4. (Passing /\ finished) \/ (laid = <<>> /\ ~Done)
  BY <1>1 DEF Inv, Done
<1> QED BY <1>2, <1>3, <1>4

(* As long as the file is read, nothing is laid out and the boxes that     *)
(* were met are accepted; from then on all that is to pass through has     *)
(* passed or is still to come, unless the reading failed, and the tables   *)
(* are as they were read, or as their offsets move where the file is laid  *)
(* out again, each widened that an offset outgrows.                        *)
THEOREM InvariantHolds == Spec => []Inv
BY InvInit, InvNext, PTL DEF Spec

(* Every byte of the file comes out once, and those of each box together   *)
(* and in their order: of the ftyp, the moov unless it is laid out again,  *)
(* and the others, however the input is cut.                               *)
THEOREM EveryByteKept == Spec => []KeepsEveryByte
<1>1. Spec => []Inv
  BY InvariantHolds
<1> QED BY <1>1, InvKeeps, PTL

(* WHERE THE OFFSETS LEAD                                                  *)

(* What is picked of the boxes stays in their order.                       *)
LEMMA ThoseNumbersIncrease ==
  ASSUME NEW N \in Nat, NEW T, NEW k \in Nat, k + 1 \in 1..Len(Those(Numbers(N), T)), k # 0
  PROVE  Those(Numbers(N), T)[k] < Those(Numbers(N), T)[k + 1]
<1>1. PICK s : s = Numbers(N)
  OBVIOUS
<1>2. Sequence(s) /\ Len(s) = N /\ DOMAIN s = 1..N /\ \A i \in 1..N : s[i] = i
  BY <1>1, NumbersAre
<1>3. PICK A : A = {i \in DOMAIN s : s[i] \in T}
  OBVIOUS
<1>4. A \subseteq 1..N /\ A \subseteq DOMAIN s
  BY <1>2, <1>3
<1>5. Those(s, T) = Picked(s, A)
  BY <1>3 DEF Those
<1>6. /\ Len(Picked(s, A)) = Cardinality(A)
      /\ Cardinality(A) \in Nat
      /\ \A j \in 1..Cardinality(A) : Nth(A, j) \in A /\ Picked(s, A)[j] = s[Nth(A, j)]
  BY <1>2, <1>4, PickedIs
<1>7. PICK c \in Nat : c = Cardinality(A)
  BY <1>6
<1>8. k \in 1..c /\ k + 1 \in 1..c /\ k < k + 1
  BY <1>1, <1>5, <1>6, <1>7
<1>9. PICK l \in 1..c : l = k + 1
  BY <1>8
<1>10. Nth(A, k) < Nth(A, l)
  <2>1. k \in 1..Cardinality(A) /\ l \in 1..Cardinality(A) /\ k < l
    BY <1>7, <1>8, <1>9
  <2> QED BY <1>4, <2>1, NthIncreases
<1>11. Nth(A, k) \in 1..N /\ Nth(A, l) \in 1..N
  BY <1>4, <1>6, <1>7, <1>8
<1> QED BY <1>1, <1>2, <1>5, <1>6, <1>7, <1>8, <1>9, <1>10, <1>11

(* In the new order the ftyp come first, then the moov, then the others,   *)
(* each in the order of the file; the last box of the file is the last one,*)
(* if it is behind the moov.                                               *)
OrderedAround(order, m) ==
  /\ m \in 1..Len(order)
  /\ \A k \in 1..Len(order) : order[k] \in 1..Len(Boxes)
  /\ \A k \in 1..Len(order) : k < m => Boxes[order[k]].type = "ftyp"
  /\ Boxes[order[m]].type = "moov"
  /\ \A k \in 1..Len(order) : m < k => Boxes[order[k]].type \notin {"ftyp", "moov"}
  /\ \A k \in 1..Len(order) : m < k /\ k < Len(order) => order[k] < Len(Boxes)
  /\ \A k \in 1..Len(order) : k < Len(order) /\ k # m /\ k + 1 # m => order[k] < order[k + 1]

LEMMA NewOrderAround ==
  ASSUME file \in Files, HasMovie
  PROVE  \E m \in Nat : OrderedAround(NewOrder, m)
<1>1. PICK x \in 1..Len(Boxes) : x = MovieBox(Len(Boxes)) /\ Boxes[x].type = "moov"
  BY MovieBoxIs
<1>2. PICK a : a = Ahead
  OBVIOUS
<1>3. PICK b : b = Behind
  OBVIOUS
<1>4. PICK o : o = << x >>
  OBVIOUS
<1>5. Sequence(o) /\ Len(o) = 1 /\ o[1] = x
  BY <1>4, OneElement
<1>6. /\ Sequence(a) /\ Sequence(b)
      /\ \A k \in 1..Len(a) : a[k] \in 1..Len(Boxes) /\ Boxes[a[k]].type = "ftyp"
      /\ \A k \in 1..Len(b) : b[k] \in 1..Len(Boxes) /\ Boxes[b[k]].type \notin {"ftyp", "moov"}
  BY <1>2, <1>3, AheadIs, BehindIs
<1>7. PICK c : c = a \o o
  OBVIOUS
<1>8. /\ Sequence(c) /\ Len(c) = Len(a) + Len(o) /\ Len(a) \in Nat /\ Len(o) \in Nat
      /\ \A k \in 1..Len(a) : c[k] = a[k]
      /\ \A k \in 1..Len(o) : c[Len(a) + k] = o[k]
  <2>1. Sequence(a) /\ Sequence(o)
    BY <1>5, <1>6
  <2>2. /\ Sequence(a \o o) /\ Len(a \o o) = Len(a) + Len(o) /\ Len(a) \in Nat /\ Len(o) \in Nat
        /\ \A k \in 1..Len(a) : (a \o o)[k] = a[k]
        /\ \A k \in 1..Len(o) : (a \o o)[Len(a) + k] = o[k]
    BY ONLY <2>1, ConcatAny
  <2> QED BY <1>7, <2>2, Zenon
<1>9. PICK order : order = NewOrder
  OBVIOUS
<1>10. order = c \o b
  BY <1>1, <1>2, <1>3, <1>4, <1>7, <1>9 DEF NewOrder
<1>11. /\ Len(order) = Len(c) + Len(b) /\ Len(b) \in Nat /\ Len(c) \in Nat
       /\ \A k \in 1..Len(c) : order[k] = c[k]
       /\ \A k \in 1..Len(b) : order[Len(c) + k] = b[k]
  <2>1. Sequence(c) /\ Sequence(b)
    BY <1>6, <1>8
  <2>2. /\ Len(c \o b) = Len(c) + Len(b) /\ Len(b) \in Nat /\ Len(c) \in Nat
        /\ \A k \in 1..Len(c) : (c \o b)[k] = c[k]
        /\ \A k \in 1..Len(b) : (c \o b)[Len(c) + k] = b[k]
    BY ONLY <2>1, ConcatAny
  <2> QED BY <1>10, <2>2, Zenon
<1>12. PICK m \in Nat : m = Len(a) + 1
  BY <1>8
<1>13. Len(c) = m /\ order[m] = x /\ m \in 1..Len(order)
  <2>1. Len(c) = m
    BY <1>5, <1>8, <1>12
  <2>2. c[m] = x
    <3>1. 1 \in 1..Len(o)
      BY <1>5
    <3> QED BY <1>5, <1>8, <1>12, <3>1
  <2>3. m \in 1..Len(c)
    BY <1>12, <2>1, <1>8
  <2> QED BY <1>11, <2>1, <2>2, <2>3
<1>14. ASSUME NEW k \in 1..Len(order), k < m PROVE order[k] = a[k] /\ k \in 1..Len(a)
  <2>1. k \in 1..Len(a) /\ k \in 1..Len(c)
    BY <1>8, <1>12, <1>13, <1>14
  <2> QED BY <1>8, <1>11, <2>1
<1>15. ASSUME NEW k \in 1..Len(order), m < k PROVE order[k] = b[k - m] /\ k - m \in 1..Len(b)
  <2>1. k - m \in 1..Len(b)
    BY <1>11, <1>13, <1>15
  <2>2. PICK j \in 1..Len(b) : j = k - m
    BY <2>1
  <2>3. Len(c) + j = k
    BY <1>13, <2>2
  <2>4. order[k] = b[j]
    BY <1>11, <2>2, <2>3
  <2> QED BY <2>1, <2>2, <2>4
<1>16. ASSUME NEW k \in 1..Len(order), m < k, k < Len(order) PROVE order[k] < Len(Boxes)
  <2>1. PICK j \in Nat : j = k - m
    BY <1>16
  <2>2. j # 0 /\ j + 1 \in 1..Len(b) /\ j \in 1..Len(b)
    BY <1>11, <1>13, <1>16, <2>1
  <2>3. PICK n \in Nat : n = Len(Boxes)
    BY BoxesLie
  <2>4. PICK T : T = OfNoType({"ftyp", "moov"})
    OBVIOUS
  <2>5. b = Those(Numbers(n), T)
    BY <1>3, <2>3, <2>4 DEF Behind
  <2>6. b[j] < b[j + 1]
    BY <2>2, <2>5, ThoseNumbersIncrease
  <2>7. b[j] \in 1..n /\ b[j + 1] \in 1..n
    BY <1>6, <2>2, <2>3
  <2>8. b[j] < n
    BY <2>6, <2>7
  <2> QED BY <1>15, <1>16, <2>1, <2>3, <2>8
<1>a. ASSUME NEW k \in 1..Len(order), k < Len(order), k # m, k + 1 # m PROVE order[k] < order[k + 1]
  <2>1. PICK l \in 1..Len(order) : l = k + 1
    BY <1>11, <1>a
  <2>2. PICK n \in Nat : n = Len(Boxes)
    BY BoxesLie
  <2>3. CASE l < m
    <3>1. order[k] = a[k] /\ order[l] = a[l] /\ l \in 1..Len(a)
      BY <1>14, <2>1, <2>3
    <3>2. PICK T : T = OfType({"ftyp"})
      OBVIOUS
    <3>3. a = Those(Numbers(n), T)
      BY <1>2, <2>2, <3>2 DEF Ahead
    <3>4. PICK j \in Nat : j = k
      OBVIOUS
    <3>5. j # 0 /\ j + 1 \in 1..Len(a)
      BY <2>1, <3>1, <3>4
    <3>6. a[j] < a[j + 1]
      BY ONLY n \in Nat, j \in Nat, <3>3, <3>5, ThoseNumbersIncrease
    <3> QED BY <2>1, <3>1, <3>4, <3>6
  <2>4. CASE m < l
    <3>1. PICK j \in Nat : j = k - m
      BY <1>a, <2>1, <2>4
    <3>2. j # 0 /\ j + 1 = l - m /\ m < k
      BY <1>a, <2>1, <2>4, <3>1
    <3>3. order[k] = b[j] /\ order[l] = b[j + 1] /\ j + 1 \in 1..Len(b)
      BY <1>15, <2>1, <2>4, <3>1, <3>2
    <3>4. PICK T : T = OfNoType({"ftyp", "moov"})
      OBVIOUS
    <3>5. b = Those(Numbers(n), T)
      BY <1>3, <2>2, <3>4 DEF Behind
    <3>6. b[j] < b[j + 1]
      BY ONLY n \in Nat, j \in Nat, <3>2, <3>3, <3>5, ThoseNumbersIncrease
    <3> QED BY <2>1, <3>3, <3>6
  <2> QED BY <1>12, <1>a, <2>1, <2>3, <2>4
<1>17. OrderedAround(order, m)
  <2>1. \A k \in 1..Len(order) : k < m => Boxes[order[k]].type = "ftyp" /\ order[k] \in 1..Len(Boxes)
    BY <1>6, <1>14
  <2>2. \A k \in 1..Len(order) :
           m < k => Boxes[order[k]].type \notin {"ftyp", "moov"} /\ order[k] \in 1..Len(Boxes)
    BY <1>6, <1>15
  <2>3. \A k \in 1..Len(order) : k < m \/ k = m \/ m < k
    BY <1>12
  <2>4. \A k \in 1..Len(order) : order[k] \in 1..Len(Boxes)
    BY <1>1, <1>13, <2>1, <2>2, <2>3
  <2> QED BY <1>1, <1>13, <1>16, <1>a, <2>1, <2>2, <2>4 DEF OrderedAround
<1> QED BY <1>9, <1>17

(* The pieces are the boxes in the new order, 0 for the moov.              *)
LEMMA PlanOfOrder ==
  ASSUME file \in Files, Rearranged
  PROVE  /\ Len(Plan) = Len(NewOrder)
         /\ \A k \in 1..Len(NewOrder) :
              Plan[k] = IF Boxes[NewOrder[k]].type = "moov" THEN 0 ELSE NewOrder[k]
<1>1. HasMovie
  BY DEF Rearranged
<1>2. PICK order \in Seq(1..Len(Boxes)) : order = NewOrder /\ order = Order(Len(Boxes))
  BY <1>1, NewOrderIs
<1>3. [k \in DOMAIN order |-> IF Boxes[order[k]].type = "moov" THEN 0 ELSE order[k]]
         = Ahead \o <<0>> \o Behind
  BY <1>1, <1>2, PiecesAre
<1>4. PICK p : p = Plan
  OBVIOUS
<1>5. p = [k \in 1..Len(order) |-> IF Boxes[order[k]].type = "moov" THEN 0 ELSE order[k]]
  <2>1. DOMAIN order = 1..Len(order)
    OBVIOUS
  <2> QED BY <1>3, <1>4, <2>1 DEF Plan
<1>6. Len(p) = Len(order)
  BY <1>5
<1> QED BY <1>2, <1>4, <1>5, <1>6

(* HOW LONG THE FILE IS LAID OUT AGAIN                                     *)

PartOf(T) == [i \in 1..Len(Boxes) |-> IF i \in T THEN There(i) ELSE <<>>]

LEMMA PartIs ==
  ASSUME file \in Files, NEW T
  PROVE  /\ PartOf(T) \in Seq(Seq(Int)) /\ Len(PartOf(T)) = Len(Boxes)
         /\ \A i \in 1..Len(Boxes) : Len(PartOf(T)[i]) = IF i \in T THEN EndThere(i) - BoxStart(i) ELSE 0
<1>1. PICK n \in Nat : n = Len(Boxes)
  BY BoxesLie
<1>2. \A i \in 1..n : There(i) \in Seq(Int) /\ Len(There(i)) = EndThere(i) - BoxStart(i)
  BY <1>1, ThereIs
<1>3. <<>> \in Seq(Int) /\ Len(<<>>) = 0
  OBVIOUS
<1>4. PICK p : p = PartOf(T)
  OBVIOUS
<1>5. p = [i \in 1..n |-> IF i \in T THEN There(i) ELSE <<>>]
  BY <1>1, <1>4 DEF PartOf
<1>6. p \in Seq(Seq(Int)) /\ Len(p) = n
  BY <1>2, <1>3, <1>5
<1>7. \A i \in 1..n : p[i] = IF i \in T THEN There(i) ELSE <<>>
  BY <1>5
<1>8. \A i \in 1..n : Len(p[i]) = IF i \in T THEN EndThere(i) - BoxStart(i) ELSE 0
  BY <1>2, <1>3, <1>7
<1> QED BY <1>1, <1>4, <1>6, <1>8

(* What two parts of the file that share no box come to.                   *)
LEMMA PartsShort ==
  ASSUME file \in Files, NEW T, NEW U, \A i : ~(i \in T /\ i \in U)
  PROVE  /\ Len(FlattenSeq(PartOf(T))) \in Nat /\ Len(FlattenSeq(PartOf(U))) \in Nat
         /\ Len(FlattenSeq(PartOf(T))) + Len(FlattenSeq(PartOf(U))) <= file.length
<1>1. PICK N \in Nat : N = Len(Boxes)
  BY BoxesLie
<1>2. PICK s \in Seq(Seq(Int)) : s = PartOf(T)
  BY PartIs
<1>3. PICK t \in Seq(Seq(Int)) : t = PartOf(U)
  BY PartIs
<1>4. Len(s) = N /\ Len(t) = N
  BY <1>1, <1>2, <1>3, PartIs
<1>5. \A i \in 1..N : /\ Len(s[i]) = IF i \in T THEN EndThere(i) - BoxStart(i) ELSE 0
                      /\ Len(t[i]) = IF i \in U THEN EndThere(i) - BoxStart(i) ELSE 0
  BY <1>1, <1>2, <1>3, PartIs
<1>6. PICK f : /\ Sums(f, Len(s), Lengths(s)) /\ f[0] = 0
               /\ \A n \in 0..Len(s) : f[n] \in Nat
               /\ \A n \in 1..Len(s) : f[n] = f[n - 1] + Len(s[n])
  BY LengthsSum
<1>7. PICK h : /\ Sums(h, Len(t), Lengths(t)) /\ h[0] = 0
               /\ \A n \in 0..Len(t) : h[n] \in Nat
               /\ \A n \in 1..Len(t) : h[n] = h[n - 1] + Len(t[n])
  BY LengthsSum
<1>8. Len(FlattenSeq(s)) = f[N] /\ Len(FlattenSeq(t)) = h[N]
  <2>1. Holding(FlattenSeq(s), s, f, Len(s))
    BY <1>6, FlattenAt
  <2>2. Holding(FlattenSeq(t), t, h, Len(t))
    BY <1>7, FlattenAt
  <2> QED BY <1>4, <2>1, <2>2 DEF Holding
<1> DEFINE D == {n \in Nat : n <= N => f[n] + h[n] <= IF n = 0 THEN 0 ELSE EndThere(n)}
<1>9. 0 \in D
  BY <1>6, <1>7
<1>10. ASSUME NEW n \in Nat, n \in D PROVE n + 1 \in D
  <2> SUFFICES ASSUME n + 1 <= N PROVE f[n + 1] + h[n + 1] <= EndThere(n + 1)
    OBVIOUS
  <2>1. PICK i \in 1..N : i = n + 1
    OBVIOUS
  <2>2. PICK start \in Nat : start = BoxStart(i)
    BY <1>1, ThereIs
  <2>3. PICK stop \in Nat : stop = EndThere(i)
    BY <1>1, ThereIs
  <2>4. start < stop
    BY <1>1, <2>2, <2>3, ThereIs
  <2>a. n \in 0..Len(s) /\ n \in 0..Len(t)
    BY <1>4
  <2>5. PICK x \in Nat : x = f[n]
    BY <1>6, <2>a
  <2>6. PICK y \in Nat : y = h[n]
    BY <1>7, <2>a
  <2>7. x + y <= start
    <3>1. x + y <= IF n = 0 THEN 0 ELSE EndThere(n)
      BY <1>10, <2>5, <2>6
    <3>2. CASE n = 0
      BY <2>5, <2>6, <3>1, <3>2
    <3>3. CASE n # 0
      <4>1. n \in 1..Len(Boxes)
        BY <1>1, <3>3
      <4>2. EndThere(n) \in Nat /\ EndThere(n) <= BoxEnd(n)
        BY <4>1, ThereIs
      <4>3. BoxEnd(n) = BoxStart(n + 1) /\ BoxEnd(n) \in Nat
        BY <4>1, BoxesLie
      <4>4. BoxEnd(n) = start
        BY <2>1, <2>2, <4>3
      <4> QED BY <3>1, <3>3, <4>2, <4>4
    <3> QED BY <3>2, <3>3
  <2>8. i - 1 = n /\ i \in 1..Len(s) /\ i \in 1..Len(t)
    BY <1>4, <2>1
  <2>9. f[i] = x + Len(s[i]) /\ h[i] = y + Len(t[i])
    BY <1>6, <1>7, <2>5, <2>6, <2>8
  <2>10. /\ Len(s[i]) = IF i \in T THEN stop - start ELSE 0
         /\ Len(t[i]) = IF i \in U THEN stop - start ELSE 0
    BY <1>5, <2>2, <2>3
  <2>11. f[i] + h[i] <= stop
    BY <2>4, <2>7, <2>9, <2>10
  <2> QED BY <2>1, <2>3, <2>11
<1>11. \A n \in Nat : n \in D
  <2> HIDE DEF D
  <2> QED BY <1>9, <1>10, SetInduction
<1>12. f[N] + h[N] <= IF N = 0 THEN 0 ELSE EndThere(N)
  BY <1>11
<1>13. f[N] \in Nat /\ h[N] \in Nat
  BY <1>4, <1>6, <1>7
<1>14. f[N] + h[N] <= file.length
  <2>1. file.length \in Nat
    BY BoxesLie
  <2>2. N # 0 => EndThere(N) \in Nat /\ EndThere(N) <= file.length
    BY <1>1, ThereIs
  <2> QED BY <1>12, <1>13, <2>1, <2>2
<1> QED BY <1>2, <1>3, <1>8, <1>13, <1>14

(* The file laid out again is at most the file and the moov.               *)
LEMMA ExpectedShort ==
  ASSUME file \in Files, NEW L \in Nat, Rearranged
  PROVE  Len(Expected(L)) \in Nat /\ Len(Expected(L)) <= file.length + L
<1>1. PICK a \in Seq(Int), b \in Seq(Int) :
        /\ a = FlattenSeq(Chosen(Held(L), Ahead))
        /\ b = FlattenSeq(Chosen(Held(L), Behind))
        /\ Minus(L) \in Seq(Int)
        /\ Expected(L) = (a \o Minus(L)) \o b
  BY ExpectedParts
<1>2. PICK T : T = OfType({"ftyp"})
  OBVIOUS
<1>3. PICK U : U = OfNoType({"ftyp", "moov"})
  OBVIOUS
<1>4. \A i : ~(i \in T /\ i \in U)
  BY <1>2, <1>3 DEF OfType, OfNoType
<1>5. a = FlattenSeq(PartOf(T))
  <2>1. a = FlattenSeq(Chosen(Held(L), Those(Numbers(Len(Boxes)), T)))
    BY <1>1, <1>2 DEF Ahead
  <2> QED BY <2>1, HeldOfSome DEF PartOf
<1>6. b = FlattenSeq(PartOf(U))
  <2>1. b = FlattenSeq(Chosen(Held(L), Those(Numbers(Len(Boxes)), U)))
    BY <1>1, <1>3 DEF Behind
  <2> QED BY <2>1, HeldOfSome DEF PartOf
<1>7. Len(a) + Len(b) <= file.length /\ file.length \in Nat
  BY <1>4, <1>5, <1>6, PartsShort, BoxesLie
<1>8. PICK c \in Seq(Int) : c = Minus(L)
  BY <1>1
<1>9. Len(c) = L
  BY <1>8 DEF Minus
<1>10. Len((a \o c) \o b) = Len(a) + Len(c) + Len(b) /\ Len(a) \in Nat /\ Len(b) \in Nat
  OBVIOUS
<1> QED BY <1>1, <1>7, <1>8, <1>9, <1>10

(* The moov laid out again is as long as the layout reckoned.              *)
LEMMA SameLength ==
  ASSUME file \in Files, NEW wide, NEW tables, FollowsMoves(wide, tables)
  PROVE  MoovLength(tables) = MovieLength(AsRead, wide)
<1>1. PICK read : read = AsRead
  OBVIOUS
<1>2. PICK N \in Nat : N = Len(read)
  BY <1>1, AsReadIs DEF Sized
<1>3. PICK W : W = WideAsRead(tables)
  OBVIOUS
<1>4. Len(tables) = N /\ DOMAIN tables = 1..N
  BY <1>1, <1>2 DEF FollowsMoves
<1>5. \A k \in 1..N : k \in W <=> k \in wide
  BY <1>1, <1>2, <1>3, <1>4 DEF FollowsMoves, WideAsRead
<1>6. \A k \in 1..N : Len(tables[k].offsets) = Len(read[k].offsets)
  BY <1>1, <1>2 DEF FollowsMoves
<1> DEFINE OfNew(f) == [k \in 0..N |-> IF k = 0 THEN 0 ELSE f[k - 1] + (IF k \in W THEN 2 ELSE 1) * Len(tables[k].offsets)]
           OfRead(f) == [k \in 0..N |-> IF k = 0 THEN 0 ELSE f[k - 1] + (IF k \in wide THEN 2 ELSE 1) * Len(read[k].offsets)]
<1>7. ASSUME NEW f PROVE OfNew(f) = OfRead(f)
  <2>1. \A k \in 0..N : k # 0 => k \in 1..N
    BY <1>2
  <2>2. \A k \in 0..N : k # 0 => /\ (IF k \in W THEN 2 ELSE 1) = (IF k \in wide THEN 2 ELSE 1)
                                 /\ Len(tables[k].offsets) = Len(read[k].offsets)
    BY <1>5, <1>6, <2>1
  <2> QED BY <2>2, Zenon
<1>8. MovieLength(tables, W) = MovieLength(read, wide)
  <2>1. Len(tables) = N /\ Len(read) = N
    BY <1>2, <1>4
  <2>2. MovieLength(tables, W) = 2 + (CHOOSE f : f = OfNew(f))[N]
    BY <2>1, Zenon DEF MovieLength
  <2>3. MovieLength(read, wide) = 2 + (CHOOSE f : f = OfRead(f))[N]
    BY <2>1, Zenon DEF MovieLength
  <2>4. (CHOOSE f : f = OfNew(f)) = (CHOOSE f : f = OfRead(f))
    <3> HIDE DEF OfNew, OfRead
    <3> QED BY <1>7
  <2> QED BY <2>2, <2>3, <2>4
<1> QED BY <1>1, <1>3, <1>8 DEF MoovLength

(* WHERE EACH BOX IS IN THE FILE LAID OUT AGAIN                            *)

PartsAt(f, whole, order, L) ==
  /\ f[0] = 0
  /\ \A n \in 0..Len(order) : f[n] \in Nat
  /\ \A j \in 0..Len(order), n \in 0..Len(order) : j <= n => f[j] <= f[n]
  /\ Len(whole) = f[Len(order)]
  /\ \A k \in 1..Len(order) :
       IF Boxes[order[k]].type = "moov" THEN f[k] = f[k - 1] + L
       ELSE /\ f[k] = f[k - 1] + (BoxEnd(order[k]) - BoxStart(order[k]))
            /\ \A j \in 1..(BoxEnd(order[k]) - BoxStart(order[k])) :
                 whole[f[k - 1] + j] = BoxStart(order[k]) + j - 1

LEMMA NotShort ==
  ASSUME file \in Files, NEW i \in 1..Len(Boxes), ~Short(i)
  PROVE  /\ EndThere(i) = BoxEnd(i)
         /\ There(i) \in Seq(Int) /\ Len(There(i)) = BoxEnd(i) - BoxStart(i)
         /\ \A j \in 1..(BoxEnd(i) - BoxStart(i)) : There(i)[j] = BoxStart(i) + j - 1
<1>1. PICK start \in Nat : start = BoxStart(i)
  BY BoxesLie
<1>2. PICK stop \in Nat : stop = BoxEnd(i)
  BY BoxesLie
<1>3. PICK length \in Nat : length = file.length
  BY BoxesLie
<1>4. stop <= length /\ start < stop
  BY <1>1, <1>2, <1>3, BoxesLie DEF Short
<1>5. EndThere(i) = stop
  <2>1. stop \in Int /\ length \in Int
    OBVIOUS
  <2>2. Min({stop, length}) = stop
    BY <1>4, <2>1, OfTwo
  <2> QED BY <1>2, <1>3, <2>2 DEF EndThere
<1>6. There(i) = Bytes(start, stop)
  BY <1>1, <1>5 DEF There
<1>7. /\ Bytes(start, stop) \in Seq(Int) /\ Len(Bytes(start, stop)) = stop - start
      /\ \A j \in 1..(stop - start) : Bytes(start, stop)[j] = start + j - 1
  <2>0. start <= stop
    BY <1>4
  <2>1. Bytes(start, stop) \in Seq(Int) /\ Len(Bytes(start, stop)) = stop - start
    BY <2>0, BytesAre
  <2>2. \A j \in 1..(stop - start) : Bytes(start, stop)[j] = start + j - 1
    BY <2>0, BytesAre
  <2> QED BY <2>1, <2>2
<1> QED BY <1>1, <1>2, <1>5, <1>6, <1>7

LEMMA LaidParts ==
  ASSUME file \in Files, Rearranged, NEW L \in Nat,
         \A i \in 1..Len(Boxes) : ~Short(i),
         NEW whole, whole = Expected(L), NEW order, order = NewOrder
  PROVE  \E f : PartsAt(f, whole, order, L)
<1>1. HasMovie
  BY DEF Rearranged
<1>2. /\ order \in Seq(1..Len(Boxes)) /\ Len(order) \in Nat
      /\ \A k \in 1..Len(order) : order[k] \in 1..Len(Boxes)
  <2>1. order \in Seq(1..Len(Boxes))
    BY <1>1, NewOrderIs
  <2> QED BY <2>1
<1>3. PICK N \in Nat : N = Len(order)
  BY <1>2
<1>4. PICK p \in Seq(Places) : p = Plan
  BY PlanIs
<1>5. Len(p) = N /\ \A k \in 1..N : p[k] = IF Boxes[order[k]].type = "moov" THEN 0 ELSE order[k]
  BY <1>3, <1>4, PlanOfOrder
<1>6. PICK held \in [Places -> Seq(Int)] : held = Held(L)
  BY HeldType
<1>7. held[0] = Minus(L) /\ \A i \in 1..Len(Boxes) : held[i] = There(i)
  <2>1. \A i \in Places : i # 0 => held[i] = There(i)
    BY <1>6, HeldType
  <2>2. \A i \in 1..Len(Boxes) : i \in Places /\ i # 0
    BY BoxesLie DEF Places
  <2> QED BY <1>6, <2>1, <2>2, HeldType
<1>8. PICK seqs \in Seq(Seq(Int)) : seqs = Chosen(held, p)
  BY <1>6, HeldType, ChosenIs
<1>9. Len(seqs) = N /\ \A k \in 1..N : seqs[k] = held[p[k]]
  <2>1. DOMAIN p = 1..N
    BY <1>5
  <2>2. seqs = [k \in 1..N |-> held[p[k]]]
    BY <1>8, <2>1 DEF Chosen
  <2> QED BY <1>3, <2>2
<1>10. whole = FlattenSeq(seqs)
  BY <1>4, <1>6, <1>8 DEF Expected
<1>11. PICK f : /\ Sums(f, Len(seqs), Lengths(seqs))
                /\ f[0] = 0
                /\ \A n \in 0..Len(seqs) : f[n] \in Nat
                /\ \A n \in 1..Len(seqs) : f[n] = f[n - 1] + Len(seqs[n])
                /\ \A m \in 0..Len(seqs), n \in 0..Len(seqs) : m <= n => f[m] <= f[n]
  BY <1>9, LengthsSum
<1>12. /\ Len(whole) = f[N]
       /\ \A k \in 1..N : \A j \in 1..Len(seqs[k]) : whole[f[k - 1] + j] = seqs[k][j]
  <2>1. Holding(FlattenSeq(seqs), seqs, f, Len(seqs))
    BY <1>9, <1>11, FlattenAt
  <2> QED BY <1>9, <1>10, <2>1 DEF Holding
<1>13. ASSUME NEW k \in 1..N
       PROVE  IF Boxes[order[k]].type = "moov" THEN f[k] = f[k - 1] + L
              ELSE /\ f[k] = f[k - 1] + (BoxEnd(order[k]) - BoxStart(order[k]))
                   /\ \A j \in 1..(BoxEnd(order[k]) - BoxStart(order[k])) :
                        whole[f[k - 1] + j] = BoxStart(order[k]) + j - 1
  <2>1. PICK i \in 1..Len(Boxes) : i = order[k]
    BY <1>2, <1>3
  <2>2. f[k] = f[k - 1] + Len(seqs[k])
    BY <1>9, <1>11
  <2>3. CASE Boxes[i].type = "moov"
    <3>1. seqs[k] = Minus(L)
      BY <1>5, <1>7, <1>9, <2>1, <2>3
    <3>2. Len(Minus(L)) = L
      BY DEF Minus
    <3> QED BY <2>1, <2>2, <2>3, <3>1, <3>2
  <2>4. CASE Boxes[i].type # "moov"
    <3>1. seqs[k] = There(i)
      BY <1>5, <1>7, <1>9, <2>1, <2>4
    <3>2. Len(There(i)) = BoxEnd(i) - BoxStart(i)
      BY NotShort
    <3>3. \A j \in 1..(BoxEnd(i) - BoxStart(i)) : There(i)[j] = BoxStart(i) + j - 1
      BY NotShort
    <3>4. \A j \in 1..(BoxEnd(i) - BoxStart(i)) : whole[f[k - 1] + j] = BoxStart(i) + j - 1
      BY <1>12, <3>1, <3>2, <3>3
    <3> QED BY <2>1, <2>2, <2>4, <3>1, <3>2, <3>4
  <2> QED BY <2>3, <2>4
<1> QED BY <1>3, <1>9, <1>11, <1>12, <1>13 DEF PartsAt

(* Only the last box of the new order runs to the end of the file.         *)
FtypEnds == file.toEnd /\ Boxes[Len(Boxes)].type = "ftyp"

LEMMA NotToEnd ==
  ASSUME file \in Files, ~FtypEnds, NEW order, NEW m \in Nat, OrderedAround(order, m),
         NEW k \in 1..Len(order), k # m, k < m \/ k < Len(order)
  PROVE  ~RunsToFileEnd(order[k])
<1>1. PICK i \in 1..Len(Boxes) : i = order[k]
  BY DEF OrderedAround
<1>2. CASE k < m
  BY <1>1, <1>2 DEF OrderedAround, FtypEnds, RunsToFileEnd
<1>3. CASE m < k
  <2>1. i < Len(Boxes) /\ Len(Boxes) \in Nat
    BY <1>1, <1>3, BoxesLie DEF OrderedAround
  <2> QED BY <1>1, <2>1 DEF RunsToFileEnd
<1> QED BY <1>2, <1>3

LEMMA StartsTrue ==
  ASSUME file \in Files, ~FtypEnds, NEW order \in Seq(1..Len(Boxes)), NEW m \in Nat, OrderedAround(order, m),
         NEW L \in Nat, NEW whole, NEW f, PartsAt(f, whole, order, L), Len(whole) <= MaxPosition
  PROVE  \A k \in 1..Len(order) : NewStarts(order, L)[k] = f[k - 1]
<1>1. PICK N \in Nat : N = Len(order)
  OBVIOUS
<1>2. PICK g : /\ NewStarts(order, L) = [k \in DOMAIN order |-> g[k - 1]]
               /\ g[0] = 0
               /\ \A n \in 0..Len(order) : g[n] \in Nat
               /\ \A n \in 1..Len(order) : g[n] = Capped(g[n - 1] + NewLength(order[n], L))
  BY StartsAre
<1>3. /\ f[0] = 0 /\ f[N] <= MaxPosition
      /\ \A n \in 0..N : f[n] \in Nat
      /\ \A j \in 0..N, n \in 0..N : j <= n => f[j] <= f[n]
  BY <1>1 DEF PartsAt
<1> DEFINE D == {n \in Nat : n < N => g[n] = f[n]}
<1>4. 0 \in D
  BY <1>2, <1>3
<1>5. ASSUME NEW n \in Nat, n \in D PROVE n + 1 \in D
  <2> SUFFICES ASSUME n + 1 < N PROVE g[n + 1] = f[n + 1]
    OBVIOUS
  <2>1. PICK k \in 1..N : k = n + 1
    OBVIOUS
  <2>2. k - 1 = n /\ n < N /\ k < N /\ k \in 0..N /\ n \in 0..N /\ N \in 0..N
    BY <2>1
  <2>3. PICK i \in 1..Len(Boxes) : i = order[k]
    BY <1>1 DEF OrderedAround
  <2>4. PICK x \in Nat : x = f[n]
    BY <1>3, <2>2
  <2>5. PICK y \in Nat : y = f[k]
    BY <1>3, <2>2
  <2>6. y <= MaxPosition
    <3>1. f[k] <= f[N] /\ f[N] \in Nat
      BY <1>3, <2>2
    <3> QED BY <1>3, <2>5, <3>1, LimitsAssumption
  <2>7. g[k] = Capped(x + NewLength(i, L))
    <3>1. g[n] = f[n]
      BY <1>5, <2>2
    <3> QED BY <1>1, <1>2, <2>2, <2>3, <2>4, <3>1
  <2>8. y = x + NewLength(i, L)
    <3>1. CASE Boxes[i].type = "moov"
      <4>1. f[k] = f[k - 1] + L
        BY <1>1, <2>3, <3>1 DEF PartsAt
      <4>2. NewLength(i, L) = L
        BY <3>1, NewLengthIs
      <4> QED BY <2>2, <2>4, <2>5, <4>1, <4>2
    <3>2. CASE Boxes[i].type # "moov"
      <4>1. f[k] = f[k - 1] + (BoxEnd(i) - BoxStart(i))
        BY <1>1, <2>3, <3>2 DEF PartsAt
      <4>2. k # m
        BY <2>3, <3>2 DEF OrderedAround
      <4>3. ~RunsToFileEnd(i)
        BY <1>1, <2>2, <2>3, <4>2, NotToEnd
      <4>4. NewLength(i, L) = Boxes[i].bytes
        BY <3>2, <4>3, NewLengthIs
      <4>5. PICK b \in Nat : b = Boxes[i].bytes
        BY BoxesLie DEF FileBox
      <4>6. PICK s \in Nat : s = BoxStart(i)
        BY BoxesLie
      <4>7. BoxEnd(i) = s + b
        BY <4>5, <4>6 DEF BoxEnd
      <4> QED BY <2>2, <2>4, <2>5, <4>1, <4>4, <4>5, <4>6, <4>7
    <3> QED BY <3>1, <3>2
  <2>9. Capped(y) = y
    BY <2>6 DEF Capped
  <2> QED BY <2>1, <2>5, <2>7, <2>8, <2>9
<1>6. \A n \in Nat : n \in D
  <2> HIDE DEF D
  <2> QED BY <1>4, <1>5, SetInduction
<1>7. ASSUME NEW k \in 1..Len(order) PROVE NewStarts(order, L)[k] = f[k - 1]
  <2>1. k \in DOMAIN order /\ k - 1 \in Nat /\ k - 1 < N
    BY <1>1
  <2>2. g[k - 1] = f[k - 1]
    BY <1>6, <2>1
  <2> QED BY <1>2, <2>1, <2>2
<1> QED BY <1>7

(* Behind the moov there are only bytes of the file.                       *)
LEMMA BehindPassed ==
  ASSUME file \in Files, NEW order \in Seq(1..Len(Boxes)), NEW m \in Nat, OrderedAround(order, m),
         NEW L \in Nat, NEW whole, NEW f, PartsAt(f, whole, order, L),
         NEW q \in Nat, f[m] < q, q <= Len(whole)
  PROVE  whole[q] >= 0
<1>1. PICK N \in Nat : N = Len(order)
  OBVIOUS
<1>2. /\ \A n \in 0..N : f[n] \in Nat
      /\ \A j \in 0..N, n \in 0..N : j <= n => f[j] <= f[n]
      /\ Len(whole) = f[N]
  BY <1>1 DEF PartsAt
<1>3. PICK T : T = {n \in Nat : n <= N /\ q <= f[n]}
  OBVIOUS
<1>4. N \in T
  BY <1>2, <1>3
<1>5. PICK k \in T : \A n \in T : k <= n
  <2>1. T \subseteq Nat /\ T # {}
    BY <1>3, <1>4
  <2>2. \E k \in T : \A n \in T : k <= n
    BY <2>1, Least
  <2> QED BY <2>2
<1>6. k \in Nat /\ k <= N /\ q <= f[k]
  BY <1>3, <1>5
<1>7. m \in 0..N
  BY <1>1 DEF OrderedAround
<1>8. m < k
  <2>1. k <= m => f[k] <= f[m]
    BY <1>2, <1>6, <1>7
  <2>2. f[k] \in Nat /\ f[m] \in Nat
    BY <1>2, <1>6, <1>7
  <2> QED BY <1>6, <1>7, <2>1, <2>2
<1>9. k \in 1..N /\ k - 1 \in 0..N /\ k - 1 \in Nat
  BY <1>6, <1>8
<1>10. f[k - 1] < q
  <2>1. k - 1 \notin T
    BY <1>5, <1>6, <1>9
  <2>2. ~(q <= f[k - 1])
    BY <1>3, <1>9, <2>1
  <2>3. f[k - 1] \in Nat
    BY <1>2, <1>9
  <2> QED BY <2>2, <2>3
<1>11. PICK i \in 1..Len(Boxes) : i = order[k]
  BY <1>1, <1>9 DEF OrderedAround
<1>12. Boxes[i].type # "moov"
  BY <1>1, <1>8, <1>9, <1>11 DEF OrderedAround
<1>13. PICK x \in Nat : x = f[k - 1]
  BY <1>2, <1>9
<1>14. PICK s \in Nat : s = BoxStart(i)
  BY BoxesLie
<1>15. PICK e \in Nat : e = BoxEnd(i)
  BY BoxesLie
<1>16. s < e
  BY <1>14, <1>15, BoxesLie
<1>17. f[k] = x + (e - s)
  BY <1>1, <1>9, <1>11, <1>12, <1>13, <1>14, <1>15 DEF PartsAt
<1>18. \A j \in 1..(e - s) : whole[x + j] = s + j - 1
  BY <1>1, <1>9, <1>11, <1>12, <1>13, <1>14, <1>15 DEF PartsAt
<1>19. PICK j \in Nat : j = q - x
  BY <1>10, <1>13
<1>20. q <= x + (e - s) /\ x < q
  BY <1>6, <1>10, <1>13, <1>17
<1>21. j \in 1..(e - s) /\ x + j = q
  BY <1>16, <1>19, <1>20
<1>22. whole[x + j] = s + j - 1
  BY <1>18, <1>21
<1>23. s + j - 1 >= 0
  BY <1>21
<1> QED BY <1>21, <1>22, <1>23

(* WHERE AN OFFSET LEADS                                                   *)

OfFtyp(old) == \E i \in DOMAIN Boxes : Boxes[i].type = "ftyp" /\ old \in BoxStart(i)..BoxEnd(i) - 1

Leads(whole, old, new) ==
  /\ old < file.length => new + 1 \in 1..Len(whole)
  /\ new + 1 \in 1..Len(whole) => whole[new + 1] = old
  /\ new < Len(whole) => OfFtyp(old) \/ \A q \in (new + 1)..Len(whole) : whole[q] >= 0

LEMMA LeadsTo ==
  ASSUME file \in Files, ~FtypEnds, NEW order \in Seq(1..Len(Boxes)), NEW m \in Nat, OrderedAround(order, m),
         \A i \in 1..Len(Boxes) : ~Short(i),
         NEW L \in Nat, NEW whole, NEW f, PartsAt(f, whole, order, L),
         NEW old \in Nat, NEW k \in 1..Len(order),
         Boxes[order[k]].type # "moov", old >= BoxStart(order[k]),
         RunsToFileEnd(order[k]) \/ old < BoxEnd(order[k]),
         NEW new, new = f[k - 1] + (old - BoxStart(order[k]))
  PROVE  new \in Nat /\ Leads(whole, old, new)
<1>1. PICK N \in Nat : N = Len(order)
  OBVIOUS
<1>2. /\ \A n \in 0..N : f[n] \in Nat
      /\ \A j \in 0..N, n \in 0..N : j <= n => f[j] <= f[n]
      /\ Len(whole) = f[N]
  BY <1>1 DEF PartsAt
<1>3. PICK i \in 1..Len(Boxes) : i = order[k]
  BY DEF OrderedAround
<1>4. k \in 0..N /\ k - 1 \in 0..N /\ N \in 0..N /\ k <= N /\ k \in Nat
  BY <1>1
<1>5. PICK x \in Nat : x = f[k - 1]
  BY <1>2, <1>4
<1>6. PICK s \in Nat : s = BoxStart(i)
  BY BoxesLie
<1>7. PICK e \in Nat : e = BoxEnd(i)
  BY BoxesLie
<1>8. s < e
  BY <1>6, <1>7, BoxesLie
<1>9. PICK total \in Nat : total = f[N]
  BY <1>2, <1>4
<1>10. f[k] = x + (e - s) /\ f[k] <= total
  <2>1. f[k] = x + (e - s)
    BY <1>3, <1>5, <1>6, <1>7 DEF PartsAt
  <2>2. f[k] <= total
    BY <1>2, <1>4, <1>9
  <2> QED BY <2>1, <2>2
<1>11. \A j \in 1..(e - s) : whole[x + j] = s + j - 1
  BY <1>3, <1>5, <1>6, <1>7 DEF PartsAt
<1>12. new = x + (old - s) /\ old >= s /\ new \in Nat
  <2>1. new = x + (old - s) /\ old >= s
    BY <1>3, <1>5, <1>6
  <2>2. new \in Nat
    BY ONLY <2>1, x \in Nat, old \in Nat, s \in Nat
  <2> QED BY <2>1, <2>2
<1>13. PICK length \in Nat : length = file.length
  BY BoxesLie
<1>14. e <= length
  BY <1>7, <1>13 DEF Short
<1>15. RunsToFileEnd(i) => e = length
  BY <1>7, <1>13, LastEnds
<1>16. old < length => old < e
  BY <1>3, <1>7, <1>13, <1>15
<1>17. k # m /\ m \in 1..N
  BY <1>1, <1>3 DEF OrderedAround
<1>18. ~(old < e) => RunsToFileEnd(i) /\ k = N
  <2> SUFFICES ASSUME ~(old < e) PROVE RunsToFileEnd(i) /\ k = N
    OBVIOUS
  <2>1. RunsToFileEnd(i)
    BY <1>3, <1>7
  <2>2. ~(k < N)
    BY <1>1, <1>3, <1>17, <2>1, NotToEnd
  <2> QED BY <1>4, <2>1, <2>2
<1>19. old < e => new + 1 \in 1..total
  <2> SUFFICES ASSUME old < e PROVE new + 1 \in 1..total
    OBVIOUS
  <2>1. new + 1 <= x + (e - s)
    <3>1. new = x + (old - s) /\ old < e
      BY <1>12
    <3> QED BY ONLY <3>1, x \in Nat, old \in Nat, s \in Nat, e \in Nat
  <2>2. x + (e - s) <= total
    BY <1>10
  <2>3. new \in Nat
    BY <1>12
  <2> QED BY ONLY <2>1, <2>2, <2>3, total \in Nat, x \in Nat, e \in Nat, s \in Nat
<1>20. ~(old < e) => ~(new + 1 <= total)
  <2> SUFFICES ASSUME ~(old < e) PROVE ~(new + 1 <= total)
    OBVIOUS
  <2>1. total = x + (e - s)
    BY <1>9, <1>10, <1>18
  <2> QED BY <1>12, <2>1
<1>21. old < e => whole[new + 1] = old
  <2> SUFFICES ASSUME old < e PROVE whole[new + 1] = old
    OBVIOUS
  <2>1. PICK j \in 1..(e - s) : j = old - s + 1
    <3>1. old >= s /\ old < e
      BY <1>12
    <3> QED BY ONLY <3>1, old \in Nat, s \in Nat, e \in Nat
  <2>2. whole[x + j] = s + j - 1
    BY <1>11
  <2>3. x + j = new + 1 /\ s + j - 1 = old
    <3>1. new = x + (old - s) /\ j = old - s + 1
      BY <1>12, <2>1
    <3> QED BY ONLY <3>1, x \in Nat, old \in Nat, s \in Nat
  <2> QED BY <2>2, <2>3
<1>22. Len(whole) = total
  BY <1>2, <1>9
<1>23. ASSUME new < total
       PROVE  OfFtyp(old) \/ \A q \in (new + 1)..total : whole[q] >= 0
  <2>1. old < e
    BY <1>12, <1>20, <1>23
  <2>2. CASE Boxes[i].type = "ftyp"
    <3>1. old \in s..e - 1
      BY <1>12, <2>1
    <3>2. i \in DOMAIN Boxes
      BY BoxesLie
    <3> QED BY <1>6, <1>7, <2>2, <3>1, <3>2 DEF OfFtyp
  <2>3. CASE Boxes[i].type # "ftyp"
    <3>1. ~(k < m)
      BY <1>3, <2>3 DEF OrderedAround
    <3>2. m <= k - 1 /\ m \in 0..N
      BY ONLY <1>4, <1>17, <3>1, N \in Nat
    <3>3. f[m] <= x
      BY ONLY <1>2, <1>4, <1>5, <3>2, k \in 1..N, N \in Nat
    <3>4. f[m] \in Nat
      BY <1>2, <3>2
    <3> SUFFICES ASSUME NEW q \in (new + 1)..total PROVE whole[q] >= 0
      OBVIOUS
    <3>5. q \in Nat /\ f[m] < q /\ q <= Len(whole)
      <4>1. q \in Nat /\ new + 1 <= q /\ q <= total
        BY <1>12
      <4>2. x <= new
        BY <1>12
      <4>3. PICK y \in Nat : y = f[m]
        BY <3>4
      <4>4. y <= x
        BY <3>3, <4>3
      <4>5. y < q
        BY <1>12, <4>1, <4>2, <4>4
      <4> QED BY <1>22, <4>1, <4>3, <4>5
    <3> QED BY <3>5, BehindPassed
  <2> QED BY <2>2, <2>3
<1>24. old < file.length => new + 1 \in 1..Len(whole)
  BY <1>13, <1>16, <1>19, <1>22
<1>25. new + 1 \in 1..Len(whole) => whole[new + 1] = old
  <2>1. new + 1 \in 1..total => new + 1 <= total
    OBVIOUS
  <2> QED BY <1>20, <1>21, <1>22, <2>1
<1> QED BY <1>12, <1>22, <1>23, <1>24, <1>25 DEF Leads

(* In the file as it is, every offset leads where it led.                  *)
LEMMA LeadsAsItIs ==
  ASSUME file \in Files, NEW whole, whole = Bytes(0, file.length), NEW old \in Nat
  PROVE  Leads(whole, old, old)
<1>1. PICK n \in Nat : n = file.length
  BY BoxesLie
<1>2. Bytes(0, n) = [k \in 1..n |-> k - 1]
  <2>1. n - 0 = n /\ \A k \in 1..n : 0 + k - 1 = k - 1
    OBVIOUS
  <2> QED BY <2>1 DEF Bytes
<1>3. whole = [k \in 1..n |-> k - 1]
  BY <1>1, <1>2
<1>4. Len(whole) = n /\ \A k \in 1..n : whole[k] = k - 1
  BY <1>3
<1>5. old < n => old + 1 \in 1..n
  OBVIOUS
<1>6. old + 1 \in 1..n => whole[old + 1] = old
  BY <1>4
<1>7. \A q \in (old + 1)..n : whole[q] >= 0
  <2>1. \A q \in (old + 1)..n : q \in 1..n
    OBVIOUS
  <2> QED BY <1>4, <2>1
<1> QED BY <1>1, <1>4, <1>5, <1>6, <1>7 DEF Leads

(* THE OFFSETS FOLLOW                                                      *)

Right(old, here, table, n) ==
  /\ IF here THEN Leads(laid, old, table.offsets[n]) ELSE table.offsets[n] = old
  /\ table.wide \/ table.offsets[n] <= CompactReach

(* A file that has room to be laid out again, as a whole and to its end:   *)
(* however its tables are widened, no offset in it is past the largest,    *)
(* and its last box does not run to its end where it is moved ahead.       *)
Placeable(f) ==
  /\ ~(f.toEnd /\ f.boxes # <<>> /\ f.boxes[Len(f.boxes)].type = "ftyp")
  /\ \A wide \in SUBSET DOMAIN Tables(f.movie) :
       f.length + MovieLength(Tables(f.movie), wide) <= MaxPosition

LEMMA RightRearranged ==
  ASSUME file \in Files, Placeable(file), Rearranged,
         \A i \in 1..Len(Boxes) : ~Short(i),
         NEW wide, Settles(wide), NEW tables, Sized(tables), FollowsMoves(wide, tables),
         NEW whole, whole = laid, whole = Expected(MoovLength(tables)),
         NEW t \in 1..Len(AsRead), NEW n \in 1..Len(AsRead[t].offsets)
  PROVE  Right(AsRead[t].offsets[n], AsRead[t].here[n], tables[t], n)
<1>0. HasMovie
  BY DEF Rearranged
<1>1. PICK L \in Nat : L = MoovLength(tables)
  BY MovieLengthIs DEF MoovLength
<1>2. L = MovieLength(AsRead, wide)
  BY <1>1, SameLength
<1>3. whole = Expected(L)
  BY <1>1
<1>4. Len(whole) <= MaxPosition
  <2>1. Len(whole) \in Nat /\ Len(whole) <= file.length + L
    BY <1>3, ExpectedShort
  <2>2. wide \in SUBSET DOMAIN AsRead
    BY DEF Settles
  <2>3. file.length + L <= MaxPosition
    BY <1>2, <2>2 DEF Placeable, AsRead
  <2>4. file.length \in Nat /\ MaxPosition \in Nat
    BY BoxesLie, LimitsAssumption
  <2> QED BY <2>1, <2>3, <2>4
<1>5. PICK order \in Seq(1..Len(Boxes)) : order = NewOrder
  BY <1>0, NewOrderIs
<1>6. PICK m \in Nat : OrderedAround(order, m)
  BY <1>0, <1>5, NewOrderAround
<1>7. PICK f : PartsAt(f, whole, order, L)
  BY <1>3, <1>5, LaidParts
<1>8. ~FtypEnds
  <2>1. Boxes # <<>>
    BY <1>0, BoxesLie DEF HasMovie
  <2> QED BY <2>1 DEF Placeable, FtypEnds, Boxes
<1>9. PICK starts : starts = NewStarts(order, L)
  OBVIOUS
<1>10. \A k \in 1..Len(order) : starts[k] = f[k - 1]
  BY <1>4, <1>6, <1>7, <1>8, <1>9, StartsTrue
<1>11. PICK old \in Nat : old = AsRead[t].offsets[n]
  <2>1. PICK offsets : offsets = AsRead[t].offsets
    OBVIOUS
  <2>2. offsets \in Seq(Nat) /\ n \in 1..Len(offsets)
    BY <2>1, AsReadIs
  <2>3. offsets[n] \in Nat
    BY <2>2
  <2> QED BY <2>1, <2>3
<1>12. PICK new : new = tables[t].offsets[n]
  OBVIOUS
<1>13. new = Moves(wide)[t][n] /\ new >= 0 /\ (tables[t].wide <=> t \in wide)
  BY <1>12 DEF FollowsMoves
<1>14. new \in Int
  <2>1. Moves(wide) \in Seq(Seq(Int)) /\ Len(Moves(wide)) = Len(AsRead)
    BY <1>0, MovesAre
  <2>2. Len(Moves(wide)[t]) = Len(AsRead[t].offsets)
    BY <1>0, MovesAre
  <2>3. PICK moves \in Seq(Seq(Int)) : moves = Moves(wide)
    BY <2>1
  <2>4. moves[t] \in Seq(Int) /\ n \in 1..Len(moves[t])
    BY <2>1, <2>2, <2>3
  <2>5. moves[t][n] \in Int
    BY <2>4
  <2> QED BY <1>13, <2>3, <2>5
<1>15. new = IF AsRead[t].here[n] THEN Moved(old, order, starts) ELSE old
  <2>1. Moves(wide)[t][n] =
          IF AsRead[t].here[n]
          THEN Moved(AsRead[t].offsets[n], NewOrder, NewStarts(NewOrder, MovieLength(AsRead, wide)))
          ELSE AsRead[t].offsets[n]
    BY <1>0, MovesAre
  <2> QED BY <1>2, <1>5, <1>9, <1>11, <1>13, <2>1
<1>16. tables[t].wide \/ new <= CompactReach
  <2>1. t \in DOMAIN AsRead /\ n \in DOMAIN AsRead[t].offsets
    BY AsReadIs
  <2>2. new > CompactReach => t \in wide
    BY <1>13, <2>1 DEF Settles
  <2> QED BY <1>13, <1>14, <2>2, LimitsAssumption
<1>17. ASSUME AsRead[t].here[n] PROVE Leads(whole, old, new)
  <2>1. new = Moved(old, order, starts)
    BY <1>15, <1>17
  <2>2. PICK k \in 1..Len(order) :
          /\ Boxes[order[k]].type # "moov"
          /\ old >= BoxStart(order[k])
          /\ RunsToFileEnd(order[k]) \/ old < BoxEnd(order[k])
          /\ new = starts[k] + (old - BoxStart(order[k]))
    <3>1. new >= 0 => MovesWithBox(order, starts, old, new)
      BY <1>9, <2>1, MovedIs
    <3>2. MovesWithBox(order, starts, old, new)
      BY <1>13, <3>1
    <3> QED BY <3>2 DEF MovesWithBox
  <2>3. new = f[k - 1] + (old - BoxStart(order[k]))
    BY <1>10, <2>2
  <2> QED BY <1>6, <1>7, <1>8, <2>2, <2>3, LeadsTo
<1>18. ~AsRead[t].here[n] => new = old
  BY <1>15
<1> QED BY <1>11, <1>12, <1>16, <1>17, <1>18 DEF Right

LEMMA InvFollows ==
  ASSUME Inv, Placeable(file)
  PROVE  OffsetsFollow
<1> SUFFICES ASSUME Done PROVE OffsetsFollow
  BY DEF OffsetsFollow
<1>1. file \in Files /\ Sized(movie) /\ LaidOutSo("none", movie) /\ Passing /\ pieces = <<>>
  BY DEF Inv, Done
<1>2. PICK L \in Nat : L = MoovLength(movie) /\ Lies(<<>>, passed, laid, L)
  BY <1>1, MovieLengthIs DEF Passing, MoovLength
<1>3. laid \in Seq(Int) /\ laid = Expected(L)
  <2>1. laid \in Seq(Int) /\ laid \o Coming(<<>>, passed, L) = Expected(L)
    BY <1>2 DEF Lies
  <2>2. Coming(<<>>, passed, L) = <<>>
    BY DEF Coming
  <2>3. laid \o <<>> = laid
    BY <2>1
  <2> QED BY <2>1, <2>2, <2>3
<1>4. \A i \in 1..Len(Boxes) : ~Short(i)
  BY <1>2 DEF Lies, KeepsShort
<1>5. ASSUME NEW t \in DOMAIN AsRead, NEW n \in DOMAIN AsRead[t].offsets
      PROVE  Right(AsRead[t].offsets[n], AsRead[t].here[n], movie[t], n)
  <2>1. t \in 1..Len(AsRead) /\ n \in 1..Len(AsRead[t].offsets)
    BY <1>1, AsReadIs
  <2>2. CASE Rearranged
    <3>1. PICK wide : Settles(wide) /\ FollowsMoves(wide, movie)
      BY <1>1, <2>2 DEF LaidOutSo
    <3> QED BY <1>1, <1>2, <1>3, <1>4, <2>1, <2>2, <3>1, RightRearranged
  <2>3. CASE ~Rearranged
    <3>1. movie = AsRead
      BY <1>1, <2>3 DEF LaidOutSo
    <3>2. laid = Bytes(0, file.length)
      BY <1>1, <1>3, <2>3, WholeFile DEF Expected, Plan
    <3>3. PICK old \in Nat : old = AsRead[t].offsets[n]
      <4>1. PICK offsets : offsets = AsRead[t].offsets
        OBVIOUS
      <4>2. offsets \in Seq(Nat) /\ n \in 1..Len(offsets)
        BY <1>1, <2>1, <4>1, AsReadIs
      <4>3. offsets[n] \in Nat
        BY <4>2
      <4> QED BY <4>1, <4>3
    <3>4. Leads(laid, old, old)
      BY <1>1, <3>2, LeadsAsItIs
    <3>5. AsRead[t].wide \/ old <= CompactReach
      BY <1>1, <2>1, <3>3, AsReadIs DEF Fits
    <3> QED BY <3>1, <3>3, <3>4, <3>5 DEF Right
  <2> QED BY <2>2, <2>3
<1>6. DOMAIN laid = 1..Len(laid)
  BY <1>3
<1> DEFINE InFtyp(old) == \E i \in DOMAIN Boxes : Boxes[i].type = "ftyp" /\ old \in BoxStart(i)..BoxEnd(i) - 1
           Follows(old, new) ==
             /\ old < file.length => new + 1 \in DOMAIN laid
             /\ new + 1 \in DOMAIN laid => laid[new + 1] = old
             /\ new < Len(laid) => InFtyp(old) \/ \A k \in (new + 1)..Len(laid) : laid[k] >= 0
<1>7. ASSUME NEW old, NEW new, Leads(laid, old, new) PROVE Follows(old, new)
  BY <1>6, <1>7 DEF Leads, OfFtyp
<1>8. OffsetsFollow <=>
        (Done => \A t \in DOMAIN AsRead : \A n \in DOMAIN AsRead[t].offsets :
                   /\ IF AsRead[t].here[n] THEN Follows(AsRead[t].offsets[n], movie[t].offsets[n])
                      ELSE movie[t].offsets[n] = AsRead[t].offsets[n]
                   /\ movie[t].wide \/ movie[t].offsets[n] <= CompactReach)
  BY DEF OffsetsFollow
<1> HIDE DEF Follows
<1> QED BY <1>5, <1>7, <1>8 DEF Right

(* The file laid out, every offset in it names the byte it named before,   *)
(* behind the moov, in a table that is wide enough for it: of any file     *)
(* that can be placed, however its tables widen one for the other.         *)
THEOREM OffsetsLead == Spec => [](Placeable(file) => OffsetsFollow)
<1>1. Spec => []Inv
  BY InvariantHolds
<1>2. Inv => (Placeable(file) => OffsetsFollow)
  BY InvFollows
<1> QED BY <1>1, <1>2, PTL

(* WHAT A FILE IS REFUSED FOR                                              *)

OutOfFileCalled ==
  Rearranged /\ IF file.toEnd THEN Last(Boxes).type = "ftyp"
                ELSE \E o \in OffsetsHere(AsRead) : o >= DeclaredEnd
InMovieCalled ==
  Rearranged /\ \E i \in DOMAIN Boxes : Boxes[i].type = "moov" /\
    \E o \in OffsetsHere(AsRead) : o >= BoxStart(i) /\ (o < BoxEnd(i) \/ RunsToFileEnd(i))

LEMMA CausesAre ==
  /\ "too many boxes" \in Causes <=> Len(Boxes) > BoxCount
  /\ "fragmented" \in Causes <=>
       \E i \in DOMAIN Boxes : Boxes[i].type = "moof" \/ (IsGathered(i) /\ Boxes[i].fragmented)
  /\ "duplicate" \in Causes <=> \E i, k \in DOMAIN Boxes : i # k /\ Boxes[i].type = "moov" /\ Boxes[k].type = "moov"
  /\ "past limit" \in Causes <=> \E i \in DOMAIN Boxes : IsGathered(i) /\ Boxes[i].bytes > MovieBytes + 1
  /\ "unreadable" \in Causes <=> \E i \in DOMAIN Boxes : IsGathered(i) /\ ~Boxes[i].reads
  /\ "item locations" \in Causes <=> \E i \in DOMAIN Boxes : IsGathered(i) /\ LocatesInFile(Boxes[i].items)
  /\ "unfinished" \in Causes <=> Boxes # <<>> /\ file.length < DeclaredEnd
  /\ "missing movie" \in Causes <=> ~HasMovie
  /\ "offset out of file" \in Causes <=> OutOfFileCalled
  /\ "offset in movie" \in Causes <=> InMovieCalled
BY DEF Causes, OutOfFileCalled, InMovieCalled

LEMMA CausesOnly ==
  ASSUME NEW cause \in Causes
  PROVE  cause \in {"too many boxes", "fragmented", "duplicate", "past limit", "unreadable", "item locations",
                    "unfinished", "missing movie", "offset out of file", "offset in movie"}
BY DEF Causes

(* A box gathered that fails at its end is a cause.                        *)
LEMMA EndFailureCaused ==
  ASSUME file \in Files, NEW i \in 1..Len(Boxes), IsGathered(i), EndFailure(i) # "none"
  PROVE  EndFailure(i) \in Causes
<1>1. i \in DOMAIN Boxes
  BY BoxesLie
<1>2. CASE ~Boxes[i].reads
  BY <1>1, <1>2, CausesAre DEF EndFailure
<1>3. CASE Boxes[i].reads /\ Boxes[i].fragmented
  BY <1>1, <1>3, CausesAre DEF EndFailure
<1>4. CASE Boxes[i].reads /\ ~Boxes[i].fragmented
  BY <1>1, <1>4, CausesAre DEF EndFailure
<1> QED BY <1>2, <1>3, <1>4

LEMMA HeaderFailureCaused ==
  ASSUME file \in Files, NEW i \in 1..Len(Boxes), HeaderFailure(i) # "none"
  PROVE  HeaderFailure(i) \in Causes
<1>1. i \in DOMAIN Boxes /\ Len(Boxes) \in Nat /\ DOMAIN Boxes = 1..Len(Boxes) /\ Boxes[i].bytes \in Nat
  BY BoxesLie DEF FileBox
<1>2. CASE i > BoxCount
  <2>1. Len(Boxes) > BoxCount
    BY <1>1, <1>2, LimitsAssumption
  <2> QED BY <1>2, <2>1, CausesAre DEF HeaderFailure
<1>3. CASE ~(i > BoxCount) /\ Boxes[i].type = "moof"
  BY <1>1, <1>3, CausesAre DEF HeaderFailure
<1>4. CASE ~(i > BoxCount) /\ Boxes[i].type # "moof" /\ Duplicate(i)
  <2>1. PICK k \in 1..(i - 1) : Boxes[k].type = "moov"
    BY <1>4 DEF Duplicate
  <2>2. Boxes[i].type = "moov" /\ k \in DOMAIN Boxes /\ i # k
    BY <1>1, <1>4, <2>1 DEF Duplicate
  <2> QED BY <1>1, <1>4, <2>1, <2>2, CausesAre DEF HeaderFailure
<1>5. CASE ~(i > BoxCount) /\ Boxes[i].type # "moof" /\ ~Duplicate(i)
  <2>1. HeaderFailure(i) = "past limit" /\ IsGathered(i) /\ Boxes[i].bytes - 1 > MovieBytes
    BY <1>5 DEF HeaderFailure
  <2>2. PICK b \in Nat : b = Boxes[i].bytes
    BY <1>1
  <2>3. b - 1 > MovieBytes
    BY <2>1, <2>2
  <2>4. b > MovieBytes + 1
    BY ONLY <2>3, LimitsAssumption, b \in Nat
  <2> QED BY <1>1, <2>1, <2>2, <2>4, CausesAre
<1> QED BY <1>2, <1>3, <1>4, <1>5

LEMMA FailureCaused ==
  ASSUME file \in Files, NEW i \in 1..Len(Boxes), NEW upTo \in Nat, upTo <= file.length,
         FailureOf(i, upTo) # "none"
  PROVE  FailureOf(i, upTo) \in Causes
<1>1. CASE HeaderFailure(i) # "none"
  BY <1>1, HeaderFailureCaused DEF FailureOf
<1>2. CASE HeaderFailure(i) = "none" /\ ~RunsToFileEnd(i)
  BY <1>2, EndFailureCaused DEF FailureOf
<1>3. CASE HeaderFailure(i) = "none" /\ RunsToFileEnd(i)
  <2>1. IsGathered(i) /\ upTo > HeaderEnd(i) + MovieBytes /\ FailureOf(i, upTo) = "past limit"
    BY <1>3 DEF FailureOf
  <2>2. BoxEnd(i) = file.length
    BY <1>3, LastEnds
  <2>3. PICK s \in Nat, b \in Nat, len \in Nat : s = BoxStart(i) /\ b = Boxes[i].bytes /\ len = file.length
    BY BoxesLie DEF FileBox
  <2>4. upTo <= s + b /\ upTo > s + 1 + MovieBytes
    BY <2>1, <2>2, <2>3 DEF BoxEnd, HeaderEnd
  <2>5. b > MovieBytes + 1
    BY ONLY <2>4, LimitsAssumption, s \in Nat, b \in Nat, upTo \in Nat
  <2>6. i \in DOMAIN Boxes
    BY BoxesLie
  <2> QED BY <2>1, <2>3, <2>5, <2>6, CausesAre
<1> QED BY <1>1, <1>2, <1>3

(* HOW FAR BOXES MOVE                                                      *)

(* Of the boxes up to the n-th, the bytes of those of these types.         *)
Weighs(f, T) ==
  /\ f[0] = 0
  /\ \A n \in 0..Len(Boxes) : f[n] \in Nat
  /\ \A i \in 1..Len(Boxes) : f[i] = f[i - 1] + (IF i \in T THEN Boxes[i].bytes ELSE 0)
  /\ \A j \in 0..Len(Boxes), n \in 0..Len(Boxes) : j <= n => f[j] <= f[n]

LEMMA WeightsExist ==
  ASSUME file \in Files, NEW T
  PROVE  \E f : Weighs(f, T)
<1>1. PICK N \in Nat : N = Len(Boxes)
  BY BoxesLie
<1>2. PICK own : own = [i \in 1..N |-> IF i \in T THEN Boxes[i].bytes ELSE 0]
  OBVIOUS
<1>3. \A i \in 1..N : Boxes[i].bytes \in Nat
  BY <1>1, BoxesLie DEF FileBox
<1>4. \A i \in 1..N : own[i] \in Nat /\ own[i] = IF i \in T THEN Boxes[i].bytes ELSE 0
  BY <1>2, <1>3
<1>5. PICK f : Sums(f, N, own)
  BY <1>4, SumsExist
<1>6. /\ f[0] = 0
      /\ \A n \in 0..N : f[n] \in Nat
      /\ \A n \in 1..N : f[n] = f[n - 1] + own[n]
      /\ \A m \in 0..N, n \in 0..N : m <= n => f[m] <= f[n]
  BY ONLY <1>4, <1>5, N \in Nat, SumsSteps
<1> QED BY <1>1, <1>4, <1>6 DEF Weighs

(* Boxes that are of one kind only weigh no more than all.                 *)
LEMMA WeightsLie ==
  ASSUME file \in Files, NEW T, NEW U, \A i : ~(i \in T /\ i \in U),
         NEW f, Weighs(f, T), NEW g, Weighs(g, U)
  PROVE  \A n \in 0..Len(Boxes) : f[n] + g[n] <= BoxStart(n + 1)
<1>1. PICK N \in Nat : N = Len(Boxes)
  BY BoxesLie
<1> DEFINE D == {n \in Nat : n <= N => f[n] + g[n] <= BoxStart(n + 1)}
<1>2. 0 \in D
  <2>1. f[0] = 0 /\ g[0] = 0 /\ BoxStart(0 + 1) = 0
    BY BoxesLie DEF Weighs
  <2> QED BY <2>1
<1>3. ASSUME NEW n \in Nat, n \in D PROVE n + 1 \in D
  <2> SUFFICES ASSUME n + 1 <= N PROVE f[n + 1] + g[n + 1] <= BoxStart(n + 1 + 1)
    OBVIOUS
  <2>1. PICK i \in 1..N : i = n + 1
    OBVIOUS
  <2>2. PICK s \in Nat, b \in Nat : s = BoxStart(i) /\ b = Boxes[i].bytes
    BY <1>1, BoxesLie DEF FileBox
  <2>3. BoxStart(i + 1) = s + b
    BY <1>1, <2>2, BoxesLie DEF BoxEnd
  <2>4. PICK x \in Nat, y \in Nat : x = f[n] /\ y = g[n]
    BY <1>1, <2>1 DEF Weighs
  <2>5. x + y <= s
    BY <1>3, <2>1, <2>2, <2>4
  <2>6. i - 1 = n
    BY <2>1
  <2>7. f[i] = x + (IF i \in T THEN b ELSE 0) /\ g[i] = y + (IF i \in U THEN b ELSE 0)
    BY <1>1, <2>2, <2>4, <2>6 DEF Weighs
  <2>8. f[i] + g[i] <= s + b
    <3>1. CASE i \in T
      BY <2>2, <2>4, <2>5, <2>7, <3>1
    <3>2. CASE i \notin T
      BY <2>2, <2>4, <2>5, <2>7, <3>2
    <3> QED BY <3>1, <3>2
  <2> QED BY <2>1, <2>3, <2>8
<1>4. \A n \in Nat : n \in D
  <2> HIDE DEF D
  <2> QED BY <1>2, <1>3, SetInduction
<1> QED BY <1>1, <1>4

FtypBoxes == OfType({"ftyp"})
OtherBoxes == OfNoType({"ftyp", "moov"})

(* What lies ahead of the place behind the n-th box of the new order, of   *)
(* a moov of L bytes.                                                      *)
Room(order, m, f, g, L, n) ==
  IF n = 0 THEN 0
  ELSE IF n < m THEN f[order[n]]
  ELSE IF n = m THEN f[Len(Boxes)] + L
  ELSE f[Len(Boxes)] + L + g[order[n]]

LEMMA CappedBelow ==
  ASSUME NEW x \in Nat
  PROVE  Capped(x) <= x
  BY LimitsAssumption DEF Capped

(* The sums up to each box, capped, that the boxes start at.               *)
CapsUp(h, starts, order, L) ==
  /\ starts = [k \in DOMAIN order |-> h[k - 1]]
  /\ h[0] = 0
  /\ \A n \in 0..Len(order) : h[n] \in Nat
  /\ \A n \in 1..Len(order) : h[n] = Capped(h[n - 1] + NewLength(order[n], L))

LEMMA StartsCap ==
  ASSUME file \in Files, NEW order \in Seq(1..Len(Boxes)), NEW L \in Nat
  PROVE  \E h : CapsUp(h, NewStarts(order, L), order, L)
<1>1. PICK h : /\ NewStarts(order, L) = [k \in DOMAIN order |-> h[k - 1]]
               /\ h[0] = 0
               /\ \A n \in 0..Len(order) : h[n] \in Nat
               /\ \A n \in 1..Len(order) : h[n] = Capped(h[n - 1] + NewLength(order[n], L))
  BY StartsAre
<1> QED BY ONLY <1>1 DEF CapsUp

LEMMA StartsBelow ==
  ASSUME file \in Files, ~FtypEnds, NEW order \in Seq(1..Len(Boxes)), NEW m \in Nat, OrderedAround(order, m),
         NEW L \in Nat, NEW f, Weighs(f, FtypBoxes), NEW g, Weighs(g, OtherBoxes),
         NEW starts, starts = NewStarts(order, L)
  PROVE  \A k \in 1..Len(order) : starts[k] \in Nat /\ starts[k] <= Room(order, m, f, g, L, k - 1)
<1>1. PICK K \in Nat : K = Len(order)
  OBVIOUS
<1>2. PICK N \in Nat : N = Len(Boxes)
  BY BoxesLie
<1>3. PICK h : /\ starts = [k \in DOMAIN order |-> h[k - 1]]
               /\ h[0] = 0
               /\ \A n \in 0..K : h[n] \in Nat
               /\ \A n \in 1..K : h[n] = Capped(h[n - 1] + NewLength(order[n], L))
  <2>1. PICK h : CapsUp(h, starts, order, L)
    BY StartsCap
  <2> QED BY ONLY <1>1, <2>1 DEF CapsUp
<1>4. /\ f[0] = 0 /\ g[0] = 0
      /\ \A n \in 0..N : f[n] \in Nat /\ g[n] \in Nat
      /\ \A j \in 0..N, n \in 0..N : j <= n => f[j] <= f[n] /\ g[j] <= g[n]
  <2>1. /\ f[0] = 0 /\ \A n \in 0..N : f[n] \in Nat
        /\ \A j \in 0..N, n \in 0..N : j <= n => f[j] <= f[n]
    BY ONLY <1>2, Weighs(f, FtypBoxes) DEF Weighs
  <2>2. /\ g[0] = 0 /\ \A n \in 0..N : g[n] \in Nat
        /\ \A j \in 0..N, n \in 0..N : j <= n => g[j] <= g[n]
    BY ONLY <1>2, Weighs(g, OtherBoxes) DEF Weighs
  <2> QED BY <2>1, <2>2
<1>5. /\ m \in 1..K
      /\ \A k \in 1..K : order[k] \in 1..N
      /\ \A k \in 1..K : k < m => Boxes[order[k]].type = "ftyp"
      /\ Boxes[order[m]].type = "moov"
      /\ \A k \in 1..K : m < k => Boxes[order[k]].type \notin {"ftyp", "moov"}
      /\ \A k \in 1..K : k < K /\ k # m /\ k + 1 # m => order[k] < order[k + 1]
  BY <1>1, <1>2 DEF OrderedAround
<1> DEFINE R(n) == Room(order, m, f, g, L, n)
           D == {n \in Nat : n < K => h[n] <= R(n)}
<1>6. 0 \in D
  BY <1>3 DEF Room
<1>7. ASSUME NEW n \in Nat, n \in D PROVE n + 1 \in D
  <2> SUFFICES ASSUME n + 1 < K PROVE h[n + 1] <= R(n + 1)
    OBVIOUS
  <2>1. PICK k \in 1..K : k = n + 1
    OBVIOUS
  <2>2. PICK i \in 1..N : i = order[k]
    BY <1>5
  <2>3. PICK x \in Nat : x = h[n]
    BY <1>3
  <2>4. PICK l \in Nat : l = NewLength(i, L)
    BY <1>2, NewLengthIs
  <2>5. h[k] <= x + l /\ h[k] \in Nat
    <3>1. h[k] = Capped(h[k - 1] + NewLength(order[k], L)) /\ k - 1 = n /\ h[k] \in Nat
      BY <1>3, <2>1
    <3>2. PICK y \in Nat : y = x + l
      OBVIOUS
    <3>3. h[k] = Capped(y)
      BY <2>2, <2>3, <2>4, <3>1, <3>2
    <3>4. Capped(y) <= y
      BY CappedBelow
    <3> QED BY <3>1, <3>2, <3>3, <3>4
  <2>6. x <= R(n)
    BY <1>7, <2>1, <2>3
  <2>7. PICK b \in Nat : b = Boxes[i].bytes
    BY <1>2, BoxesLie DEF FileBox
  <2>8. k # m => l = b
    <3> SUFFICES ASSUME k # m PROVE l = b
      OBVIOUS
    <3>1. Boxes[i].type # "moov"
      BY <1>5, <2>2
    <3>2. k < m \/ k < Len(order)
      BY <1>1, <2>1
    <3>3. ~RunsToFileEnd(order[k])
      BY <1>1, <3>2, NotToEnd
    <3> QED BY <1>2, <2>2, <2>4, <2>7, <3>1, <3>3, NewLengthIs
  <2>9. i - 1 \in 0..N /\ i \in 0..N /\ N \in 0..N
    OBVIOUS
  <2>10. n # 0 => n \in 1..K /\ n < K /\ n + 1 = k /\ order[n] \in 1..N /\ order[n] \in 0..N
    <3> SUFFICES ASSUME n # 0 PROVE n \in 1..K /\ n < K /\ n + 1 = k /\ order[n] \in 1..N /\ order[n] \in 0..N
      OBVIOUS
    <3>1. n \in 1..K /\ n < K /\ n + 1 = k
      BY <2>1
    <3> QED BY <1>5, <3>1
  <2>11. CASE k < m
    <3>1. i \in FtypBoxes
      BY <1>2, <1>5, <2>2, <2>11 DEF FtypBoxes, OfType
    <3>2. PICK u \in Nat, v \in Nat : u = f[i - 1] /\ v = f[i]
      BY <1>4, <2>9
    <3>3. v = u + b
      BY <1>2, <2>7, <3>1, <3>2 DEF Weighs
    <3>4. x <= u
      <4>1. CASE n = 0
        BY <2>6, <3>2, <4>1 DEF Room
      <4>2. CASE n # 0
        <5>1. PICK p \in 1..N : p = order[n]
          BY <2>10, <4>2
        <5>2. p < i /\ n < m
          BY <1>5, <2>1, <2>2, <2>10, <2>11, <4>2, <5>1
        <5>3. x <= f[p]
          BY <2>6, <4>2, <5>1, <5>2 DEF Room
        <5>4. p \in 0..N /\ p <= i - 1
          BY <5>2
        <5>5. f[p] <= f[i - 1] /\ f[p] \in Nat
          BY <1>4, <2>9, <5>4
        <5> QED BY <3>2, <5>3, <5>5
      <4> QED BY <4>1, <4>2
    <3>5. R(k) = v
      BY <2>2, <2>11, <3>2 DEF Room
    <3>6. l = b
      BY <2>8, <2>11
    <3>7. h[k] <= v
      BY ONLY <2>5, <3>3, <3>4, <3>6, x \in Nat, l \in Nat, u \in Nat, v \in Nat, b \in Nat
    <3> QED BY <2>1, <3>5, <3>7
  <2>12. CASE k = m
    <3>1. l = L
      BY <1>2, <1>5, <2>2, <2>4, <2>12, NewLengthIs
    <3>2. PICK w \in Nat : w = f[N]
      BY <1>4, <2>9
    <3>3. x <= w
      <4>1. CASE n = 0
        BY <2>6, <3>2, <4>1 DEF Room
      <4>2. CASE n # 0
        <5>1. PICK p \in 1..N : p = order[n]
          BY <2>10, <4>2
        <5>2. n < m
          BY <2>1, <2>12
        <5>3. x <= f[p]
          BY <2>6, <4>2, <5>1, <5>2 DEF Room
        <5>4. p \in 0..N /\ p <= N
          OBVIOUS
        <5>5. f[p] <= f[N] /\ f[p] \in Nat
          BY <1>4, <2>9, <5>4
        <5> QED BY <3>2, <5>3, <5>5
      <4> QED BY <4>1, <4>2
    <3>4. R(k) = w + L
      BY <1>2, <1>5, <2>12, <3>2 DEF Room
    <3>5. h[k] <= w + L
      BY ONLY <2>5, <3>1, <3>3, x \in Nat, l \in Nat, w \in Nat, L \in Nat
    <3> QED BY <2>1, <3>4, <3>5
  <2>13. CASE m < k
    <3>1. i \in OtherBoxes
      BY <1>2, <1>5, <2>2, <2>13 DEF OtherBoxes, OfNoType
    <3>2. PICK u \in Nat, v \in Nat : u = g[i - 1] /\ v = g[i]
      BY <1>4, <2>9
    <3>3. v = u + b
      BY <1>2, <2>7, <3>1, <3>2 DEF Weighs
    <3>4. PICK w \in Nat : w = f[N]
      BY <1>4, <2>9
    <3>5. x <= w + L + u
      <4>1. CASE n = m
        <5>1. x <= w + L
          BY <1>2, <1>5, <2>6, <3>4, <4>1 DEF Room
        <5> QED BY <5>1
      <4>2. CASE n # m
        <5>1. n # 0 /\ m < n
          BY <1>5, <2>1, <2>13, <4>2
        <5>2. PICK p \in 1..N : p = order[n]
          BY <2>10, <5>1
        <5>3. p < i
          BY <1>5, <2>1, <2>2, <2>10, <2>13, <4>2, <5>1, <5>2
        <5>4. x <= w + L + g[p]
          BY <1>2, <2>6, <3>4, <5>1, <5>2 DEF Room
        <5>5. p \in 0..N /\ p <= i - 1
          BY <5>3
        <5>6. g[p] <= g[i - 1] /\ g[p] \in Nat
          BY <1>4, <2>9, <5>5
        <5> QED BY <3>2, <5>4, <5>6
      <4> QED BY <4>1, <4>2
    <3>6. R(k) = w + L + v
      BY <1>2, <1>5, <2>2, <2>13, <3>2, <3>4 DEF Room
    <3>7. l = b
      BY <2>8, <2>13
    <3>8. h[k] <= w + L + v
      BY ONLY <2>5, <3>3, <3>5, <3>7, x \in Nat, l \in Nat, u \in Nat, v \in Nat, w \in Nat, b \in Nat, L \in Nat
    <3> QED BY <2>1, <3>6, <3>8
  <2> QED BY <1>5, <2>11, <2>12, <2>13
<1>8. \A n \in Nat : n \in D
  <2> HIDE DEF D
  <2> QED BY <1>6, <1>7, SetInduction
<1>9. ASSUME NEW k \in 1..K PROVE starts[k] \in Nat /\ starts[k] <= R(k - 1)
  <2>1. k \in DOMAIN order /\ k - 1 \in Nat /\ k - 1 < K /\ k - 1 \in 0..K
    BY <1>1
  <2>2. h[k - 1] <= R(k - 1)
    BY <1>8, <2>1
  <2> QED BY <1>3, <2>1, <2>2
<1> QED BY <1>1, <1>9

(* THE OFFSETS THAT ARE REFUSED                                            *)

(* Every box that was read calls for no failure.                           *)
Sound ==
  \A i \in 1..Len(Boxes) :
    /\ HeaderFailure(i) = "none"
    /\ IsGathered(i) => EndFailure(i) = "none" /\ Boxes[i].bytes <= MovieBytes + 1

(* However its tables are widened, the file has room to be laid out again  *)
(* as long as its boxes say, and where the last of them runs to its end,   *)
(* as far as any offset in it.                                             *)
HasRoom(f) ==
  \A wide \in SUBSET DOMAIN Tables(f.movie) :
    /\ BytesOf(f.boxes, Len(f.boxes)) + MovieLength(Tables(f.movie), wide) <= MaxPosition
    /\ f.toEnd => \A o \in OffsetsHere(Tables(f.movie)) : o + MovieLength(Tables(f.movie), wide) <= MaxPosition

LEMMA OneMovie ==
  ASSUME file \in Files, Sound, NEW i \in 1..Len(Boxes), NEW k \in 1..Len(Boxes),
         Boxes[i].type = "moov", Boxes[k].type = "moov"
  PROVE  i = k
<1>1. Len(Boxes) \in Nat
  BY BoxesLie
<1>2. ASSUME NEW j \in 1..Len(Boxes), NEW l \in 1..Len(Boxes), j < l,
             Boxes[j].type = "moov", Boxes[l].type = "moov"
      PROVE  FALSE
  <2>1. j \in 1..(l - 1)
    BY <1>1, <1>2
  <2>2. Duplicate(l)
    BY <1>2, <2>1 DEF Duplicate
  <2>3. HeaderFailure(l) # "none"
    BY <1>2, <2>2 DEF HeaderFailure
  <2> QED BY <2>3 DEF Sound
<1>3. i < k \/ i = k \/ k < i
  BY <1>1
<1> QED BY <1>2, <1>3

LEMMA NewOrderHas ==
  ASSUME file \in Files, Sound, Rearranged, NEW i \in 1..Len(Boxes)
  PROVE  \E k \in 1..Len(NewOrder) : NewOrder[k] = i
<1>1. HasMovie
  BY DEF Rearranged
<1>2. PICK order : order = NewOrder
  OBVIOUS
<1>3. CASE Boxes[i].type # "moov"
  <2>1. PICK k \in 1..Len(Plan) : Plan[k] = i
    BY <1>3, PlanHas
  <2>2. k \in 1..Len(order) /\ i = IF Boxes[order[k]].type = "moov" THEN 0 ELSE order[k]
    BY <1>2, <2>1, PlanOfOrder
  <2>3. i # 0
    OBVIOUS
  <2> QED BY <1>2, <2>2, <2>3
<1>4. CASE Boxes[i].type = "moov"
  <2>1. PICK m \in Nat : OrderedAround(order, m)
    BY <1>1, <1>2, NewOrderAround
  <2>2. m \in 1..Len(order) /\ order[m] \in 1..Len(Boxes) /\ Boxes[order[m]].type = "moov"
    BY <2>1 DEF OrderedAround
  <2>3. order[m] = i
    BY <1>4, <2>2, OneMovie
  <2> QED BY <1>2, <2>2, <2>3
<1> QED BY <1>3, <1>4

(* An offset that lies in no box is one past them all.                     *)
LEMMA NoneHolds ==
  ASSUME file \in Files, Sound, Rearranged, NEW old \in Nat, LiesIn(old, NewOrder) = 0
  PROVE  ~file.toEnd /\ old >= DeclaredEnd
<1>1. PICK order \in Seq(1..Len(Boxes)) : order = NewOrder
  BY NewOrderIs DEF Rearranged
<1>2. PICK N \in Nat : N = Len(Boxes)
  BY BoxesLie
<1>3. \A k \in 1..Len(order) : ~(old >= BoxStart(order[k]) /\ (RunsToFileEnd(order[k]) \/ old < BoxEnd(order[k])))
  <2> SUFFICES ASSUME NEW k \in 1..Len(order),
                      old >= BoxStart(order[k]) /\ (RunsToFileEnd(order[k]) \/ old < BoxEnd(order[k]))
               PROVE  FALSE
    OBVIOUS
  <2>1. k \in DOMAIN order /\ 0 \notin DOMAIN order
    OBVIOUS
  <2> QED BY <1>1, <2>1 DEF LiesIn
<1>4. \A i \in 1..N : ~(old >= BoxStart(i) /\ (RunsToFileEnd(i) \/ old < BoxEnd(i)))
  BY <1>1, <1>2, <1>3, NewOrderHas
<1>5. /\ BoxStart(1) = 0
      /\ \A i \in 1..N : BoxStart(i) \in Nat /\ BoxEnd(i) \in Nat /\ BoxEnd(i) = BoxStart(i + 1)
  BY <1>2, BoxesLie
<1> DEFINE D == {n \in Nat : n < N => old >= BoxStart(n + 1)}
<1>6. 0 \in D
  BY <1>5
<1>7. ASSUME NEW n \in Nat, n \in D PROVE n + 1 \in D
  <2> SUFFICES ASSUME n + 1 < N PROVE old >= BoxStart(n + 1 + 1)
    OBVIOUS
  <2>1. PICK i \in 1..N : i = n + 1
    OBVIOUS
  <2>2. old >= BoxStart(i)
    BY <1>7, <2>1
  <2>3. old >= BoxEnd(i)
    BY <1>4, <1>5, <2>2
  <2> QED BY <1>5, <2>1, <2>3
<1>8. \A n \in Nat : n \in D
  <2> HIDE DEF D
  <2> QED BY <1>6, <1>7, SetInduction
<1>9. N # 0
  BY <1>2, BoxesLie DEF Rearranged, HasMovie
<1>10. old >= BoxStart(N)
  <2>1. PICK n \in Nat : n + 1 = N
    BY <1>9
  <2> QED BY <1>8, <2>1
<1>11. N \in 1..N
  BY <1>9
<1>12. ~RunsToFileEnd(N) /\ ~(old < BoxEnd(N))
  BY <1>4, <1>10, <1>11
<1> QED BY <1>2, <1>5, <1>11, <1>12 DEF RunsToFileEnd, DeclaredEnd

(* With room, no offset moves past the largest one.                        *)
LEMMA MovesShort ==
  ASSUME file \in Files, HasRoom(file), Rearranged, ~FtypEnds,
         NEW wide \in SUBSET DOMAIN AsRead, NEW L \in Nat, L = MovieLength(AsRead, wide),
         NEW old \in OffsetsHere(AsRead), old \in Nat,
         NEW order \in Seq(1..Len(Boxes)), order = NewOrder,
         NEW starts, starts = NewStarts(order, L),
         NEW k \in 1..Len(order), Boxes[order[k]].type # "moov",
         old >= BoxStart(order[k]), RunsToFileEnd(order[k]) \/ old < BoxEnd(order[k])
  PROVE  starts[k] + (old - BoxStart(order[k])) <= MaxPosition
<1>1. PICK m \in Nat : OrderedAround(order, m)
  BY NewOrderAround DEF Rearranged
<1>2. PICK f : Weighs(f, FtypBoxes)
  BY WeightsExist
<1>3. PICK g : Weighs(g, OtherBoxes)
  BY WeightsExist
<1>4. PICK N \in Nat : N = Len(Boxes)
  BY BoxesLie
<1>5. \A n \in 0..N : f[n] + g[n] <= BoxStart(n + 1)
  <2>1. \A i : ~(i \in FtypBoxes /\ i \in OtherBoxes)
    BY DEF FtypBoxes, OtherBoxes, OfType, OfNoType
  <2>2. PICK T : T = FtypBoxes
    OBVIOUS
  <2>3. PICK U : U = OtherBoxes
    OBVIOUS
  <2> QED BY <1>2, <1>3, <1>4, <2>1, <2>2, <2>3, WeightsLie
<1>6. PICK s \in Nat : s = starts[k] /\ s <= Room(order, m, f, g, L, k - 1)
  BY <1>1, <1>2, <1>3, StartsBelow
<1>7. PICK i \in 1..N : i = order[k]
  BY <1>1, <1>4 DEF OrderedAround
<1>8. PICK a \in Nat, b \in Nat : a = BoxStart(i) /\ b = Boxes[i].bytes /\ BoxEnd(i) = a + b
  BY <1>4, BoxesLie DEF FileBox, BoxEnd
<1>9. /\ f[0] = 0 /\ g[0] = 0
      /\ \A n \in 0..N : f[n] \in Nat /\ g[n] \in Nat
      /\ \A j \in 0..N, n \in 0..N : j <= n => f[j] <= f[n] /\ g[j] <= g[n]
  <2>1. /\ f[0] = 0 /\ \A n \in 0..N : f[n] \in Nat
        /\ \A j \in 0..N, n \in 0..N : j <= n => f[j] <= f[n]
    BY ONLY <1>2, <1>4 DEF Weighs
  <2>2. /\ g[0] = 0 /\ \A n \in 0..N : g[n] \in Nat
        /\ \A j \in 0..N, n \in 0..N : j <= n => g[j] <= g[n]
    BY ONLY <1>3, <1>4 DEF Weighs
  <2> QED BY <2>1, <2>2
<1>10. PICK w \in Nat, z \in Nat : w = f[N] /\ z = g[N]
  <2>1. N \in 0..N
    OBVIOUS
  <2>2. f[N] \in Nat /\ g[N] \in Nat
    BY ONLY <1>9, <2>1
  <2> QED BY ONLY <2>2
<1>11. PICK e \in Nat : e = BoxStart(N + 1)
  BY <1>4, BoxesLie
<1>12. w + z <= e /\ e + L <= MaxPosition
  <2>1. N \in 0..N
    OBVIOUS
  <2>2. N + 1 - 1 = N
    OBVIOUS
  <2>3. e = BytesOf(Boxes, N)
    BY <1>11, <2>2 DEF BoxStart
  <2> QED BY <1>4, <1>5, <1>10, <1>11, <2>1, <2>3 DEF HasRoom, AsRead, Boxes
<1>13. k # m
  BY <1>1 DEF OrderedAround
<1>14. PICK u \in Nat, v \in Nat, p \in Nat, q \in Nat : u = f[i - 1] /\ v = f[i] /\ p = g[i - 1] /\ q = g[i]
  <2>1. i - 1 \in 0..N /\ i \in 0..N
    OBVIOUS
  <2> QED BY <1>9, <2>1
<1>15. v <= w /\ q <= z /\ u <= v /\ p <= q
  <2>1. i - 1 \in 0..N /\ i \in 0..N /\ N \in 0..N /\ i <= N /\ i - 1 <= i
    OBVIOUS
  <2> QED BY <1>9, <1>10, <1>14, <2>1
<1>16. u + p <= a
  <2>1. i - 1 \in 0..N /\ i - 1 + 1 = i
    OBVIOUS
  <2> QED BY <1>5, <1>8, <1>14, <2>1
<1>17. PICK M \in Nat : M = MaxPosition
  BY LimitsAssumption
<1>18. old >= a /\ (RunsToFileEnd(i) \/ old < a + b)
  BY <1>7, <1>8
<1>19. k < m => s <= u
  <2> SUFFICES ASSUME k < m PROVE s <= u
    OBVIOUS
  <2>1. CASE k = 1
    <3>1. k - 1 = 0
      BY <2>1
    <3> QED BY <1>6, <3>1 DEF Room
  <2>2. CASE k # 1
    <3>1. PICK j \in 1..Len(order) : j + 1 = k /\ j = k - 1
      BY <2>2
    <3>2. j # 0 /\ j < m /\ order[j] \in 1..N /\ order[j] < order[k]
      <4>1. j # m /\ j + 1 # m /\ j < Len(order) /\ j < m
        BY <3>1
      <4> QED BY <1>1, <1>4, <3>1, <4>1 DEF OrderedAround
    <3>3. s <= f[order[j]]
      BY <1>6, <3>1, <3>2 DEF Room
    <3>4. PICK x \in 1..N : x = order[j]
      BY <3>2
    <3>5. x \in 0..N /\ i - 1 \in 0..N /\ x <= i - 1
      <4>1. x < i
        BY <1>7, <3>2, <3>4
      <4> QED BY ONLY <4>1, N \in Nat, i \in 1..N, x \in 1..N
    <3>6. PICK y \in Nat : y = f[x]
      BY ONLY <1>9, <3>5
    <3>7. y <= u
      BY ONLY <1>9, <1>14, <3>5, <3>6
    <3>8. s <= y
      BY ONLY <3>3, <3>4, <3>6
    <3> QED BY ONLY <3>7, <3>8, s \in Nat, y \in Nat, u \in Nat
  <2> QED BY <2>1, <2>2
<1>20. m < k => s <= w + L + p
  <2> SUFFICES ASSUME m < k PROVE s <= w + L + p
    OBVIOUS
  <2>1. m \in 1..Len(order)
    BY <1>1 DEF OrderedAround
  <2>2. CASE k = m + 1
    <3>1. k - 1 = m /\ m # 0
      BY <2>1, <2>2
    <3>2. s <= w + L
      <4>1. Room(order, m, f, g, L, k - 1) = w + L
        BY ONLY <1>4, <1>10, <3>1, m \in Nat DEF Room
      <4> QED BY ONLY <1>6, <4>1
    <3> QED BY ONLY <3>2, s \in Nat, w \in Nat, L \in Nat, p \in Nat
  <2>3. CASE k # m + 1
    <3>1. PICK j \in 1..Len(order) : j + 1 = k /\ j = k - 1 /\ m < j
      <4>1. Len(order) \in Nat /\ m < k
        OBVIOUS
      <4>2. k - 1 \in 1..Len(order) /\ (k - 1) + 1 = k /\ m < k - 1
        BY ONLY <2>1, <2>3, <4>1, k \in 1..Len(order)
      <4> QED BY ONLY <4>2
    <3>2. j # 0 /\ ~(j < m) /\ j # m /\ order[j] \in 1..N /\ order[j] < order[k]
      <4>1. j # m /\ j + 1 # m /\ j < Len(order) /\ ~(j < m)
        BY <2>1, <3>1
      <4> QED BY <1>1, <1>4, <3>1, <4>1 DEF OrderedAround
    <3>3. s <= w + L + g[order[j]]
      <4>1. Room(order, m, f, g, L, j) = w + L + g[order[j]]
        BY ONLY <1>4, <1>10, <3>2 DEF Room
      <4> QED BY ONLY <1>6, <3>1, <4>1
    <3>4. PICK x \in 1..N : x = order[j]
      BY <3>2
    <3>5. x \in 0..N /\ i - 1 \in 0..N /\ x <= i - 1
      <4>1. x < i
        BY <1>7, <3>2, <3>4
      <4> QED BY ONLY <4>1, N \in Nat, i \in 1..N, x \in 1..N
    <3>6. PICK y \in Nat : y = g[x]
      BY <1>9, <3>5
    <3>7. y <= p
      BY <1>9, <1>14, <3>5, <3>6
    <3>8. s <= w + L + y
      BY <3>3, <3>4, <3>6
    <3> QED BY ONLY <3>7, <3>8, s \in Nat, w \in Nat, L \in Nat, y \in Nat, p \in Nat
  <2> QED BY <2>2, <2>3
<1>21. CASE k < m
  <2>1. ~RunsToFileEnd(i)
    BY <1>1, <1>7, <1>13, <1>21, NotToEnd
  <2>2. v = u + b
    <3>1. i \in FtypBoxes
      BY <1>1, <1>4, <1>7, <1>21 DEF OrderedAround, FtypBoxes, OfType
    <3> QED BY <1>2, <1>4, <1>8, <1>14, <3>1 DEF Weighs
  <2>3. s <= u
    BY <1>19, <1>21
  <2>4. old < a + b
    BY <1>18, <2>1
  <2>5. s + (old - a) <= M
    BY ONLY <1>12, <1>15, <1>17, <1>18, <2>2, <2>3, <2>4, s \in Nat, u \in Nat, v \in Nat, w \in Nat, z \in Nat,
            e \in Nat, L \in Nat, M \in Nat, a \in Nat, b \in Nat, old \in Nat
  <2> QED BY <1>6, <1>7, <1>8, <1>17, <2>5
<1>22. CASE m < k
  <2>1. i \in OtherBoxes
    BY <1>1, <1>4, <1>7, <1>22 DEF OrderedAround, OtherBoxes, OfNoType
  <2>2. s <= w + L + p
    BY <1>20, <1>22
  <2>3. CASE ~RunsToFileEnd(i)
    <3>1. q = p + b
      BY <1>3, <1>4, <1>8, <1>14, <2>1 DEF Weighs
    <3>2. old < a + b
      BY <1>18, <2>3
    <3>3. s + (old - a) <= M
      BY ONLY <1>12, <1>15, <1>17, <1>18, <2>2, <3>1, <3>2, s \in Nat, p \in Nat, q \in Nat, w \in Nat, z \in Nat,
              e \in Nat, L \in Nat, M \in Nat, a \in Nat, b \in Nat, old \in Nat
    <3> QED BY <1>6, <1>7, <1>8, <1>17, <3>3
  <2>4. CASE RunsToFileEnd(i)
    <3>1. file.toEnd /\ i = N
      BY <1>4, <2>4 DEF RunsToFileEnd
    <3>2. w = u
      <4>1. i \notin FtypBoxes
        BY <2>1 DEF FtypBoxes, OtherBoxes, OfType, OfNoType
      <4>2. f[i] = f[i - 1] + 0
        BY <1>2, <1>4, <4>1 DEF Weighs
      <4> QED BY <1>10, <1>14, <3>1, <4>2
    <3>3. old + L <= M
      BY <1>17, <3>1 DEF HasRoom, AsRead
    <3>4. s + (old - a) <= M
      BY ONLY <1>16, <1>18, <2>2, <3>2, <3>3, s \in Nat, p \in Nat, u \in Nat, w \in Nat,
              L \in Nat, M \in Nat, a \in Nat, old \in Nat
    <3> QED BY <1>6, <1>7, <1>8, <1>17, <3>4
  <2> QED BY <2>3, <2>4
<1>23. k < m \/ m < k
  BY <1>13
<1> QED BY <1>21, <1>22, <1>23

(* An offset that does not move is refused for what the file says.         *)
LEMMA MovedCaused ==
  ASSUME file \in Files, HasRoom(file), Sound, Rearranged,
         NEW wide \in SUBSET DOMAIN AsRead, NEW L \in Nat, L = MovieLength(AsRead, wide),
         NEW old \in OffsetsHere(AsRead), old \in Nat,
         NEW moved, moved = Moved(old, NewOrder, NewStarts(NewOrder, L)), moved < 0
  PROVE  Failure(moved) \in Causes
<1>1. PICK order \in Seq(1..Len(Boxes)) : order = NewOrder
  BY NewOrderIs DEF Rearranged
<1>2. PICK starts : starts = NewStarts(order, L)
  OBVIOUS
<1>3. PICK k : k = LiesIn(old, order)
  OBVIOUS
<1>4. moved = MovedWith(old, order, starts, k)
  BY <1>1, <1>2, <1>3 DEF Moved
<1>5. CASE k = 0
  <2>1. moved = OutOfFile
    BY <1>4, <1>5 DEF MovedWith
  <2>2. ~file.toEnd /\ old >= DeclaredEnd
    BY <1>1, <1>3, <1>5, NoneHolds
  <2>3. OutOfFileCalled
    BY <2>2 DEF OutOfFileCalled
  <2> QED BY <2>1, <2>3, CausesAre DEF Failure
<1>6. CASE k # 0
  <2>1. /\ k \in 1..Len(order) /\ order[k] \in 1..Len(Boxes)
        /\ old >= BoxStart(order[k])
        /\ RunsToFileEnd(order[k]) \/ old < BoxEnd(order[k])
    BY <1>3, <1>6, LiesInIs
  <2>2. PICK i \in 1..Len(Boxes) : i = order[k]
    BY <2>1
  <2>3. CASE Boxes[i].type = "moov"
    <3>1. moved = InMovie
      BY <1>4, <1>6, <2>2, <2>3 DEF MovedWith
    <3>2. InMovieCalled
      <4>1. i \in DOMAIN Boxes
        BY BoxesLie
      <4> QED BY <2>1, <2>2, <2>3, <4>1 DEF InMovieCalled
    <3>3. Failure(moved) = "offset in movie"
      BY <3>1 DEF Failure, InMovie, OutOfFile
    <3> QED BY <3>2, <3>3, CausesAre
  <2>4. CASE Boxes[i].type # "moov" /\ ~FtypEnds
    <3>1. starts[k] + (old - BoxStart(order[k])) <= MaxPosition
      BY <1>1, <1>2, <2>1, <2>2, <2>4, MovesShort
    <3>2. starts[k] \in Nat
      <4>1. PICK g : /\ starts = [j \in DOMAIN order |-> g[j - 1]]
                     /\ \A n \in 0..Len(order) : g[n] \in Nat
        BY <1>2, StartsAre
      <4>2. k \in DOMAIN order /\ k - 1 \in 0..Len(order)
        BY <2>1
      <4> QED BY <4>1, <4>2
    <3>3. PICK s \in Nat, b \in Nat : s = starts[k] /\ b = BoxStart(order[k])
      BY <2>1, <3>2, BoxesLie
    <3>4. ~(s + (old - b) > MaxPosition)
      BY <3>1, <3>3, LimitsAssumption
    <3>5. moved = s + (old - b)
      BY <1>4, <1>6, <2>2, <2>4, <3>3, <3>4 DEF MovedWith
    <3>6. moved >= 0
      BY <2>1, <3>3, <3>5
    <3>7. moved \in Int
      BY <3>3, <3>5
    <3> QED BY <3>6, <3>7
  <2>5. CASE Boxes[i].type # "moov" /\ FtypEnds
    <3>1. moved = OutOfFile
      <4>1. moved = OutOfFile \/ (moved = starts[k] + (old - BoxStart(order[k])))
        BY <1>4, <1>6, <2>2, <2>5 DEF MovedWith
      <4>2. starts[k] \in Nat
        <5>1. PICK g : /\ starts = [j \in DOMAIN order |-> g[j - 1]]
                       /\ \A n \in 0..Len(order) : g[n] \in Nat
          BY <1>2, StartsAre
        <5>2. k \in DOMAIN order /\ k - 1 \in 0..Len(order)
          BY <2>1
        <5> QED BY <5>1, <5>2
      <4>3. PICK s \in Nat, b \in Nat : s = starts[k] /\ b = BoxStart(order[k])
        BY <2>1, <4>2, BoxesLie
      <4>4. s + (old - b) >= 0 /\ s + (old - b) \in Int
        BY <2>1, <4>3
      <4> QED BY <4>1, <4>3, <4>4
    <3>2. OutOfFileCalled
      <4>1. file.toEnd /\ Boxes[Len(Boxes)].type = "ftyp"
        BY <2>5 DEF FtypEnds
      <4>2. Last(Boxes) = Boxes[Len(Boxes)]
        BY DEF Last
      <4> QED BY <4>1, <4>2 DEF OutOfFileCalled
    <3> QED BY <3>1, <3>2, CausesAre DEF Failure
  <2> QED BY <2>3, <2>4, <2>5
<1> QED BY <1>5, <1>6

LEMMA HereIs ==
  ASSUME file \in Files, NEW old \in OffsetsHere(AsRead)
  PROVE  \E t \in 1..Len(AsRead) : \E n \in 1..Len(AsRead[t].offsets) :
           AsRead[t].here[n] /\ AsRead[t].offsets[n] = old
<1>1. PICK tables : tables = AsRead
  OBVIOUS
<1>2. /\ DOMAIN tables = 1..Len(tables)
      /\ \A k \in 1..Len(tables) : DOMAIN tables[k].here = 1..Len(tables[k].offsets)
  BY <1>1, AsReadIs
<1>3. PICK t \in DOMAIN tables : old \in {tables[t].offsets[n] : n \in {m \in DOMAIN tables[t].here : tables[t].here[m]}}
  BY <1>1 DEF OffsetsHere
<1>4. PICK n \in DOMAIN tables[t].here : tables[t].here[n] /\ old = tables[t].offsets[n]
  BY <1>3
<1> QED BY <1>1, <1>2, <1>3, <1>4

LEMMA IsHere ==
  ASSUME file \in Files, NEW t \in 1..Len(AsRead), NEW n \in 1..Len(AsRead[t].offsets), AsRead[t].here[n]
  PROVE  AsRead[t].offsets[n] \in OffsetsHere(AsRead) /\ AsRead[t].offsets[n] \in Nat
<1>1. PICK tables : tables = AsRead
  OBVIOUS
<1>2. /\ DOMAIN tables = 1..Len(tables)
      /\ \A k \in 1..Len(tables) : DOMAIN tables[k].here = 1..Len(tables[k].offsets)
  BY <1>1, AsReadIs
<1>3. tables[t].offsets[n] \in {tables[t].offsets[j] : j \in {m \in DOMAIN tables[t].here : tables[t].here[m]}}
  BY <1>1, <1>2
<1>4. tables[t].offsets[n] \in OffsetsHere(tables)
  <2>1. t \in DOMAIN tables
    BY <1>1, <1>2
  <2> DEFINE Of(k) == {tables[k].offsets[j] : j \in {m \in DOMAIN tables[k].here : tables[k].here[m]}}
  <2>2. tables[t].offsets[n] \in Of(t)
    BY <1>3
  <2>3. OffsetsHere(tables) = UNION {Of(k) : k \in DOMAIN tables}
    BY DEF OffsetsHere
  <2> HIDE DEF Of
  <2> QED BY <2>1, <2>2, <2>3
<1>5. tables[t].offsets[n] \in Nat
  <2>1. PICK offsets \in Seq(Nat) : offsets = tables[t].offsets
    BY <1>1, AsReadIs
  <2>2. offsets[n] \in Nat
    BY <1>1, <2>1
  <2> QED BY <2>1, <2>2
<1> QED BY <1>1, <1>4, <1>5

LEMMA LayOutCaused ==
  ASSUME file \in Files, HasMovie, HasRoom(file), Sound, NEW order, order = Order(Len(Boxes)),
         NEW wide, wide = WideAfter(AsRead, order),
         NEW out, out = LayOut(AsRead, Len(Boxes), order, wide), out.failed # "none"
  PROVE  out.failed \in Causes
<1>1. PICK N \in Nat : N = Len(Boxes)
  BY BoxesLie
<1>2. PICK tables : tables = AsRead
  OBVIOUS
<1>3. ~AsItIs(tables, N)
  <2> SUFFICES ASSUME AsItIs(tables, N) PROVE FALSE
    OBVIOUS
  <2>1. out = [failed |-> "none", pieces |-> [i \in 1..N |-> i], movie |-> tables]
    BY <1>1, <1>2 DEF LayOut
  <2>2. out.failed = "none"
    BY <2>1
  <2> QED BY <2>2
<1>4. Rearranged
  <2>1. PICK offset \in OffsetsHere(tables) : ~(offset >= MovieStart)
    BY <1>1, <1>2, <1>3, MovieBoxIs DEF AsItIs
  <2>2. offset \in Nat /\ MovieStart \in Nat
    BY <1>2, AsReadIs, MovieBoxIs, BoxesLie
  <2> QED BY <1>2, <2>1, <2>2 DEF Rearranged
<1>5. order = NewOrder
  BY NewOrderIs
<1>6. wide \in SUBSET DOMAIN AsRead
  <2>1. Settles(wide)
    BY <1>5, WideSettles
  <2> QED BY <2>1 DEF Settles
<1>7. PICK moved : moved = Moves(wide)
  OBVIOUS
<1>8. PICK failures : failures = Where(FlattenSeq(moved), LAMBDA offset : offset < 0)
  OBVIOUS
<1>9. out = Relaid(tables, order, wide, moved)
  BY <1>1, <1>2, <1>3, <1>5, <1>7 DEF LayOut, Moves
<1>10. failures # <<>>
  <2> SUFFICES ASSUME failures = <<>> PROVE FALSE
    OBVIOUS
  <2>1. PICK m, p : Relaid(tables, order, wide, moved) = [failed |-> "none", movie |-> m, pieces |-> p]
    BY <1>8 DEF Relaid
  <2>2. [failed |-> "none", movie |-> m, pieces |-> p].failed = "none"
    OBVIOUS
  <2> QED BY <1>9, <2>1, <2>2
<1>11. out.failed = Failure(Head(failures))
  <2>1. out = [failed |-> Failure(Head(failures)), pieces |-> <<>>, movie |-> tables]
    BY <1>8, <1>9, <1>10 DEF Relaid
  <2> QED BY <2>1
<1>12. /\ moved \in Seq(Seq(Int)) /\ Len(moved) = Len(tables)
       /\ \A k \in 1..Len(tables) : Len(moved[k]) = Len(tables[k].offsets)
  BY <1>2, <1>7, MovesAre
<1> DEFINE Given == {x \in Int : \E k \in 1..Len(moved) : \E n \in 1..Len(moved[k]) : x = moved[k][n]}
<1>13. PICK T : T = Given
  OBVIOUS
<1>14. moved \in Seq(Seq(T))
  <2>1. PICK K \in Nat : K = Len(moved)
    BY <1>12
  <2>2. ASSUME NEW k \in 1..K PROVE moved[k] \in Seq(T)
    <3>1. PICK s \in Seq(Int) : s = moved[k]
      BY <1>12, <2>1
    <3>2. \A n \in 1..Len(s) : s[n] \in T
      BY <1>13, <2>1, <3>1
    <3>3. s \in Seq(T)
      BY <3>2
    <3> QED BY <3>1, <3>3
  <2>3. moved = [k \in 1..K |-> moved[k]]
    BY <1>12, <2>1
  <2> QED BY <2>2, <2>3
<1>15. PICK whole \in Seq(T) : whole = FlattenSeq(moved)
  BY <1>14, FlattenType
<1>16. PICK first : first = Head(failures)
  OBVIOUS
<1>17. first \in T /\ first < 0
  <2>1. Sequence(whole) /\ DOMAIN whole = 1..Len(whole) /\ \A i \in DOMAIN whole : whole[i] \in T
    BY <1>15, SequenceOf
  <2>2. T \subseteq Int
    BY <1>13
  <2>3. {i \in DOMAIN whole : whole[i] < 0} = {i \in DOMAIN whole : whole[i] \in {j \in Int : j < 0}}
    BY <2>1, <2>2
  <2>4. PICK U : U = {j \in Int : j < 0}
    OBVIOUS
  <2>5. failures = Those(whole, U)
    BY <1>8, <1>15, <2>3, <2>4 DEF Where, Those
  <2>6. /\ Sequence(failures)
        /\ \A k \in DOMAIN failures : failures[k] \in U /\ \E i \in DOMAIN whole : failures[k] = whole[i]
    BY <2>1, <2>5, ThoseAny
  <2>7. Len(failures) \in Nat /\ DOMAIN failures = 1..Len(failures)
    BY <2>6, SequenceShape
  <2>8. Len(failures) > 0
    <3>1. Len(failures) # 0
      <4> SUFFICES ASSUME Len(failures) = 0 PROVE FALSE
        OBVIOUS
      <4>1. failures = [i \in 1..0 |-> failures[i]]
        BY <2>6, SequenceShape
      <4>2. failures = <<>>
        BY <4>1
      <4> QED BY <1>10, <4>2
    <3> QED BY <2>7, <3>1
  <2>9. first = failures[1]
    BY <1>16, <2>6, <2>8, TailAny
  <2>10. 1 \in DOMAIN failures
    BY <2>7, <2>8
  <2> QED BY <2>1, <2>4, <2>6, <2>9, <2>10
<1>18a. PICK t \in 1..Len(tables) : \E n \in 1..Len(tables[t].offsets) : first = moved[t][n]
  BY <1>12, <1>13, <1>17
<1>18. PICK n \in 1..Len(tables[t].offsets) : first = moved[t][n]
  BY <1>18a
<1>19. first = IF AsRead[t].here[n]
               THEN Moved(AsRead[t].offsets[n], NewOrder, NewStarts(NewOrder, MovieLength(AsRead, wide)))
               ELSE AsRead[t].offsets[n]
  BY <1>2, <1>7, <1>18, MovesAre
<1>20. PICK old \in Nat : old = AsRead[t].offsets[n]
  <2>1. PICK offsets \in Seq(Nat) : offsets = AsRead[t].offsets
    BY <1>2, AsReadIs
  <2>2. offsets[n] \in Nat
    BY <1>2, <2>1
  <2> QED BY <2>1, <2>2
<1>21. AsRead[t].here[n]
  BY <1>17, <1>19, <1>20
<1>22. old \in OffsetsHere(AsRead)
  BY <1>2, <1>20, <1>21, IsHere
<1>23. PICK L \in Nat : L = MovieLength(AsRead, wide)
  BY AsReadIs, MovieLengthIs
<1>24. first = Moved(old, NewOrder, NewStarts(NewOrder, L))
  BY <1>19, <1>20, <1>21, <1>23
<1>25. Failure(first) \in Causes
  BY <1>4, <1>6, <1>17, <1>22, <1>23, <1>24, MovedCaused
<1> QED BY <1>11, <1>16, <1>25

(* Offsets that were moved lie in a box, and not in the moov.              *)
LEMMA NoneCalled ==
  ASSUME file \in Files, Rearranged, ~FtypEnds, NEW wide, NEW tables, FollowsMoves(wide, tables)
  PROVE  ~OutOfFileCalled /\ ~InMovieCalled
<1>0. HasMovie
  BY DEF Rearranged
<1>1. PICK order \in Seq(1..Len(Boxes)) : order = NewOrder
  BY <1>0, NewOrderIs
<1>2. PICK L \in Nat : L = MovieLength(AsRead, wide)
  BY AsReadIs, MovieLengthIs
<1>3. PICK starts : starts = NewStarts(order, L)
  OBVIOUS
<1>4. PICK N \in Nat : N = Len(Boxes) /\ DOMAIN Boxes = 1..N
  BY BoxesLie
<1>5. /\ \A i \in 1..N : BoxStart(i) \in Nat /\ BoxEnd(i) \in Nat
      /\ \A i, j \in 1..N : i < j => BoxEnd(i) <= BoxStart(j)
  BY <1>4, BoxesLie
<1> DEFINE Before(o, j) == RunsToFileEnd(j) \/ o < BoxEnd(j)
           InBox(o) == \E j \in 1..N : Boxes[j].type # "moov" /\ o >= BoxStart(j) /\ Before(o, j)
<1>6. \A o \in OffsetsHere(AsRead) : o \in Nat /\ InBox(o)
  <2> SUFFICES ASSUME NEW old \in OffsetsHere(AsRead) PROVE old \in Nat /\ InBox(old)
    OBVIOUS
  <2>1. old \in Nat
    BY AsReadIs
  <2>2. PICK t \in 1..Len(AsRead) : \E n \in 1..Len(AsRead[t].offsets) :
          AsRead[t].here[n] /\ AsRead[t].offsets[n] = old
    BY HereIs
  <2>3. PICK n \in 1..Len(AsRead[t].offsets) : AsRead[t].here[n] /\ AsRead[t].offsets[n] = old
    BY <2>2
  <2>4. PICK new : new = Moves(wide)[t][n]
    OBVIOUS
  <2>5. new >= 0
    BY <2>4 DEF FollowsMoves
  <2>6. new = Moved(old, order, starts)
    BY <1>0, <1>1, <1>2, <1>3, <2>3, <2>4, MovesAre
  <2>7. MovesWithBox(order, starts, old, new)
    BY <1>3, <2>1, <2>5, <2>6, MovedIs
  <2>8. PICK k \in 1..Len(order) :
          /\ Boxes[order[k]].type # "moov"
          /\ old >= BoxStart(order[k])
          /\ RunsToFileEnd(order[k]) \/ old < BoxEnd(order[k])
    BY <2>7 DEF MovesWithBox
  <2>9. order[k] \in 1..N
    BY <1>4
  <2> QED BY <2>1, <2>8, <2>9
<1> HIDE DEF InBox
<1>7. ~OutOfFileCalled
  <2> SUFFICES ASSUME OutOfFileCalled PROVE FALSE
    OBVIOUS
  <2>1. Last(Boxes) = Boxes[Len(Boxes)]
    BY DEF Last
  <2>2. ~file.toEnd
    BY <2>1 DEF OutOfFileCalled, FtypEnds
  <2>3. PICK old \in OffsetsHere(AsRead) : old >= DeclaredEnd
    BY <2>2 DEF OutOfFileCalled
  <2>4. PICK j \in 1..N : old < BoxEnd(j)
    <3>1. InBox(old)
      BY <1>6, <2>3
    <3> QED BY <2>2, <3>1 DEF InBox, RunsToFileEnd
  <2>5. PICK e \in Nat : e = BoxEnd(N)
    BY <1>5
  <2>6. PICK x \in Nat : x = BoxEnd(j)
    BY <1>5
  <2>7. x <= e
    <3>1. CASE j = N
      BY <2>5, <2>6, <3>1
    <3>2. CASE j # N
      <4>1. j < N /\ N \in 1..N
        BY <3>2
      <4>2. x <= BoxStart(N) /\ BoxStart(N) < BoxEnd(N) /\ BoxStart(N) \in Nat
        BY <1>4, <1>5, <2>6, <4>1, BoxesLie
      <4> QED BY <2>5, <4>2
    <3> QED BY <3>1, <3>2
  <2>8. old >= e
    BY <1>4, <2>3, <2>5 DEF DeclaredEnd
  <2>9. old \in Nat
    BY <1>6
  <2> QED BY <2>4, <2>6, <2>7, <2>8, <2>9
<1>8. ~InMovieCalled
  <2> SUFFICES ASSUME InMovieCalled PROVE FALSE
    OBVIOUS
  <2>1. PICK i \in 1..N : Boxes[i].type = "moov" /\
          \E o \in OffsetsHere(AsRead) : o >= BoxStart(i) /\ (o < BoxEnd(i) \/ RunsToFileEnd(i))
    BY <1>4 DEF InMovieCalled
  <2>2. PICK old \in OffsetsHere(AsRead) : old >= BoxStart(i) /\ (old < BoxEnd(i) \/ RunsToFileEnd(i))
    BY <2>1
  <2>3. PICK j \in 1..N : /\ Boxes[j].type # "moov"
                          /\ old >= BoxStart(j)
                          /\ RunsToFileEnd(j) \/ old < BoxEnd(j)
    <3>1. InBox(old)
      BY <1>6, <2>2
    <3> QED BY <3>1 DEF InBox
  <2>4. old \in Nat
    BY <1>6
  <2>5. i # j
    BY <2>1, <2>3
  <2>6. CASE i < j
    <3>1. BoxEnd(i) <= BoxStart(j) /\ ~RunsToFileEnd(i)
      BY <1>4, <1>5, <2>6 DEF RunsToFileEnd
    <3> QED BY <1>5, <2>2, <2>3, <2>4, <3>1
  <2>7. CASE j < i
    <3>1. BoxEnd(j) <= BoxStart(i) /\ ~RunsToFileEnd(j)
      BY <1>4, <1>5, <2>7 DEF RunsToFileEnd
    <3> QED BY <1>5, <2>2, <2>3, <2>4, <3>1
  <2> QED BY <2>5, <2>6, <2>7
<1> QED BY <1>7, <1>8

(* How much of a piece that is output is left, but for one to the end of   *)
(* the file.                                                               *)
LeftOf(p, n) == p # <<>> => RunsToFileEnd(Head(p)) \/ BoxStart(Head(p)) + n < BoxEnd(Head(p))

(* What has failed was called for, and what is laid out calls for nothing  *)
(* that its boxes show.                                                    *)
ClearedAs(failure, ended, p, n) ==
  /\ HasRoom(file) /\ failure \notin {"none", "unwanted"} => failure \in Causes
  /\ ended /\ failure = "none" => Sound /\ LeftOf(p, n)

Cleared == ClearedAs(failed, finished, pieces, passed)

LEMMA SameCleared ==
  ASSUME file' = file, ClearedAs(failed', finished', pieces', passed')
  PROVE  Cleared'
<1>1. Boxes' = Boxes /\ AsRead' = AsRead /\ HasMovie' = HasMovie
  BY DEF Boxes, AsRead, HasMovie
<1>2. Rearranged' = Rearranged
  BY <1>1 DEF Rearranged, MovieStart, OffsetsHere, BoxStart
<1>3. Causes' = Causes
  <2>1. DeclaredEnd' = DeclaredEnd
    BY <1>1 DEF DeclaredEnd, BoxEnd, BoxStart
  <2> QED BY <1>1, <1>2, <2>1 DEF Causes, IsGathered, BoxStart, BoxEnd, RunsToFileEnd
<1>4. Sound' <=> Sound
  BY <1>1 DEF Sound, HeaderFailure, EndFailure, IsGathered, RunsToFileEnd, Duplicate
<1>5. HasRoom(file)' <=> HasRoom(file)
  BY DEF HasRoom
<1>6. LeftOf(pieces', passed') <=> LeftOf(pieces, passed)'
  BY <1>1 DEF LeftOf, RunsToFileEnd, BoxStart, BoxEnd
<1> QED BY <1>3, <1>4, <1>5, <1>6 DEF Cleared, ClearedAs

(* Nothing is output yet of the next piece.                                *)
LEMMA NextWhole ==
  ASSUME file \in Files, file' = file, Inv', finished' = TRUE, failed' = "none", passed' = 0
  PROVE  LeftOf(pieces', passed')
<1>1. Passing'
  BY DEF Inv
<1>2. Places' = Places
  BY SameFile
<1>3. pieces' \in Seq(Places) /\ (pieces' # <<>> => Head(pieces') # 0)
  BY <1>1, <1>2 DEF Passing, Lies
<1>4. PICK p \in Seq(Places) : p = pieces'
  BY <1>3
<1> SUFFICES ASSUME p # <<>> PROVE RunsToFileEnd(Head(p)) \/ BoxStart(Head(p)) + 0 < BoxEnd(Head(p))
  BY <1>4 DEF LeftOf
<1>5. PICK h \in 1..Len(Boxes) : h = Head(p)
  BY <1>3, <1>4, ChosenTail, HeldType
<1>6. BoxStart(h) \in Nat /\ BoxStart(h) < BoxEnd(h)
  BY BoxesLie
<1> QED BY <1>5, <1>6

LEMMA EndFileClears ==
  ASSUME file \in Files, file' = file, Inv', NEW r, EndFile(r),
         HasRoom(file) /\ r.failed # "none" => r.failed \in Causes,
         r.failed = "none" => Sound /\ r.boxes = Len(Boxes) /\ (HasMovie => r.movie = AsRead)
  PROVE  Cleared'
<1>1. finished' = TRUE /\ passed' = 0
  BY DEF EndFile
<1>2. failed' = "none" => LeftOf(pieces', passed')
  BY <1>1, NextWhole
<1>3. CASE r.failed # "none"
  <2>1. failed' = r.failed
    BY <1>3 DEF EndFile, FailAtEnd
  <2> QED BY <1>3, <2>1, SameCleared DEF ClearedAs
<1>4. CASE r.failed = "none" /\ ~HasMovie
  <2>1. DOMAIN Boxes = 1..Len(Boxes)
    BY BoxesLie
  <2>2. failed' = "missing movie"
    BY <1>4, <2>1 DEF EndFile, FailAtEnd, HasMovie
  <2>3. failed' \in Causes
    BY <1>4, <2>2, CausesAre
  <2> QED BY <2>2, <2>3, SameCleared DEF ClearedAs
<1>5. CASE r.failed = "none" /\ HasMovie
  <2>1. DOMAIN Boxes = 1..Len(Boxes)
    BY BoxesLie
  <2>2. \E order \in {Order(Len(Boxes))} :
        \E wide \in {WideAfter(AsRead, order)} :
        \E out \in {LayOut(AsRead, Len(Boxes), order, wide)} : LaidOut(out)
    BY <1>5, <2>1 DEF EndFile, HasMovie
  <2>3. PICK order, wide, out :
          /\ order = Order(Len(Boxes))
          /\ wide = WideAfter(AsRead, order)
          /\ out = LayOut(AsRead, Len(Boxes), order, wide)
          /\ LaidOut(out)
    BY <2>2
  <2>4. failed' = out.failed
    BY <2>3 DEF LaidOut
  <2>5. HasRoom(file) /\ out.failed # "none" => out.failed \in Causes
    BY <1>5, <2>3, LayOutCaused
  <2> QED BY <1>2, <1>5, <2>4, <2>5, SameCleared DEF ClearedAs
<1> QED BY <1>3, <1>4, <1>5

(* A gathered box with a length, its header accepted, is within the limit. *)
LEMMA WithinLimit ==
  ASSUME file \in Files, NEW i \in 1..Len(Boxes), HeaderFailure(i) = "none", IsGathered(i), ~RunsToFileEnd(i)
  PROVE  Boxes[i].bytes <= MovieBytes + 1
<1>1. PICK b \in Nat : b = Boxes[i].bytes
  BY BoxesLie DEF FileBox
<1>2. ~(b - 1 > MovieBytes)
  BY <1>1 DEF HeaderFailure
<1> QED BY ONLY <1>1, <1>2, LimitsAssumption, b \in Nat

(* Accepted, the boxes are sound, but for the length of one to the end.    *)
LEMMA AcceptedSound ==
  ASSUME file \in Files, Accepted(Len(Boxes), FALSE),
         \A i \in 1..Len(Boxes) : IsGathered(i) => ~RunsToFileEnd(i)
  PROVE  Sound
BY WithinLimit DEF Accepted, Sound

(* A box to the end of the file that is gathered ends with `finish` alone. *)
LEMMA EventsEnding ==
  ASSUME file \in Files, Reading, NEW upTo \in Nat, MetFailing(upTo) = {},
         NEW last \in 1..Len(Boxes), NEW reached, Events(upTo) = Read(last, reached, FALSE),
         RunsToFileEnd(last)
  PROVE  ~IsGathered(last)
<1>1. PICK final : final = Max(Met(upTo) \cup {boxes})
  OBVIOUS
<1>2. PICK so \in BOOLEAN :
        so <=> final # 0 /\ IsGathered(final) /\ (RunsToFileEnd(final) \/ upTo < BoxEnd(final))
                         /\ (final = boxes => gathering)
  OBVIOUS
<1>3. PICK far : far = Max({position, upTo})
  OBVIOUS
<1>4. Events(upTo) = Read(final, far, so)
  BY <1>1, <1>2, <1>3 DEF Events, EventsTo, MetFailing, Met
<1>5. PICK no : no = FALSE
  OBVIOUS
<1>6. PICK x : x = Read(final, far, so)
  OBVIOUS
<1>7. x = Read(last, reached, no)
  BY <1>4, <1>5, <1>6
<1>8. x.boxes = final /\ x.gathering = so
  BY <1>6, ReadIs
<1>9. x.boxes = last /\ x.gathering = no
  BY <1>7, ReadIs
<1>10. final = last /\ so = FALSE
  BY <1>5, <1>8, <1>9
<1> SUFFICES ASSUME IsGathered(last) PROVE FALSE
  OBVIOUS
<1>11. last = boxes /\ ~gathering
  BY <1>2, <1>10
<1> QED BY <1>11 DEF Reading

LEMMA StillReading ==
  ASSUME file' = file, finished' = FALSE,
         HasRoom(file) /\ failed' \notin {"none", "unwanted"} => failed' \in Causes
  PROVE  Cleared'
BY SameCleared DEF ClearedAs

LEMMA ReadInputClears ==
  ASSUME Inv, Inv', NEW offset \in Nat, NEW upTo \in Nat, upTo <= file.length, ReadInput(offset, upTo)
  PROVE  Cleared'
<1>1. file \in Files /\ file' = file /\ finished = FALSE /\ Reading
  BY DEF Inv, ReadInput
<1>2. PICK r : /\ r = IF offset > position THEN Failing("unwanted") ELSE Events(upTo)
               /\ IF r.ends THEN EndFile(r)
                  ELSE movie' = r.movie /\ failed' = r.failed /\ UNCHANGED <<finished, pieces, passed, laid>>
  BY DEF ReadInput
<1>3. ASSUME NEW failure, r = Failing(failure) PROVE finished' = FALSE /\ failed' = failure
  <2>1. r.ends = FALSE /\ r.failed = failure
    BY <1>3 DEF Failing
  <2> QED BY <1>1, <1>2, <2>1
<1>4. CASE offset > position
  <2>1. r = Failing("unwanted")
    BY <1>2, <1>4
  <2>2. finished' = FALSE /\ failed' = "unwanted"
    BY <1>3, <2>1
  <2> QED BY <1>1, <2>2, StillReading
<1>5. CASE ~(offset > position) /\ MetFailing(upTo) # {}
  <2>1. PICK i \in MetFailing(upTo) : Events(upTo) = Failing(FailureOf(i, upTo))
    BY <1>1, <1>5, EventsFailing
  <2>2. PICK failure : failure = FailureOf(i, upTo)
    OBVIOUS
  <2>3. finished' = FALSE /\ failed' = failure
    BY <1>2, <1>3, <1>5, <2>1, <2>2
  <2>4. i \in 1..Len(Boxes) /\ FailureOf(i, upTo) # "none"
    BY <1>1, MetAre DEF MetFailing
  <2>5. failure \in Causes
    BY <1>1, <2>2, <2>4, FailureCaused
  <2> QED BY <1>1, <2>3, <2>5, StillReading
<1>6. CASE ~(offset > position) /\ MetFailing(upTo) = {}
  <2>1. PICK last \in 0..Len(Boxes), holds \in BOOLEAN, reached \in Nat :
           /\ Events(upTo) = Read(last, reached, holds)
           /\ Ready(last, reached, holds)
    BY <1>1, <1>6, EventsPassing
  <2>2. r = Read(last, reached, holds)
    BY <1>2, <1>6, <2>1
  <2>3. PICK m : m = IF MovieRead(last, holds) THEN AsRead ELSE <<>>
    OBVIOUS
  <2>4. PICK e \in BOOLEAN : e <=> last # 0 /\ RunsToFileEnd(last) /\ ~holds
    OBVIOUS
  <2>5. r.boxes = last /\ r.failed = "none" /\ r.movie = m /\ (r.ends <=> e)
    BY <2>2, <2>3, <2>4, ReadIs
  <2>6. CASE ~e
    <3>1. failed' = "none" /\ finished' = FALSE
      BY <1>1, <1>2, <2>5, <2>6
    <3> QED BY <1>1, <3>1, StillReading
  <2>7. CASE e
    <3>1. last # 0 /\ RunsToFileEnd(last) /\ holds = FALSE
      BY <2>4, <2>7
    <3>2. Len(Boxes) \in Nat
      BY <1>1, BoxesLie
    <3>3. last \in 1..Len(Boxes)
      BY <3>1, <3>2
    <3>4. last = Len(Boxes)
      BY <1>1, <3>1, <3>3, LastEnds
    <3>5. EndFile(r)
      BY <1>2, <2>5, <2>7
    <3>6. HasMovie => m = AsRead
      BY <1>1, <2>3, <3>1, <3>4, MovieReadWhole
    <3>7. ~IsGathered(last)
      <4>1. Events(upTo) = Read(last, reached, FALSE)
        BY <2>1, <3>1
      <4> QED BY <1>1, <1>6, <3>1, <3>3, <4>1, EventsEnding
    <3>8. Sound
      <4>1. Accepted(Len(Boxes), FALSE)
        BY <2>1, <3>1, <3>4 DEF Ready
      <4>2. \A i \in 1..Len(Boxes) : IsGathered(i) => ~RunsToFileEnd(i)
        BY <3>4, <3>7 DEF RunsToFileEnd
      <4> QED BY <1>1, <4>1, <4>2, AcceptedSound
    <3> QED BY <1>1, <2>5, <3>4, <3>5, <3>6, <3>8, EndFileClears
  <2> QED BY <2>6, <2>7
<1> QED BY <1>4, <1>5, <1>6

(* The boxes end no earlier than one of them.                              *)
LEMMA EndsBefore ==
  ASSUME file \in Files, NEW i \in 1..Len(Boxes)
  PROVE  Boxes # <<>> /\ DeclaredEnd \in Nat /\ BoxEnd(i) \in Nat /\ BoxEnd(i) <= DeclaredEnd
<1>1. PICK N \in Nat : N = Len(Boxes) /\ N # 0 /\ N \in 1..N
  <2>1. Len(Boxes) \in Nat
    BY BoxesLie
  <2> QED BY <2>1
<1>2. BoxEnd(N) \in Nat /\ BoxStart(N) \in Nat /\ BoxStart(N) < BoxEnd(N) /\ BoxEnd(i) \in Nat
  BY <1>1, BoxesLie
<1>3. i = N \/ BoxEnd(i) <= BoxStart(N)
  BY <1>1, BoxesLie
<1>4. Boxes # <<>>
  BY <1>1
<1> QED BY <1>1, <1>2, <1>3, <1>4 DEF DeclaredEnd

LEMMA FinishReadingClears ==
  ASSUME Inv, Inv', FinishReading
  PROVE  Cleared'
<1>1. /\ file \in Files /\ file' = file /\ Reading /\ position >= file.length
  BY DEF Inv, FinishReading
<1>2. PICK r : r = LastEvent /\ EndFile(r)
  BY DEF FinishReading
<1>3. /\ Len(Boxes) \in Nat /\ boxes \in Nat /\ boxes <= Len(Boxes) /\ file.length \in Nat /\ position \in Nat
      /\ gathering \in BOOLEAN
  BY <1>1, BoxesLie DEF Reading
<1>4. CASE ~gathering
  <2>1. r.failed = "none" /\ r.boxes = boxes /\ r.movie = movie
    BY <1>2, <1>4 DEF LastEvent, Failing
  <2>2. boxes = Len(Boxes)
    <3>1. CASE boxes = 0
      <4>1. file.length = 0
        BY <1>1, <1>3, <3>1 DEF Reading, Ready
      <4>2. 1 \notin 1..Len(Boxes)
        <5>1. 1 \in 1..Len(Boxes) => BoxStart(1) < file.length /\ BoxStart(1) = 0
          BY <1>1, BoxesLie
        <5> QED BY <4>1, <5>1
      <4> QED BY <1>3, <3>1, <4>2
    <3>2. CASE boxes # 0
      <4>1. boxes \in 1..Len(Boxes) /\ position = BoxEnd(boxes)
        BY <1>1, <1>3, <1>4, <3>2 DEF Reading
      <4>2. boxes < Len(Boxes) => BoxEnd(boxes) < file.length
        BY <1>1, <4>1, LastEnds
      <4> QED BY <1>1, <1>3, <4>1, <4>2
    <3> QED BY <3>1, <3>2
  <2>3. gathering = FALSE
    BY <1>3, <1>4
  <2>4. HasMovie => movie = AsRead
    BY <1>1, <2>2, <2>3, MovieReadWhole DEF Reading
  <2>5. Sound
    <3>1. Accepted(Len(Boxes), FALSE)
      BY <1>1, <2>2, <2>3 DEF Reading, Ready
    <3>2. \A i \in 1..Len(Boxes) : ~RunsToFileEnd(i)
      <4>1. boxes # 0 => ~RunsToFileEnd(boxes)
        BY <1>1, <2>3 DEF Reading
      <4> QED BY <1>3, <2>2, <4>1 DEF RunsToFileEnd
    <3> QED BY <1>1, <3>1, <3>2, AcceptedSound
  <2> QED BY <1>1, <1>2, <2>1, <2>2, <2>4, <2>5, EndFileClears
<1>5. ASSUME gathering PROVE boxes \in 1..Len(Boxes) /\ IsGathered(boxes)
  BY <1>1, <1>3, <1>5 DEF Reading, Ready
<1>6. CASE gathering /\ ~RunsToFileEnd(boxes)
  <2>1. r.failed = "unfinished"
    BY <1>2, <1>6 DEF LastEvent, Failing
  <2>2. position < BoxEnd(boxes)
    BY <1>1, <1>6 DEF Reading, Ready
  <2>3. file.length < DeclaredEnd /\ Boxes # <<>>
    <3>1. Boxes # <<>> /\ DeclaredEnd \in Nat /\ BoxEnd(boxes) \in Nat /\ BoxEnd(boxes) <= DeclaredEnd
      BY <1>1, <1>5, <1>6, EndsBefore
    <3> QED BY <1>1, <1>3, <2>2, <3>1
  <2>4. r.failed \in Causes
    BY <2>1, <2>3, CausesAre
  <2>5. r.failed # "none"
    BY <2>1
  <2> QED BY <1>1, <1>2, <2>4, <2>5, EndFileClears
<1>7. CASE gathering /\ RunsToFileEnd(boxes) /\ EndFailure(boxes) # "none"
  <2>1. r.failed = EndFailure(boxes)
    BY <1>2, <1>7 DEF LastEvent, Failing
  <2>2. r.failed \in Causes
    BY <1>1, <1>5, <1>7, <2>1, EndFailureCaused
  <2> QED BY <1>1, <1>2, <1>7, <2>1, <2>2, EndFileClears
<1>8. CASE gathering /\ RunsToFileEnd(boxes) /\ EndFailure(boxes) = "none"
  <2>1. PICK no : no = FALSE
    OBVIOUS
  <2>2. r = Read(boxes, position, no)
    BY <1>2, <1>8, <2>1 DEF LastEvent
  <2>3. PICK m : m = IF MovieRead(boxes, no) THEN AsRead ELSE <<>>
    OBVIOUS
  <2>4. r.failed = "none" /\ r.boxes = boxes /\ r.movie = m
    <3>1. PICK x : x = Read(boxes, position, no)
      OBVIOUS
    <3>2. x.failed = "none" /\ x.boxes = boxes /\ x.movie = IF MovieRead(boxes, no) THEN AsRead ELSE <<>>
      BY <3>1, ReadIs
    <3> QED BY <2>2, <2>3, <3>1, <3>2
  <2>5. boxes \in 1..Len(Boxes) /\ boxes = Len(Boxes) /\ IsGathered(boxes)
    BY <1>1, <1>5, <1>8, LastEnds
  <2>6. HasMovie => m = AsRead
    BY <1>1, <2>1, <2>3, <2>5, MovieReadWhole
  <2>7. Sound
    <3> SUFFICES ASSUME NEW i \in 1..Len(Boxes)
                 PROVE  /\ HeaderFailure(i) = "none"
                        /\ IsGathered(i) => EndFailure(i) = "none" /\ Boxes[i].bytes <= MovieBytes + 1
      BY DEF Sound
    <3>1. Accepted(boxes, gathering)
      BY <1>1 DEF Reading, Ready
    <3>2. CASE i # boxes
      <4>1. ~RunsToFileEnd(i)
        BY <2>5, <3>2 DEF RunsToFileEnd
      <4>2. HeaderFailure(i) = "none" /\ (IsGathered(i) => EndFailure(i) = "none")
        BY <2>5, <3>1, <3>2 DEF Accepted
      <4> QED BY <1>1, <4>1, <4>2, WithinLimit
    <3>3. CASE i = boxes
      <4>1. HeaderFailure(i) = "none"
        BY <2>5, <3>1, <3>3 DEF Accepted
      <4>2. position <= HeaderEnd(boxes) + MovieBytes
        BY <1>1, <1>8 DEF Reading, Ready
      <4>3. BoxEnd(i) = file.length
        BY <1>1, <1>8, <3>3, LastEnds
      <4>4. PICK s \in Nat, b \in Nat : s = BoxStart(i) /\ b = Boxes[i].bytes
        BY <1>1, BoxesLie DEF FileBox
      <4>5. s + b <= position /\ position <= s + 1 + MovieBytes
        BY <1>1, <3>3, <4>2, <4>3, <4>4 DEF BoxEnd, HeaderEnd
      <4>6. b <= MovieBytes + 1
        BY ONLY <1>3, <4>5, LimitsAssumption, s \in Nat, b \in Nat
      <4> QED BY <1>8, <3>3, <4>1, <4>4, <4>6
    <3> QED BY <3>2, <3>3
  <2> QED BY <1>1, <1>2, <2>4, <2>5, <2>6, <2>7, EndFileClears
<1> QED BY <1>4, <1>6, <1>7, <1>8

LEMMA PassThroughClears ==
  ASSUME Inv, Inv', Cleared, NEW offset \in Nat, NEW upTo \in Nat, upTo <= file.length,
         PassThrough(offset, upTo)
  PROVE  Cleared'
<1>1. file \in Files /\ file' = file /\ finished' = finished /\ finished /\ finished' = TRUE /\ pieces # <<>>
  BY DEF Inv, PassThrough
<1>2. CASE offset > PassFrom /\ failed' = "unwanted"
  BY <1>1, <1>2, SameCleared DEF ClearedAs
<1>3. CASE ~(offset > PassFrom /\ failed' = "unwanted")
  <2>1. failed = "none" /\ failed' = "none" /\ upTo > PassFrom
    BY <1>3 DEF PassThrough
  <2>2. Sound
    BY <1>1, <2>1 DEF Cleared, ClearedAs
  <2>3. CASE PassedWhole(upTo)
    <3>1. passed' = 0
      BY <1>3, <2>3 DEF PassThrough, NextPiece
    <3>2. LeftOf(pieces', passed')
      BY <1>1, <2>1, <3>1, NextWhole
    <3> QED BY <1>1, <2>1, <2>2, <3>2, SameCleared DEF ClearedAs
  <2>4. CASE ~PassedWhole(upTo)
    <3>1. passed' = passed + (PassTo(upTo) - PassFrom) /\ pieces' = pieces
      BY <1>3, <2>4 DEF PassThrough
    <3>2. PICK L \in Nat : Lies(pieces, passed, laid, L)
      <4>1. Passing
        BY <1>1, <2>1 DEF Inv
      <4> QED BY <4>1 DEF Passing, Lies
    <3>3. PICK h \in 1..Len(Boxes) : h = Head(pieces)
      BY <1>1, <3>2, ChosenTail, HeldType DEF Lies
    <3>4. PICK s \in Nat, e \in Nat, n \in Nat : s = BoxStart(h) /\ e = BoxEnd(h) /\ n = passed
      BY <1>1, <3>2, BoxesLie DEF Lies
    <3>5. RunsToFileEnd(h) \/ upTo < e
      BY <2>4, <3>3, <3>4 DEF PassedWhole
    <3>6. PassTo(upTo) = upTo /\ PassFrom = s + n
      BY <3>3, <3>4, <3>5 DEF PassTo, PassFrom
    <3>7. passed' = n + (upTo - (s + n))
      BY <3>1, <3>4, <3>6
    <3>8. s + passed' = upTo
      BY ONLY <3>7, s \in Nat, n \in Nat, upTo \in Nat
    <3>9. LeftOf(pieces', passed')
      BY <3>1, <3>3, <3>4, <3>5, <3>8 DEF LeftOf
    <3> QED BY <1>1, <2>1, <2>2, <3>9, SameCleared DEF ClearedAs
  <2> QED BY <2>3, <2>4
<1> QED BY <1>2, <1>3

LEMMA FinishPassingClears ==
  ASSUME Inv, Inv', Cleared, FinishPassing
  PROVE  Cleared'
<1>1. /\ file \in Files /\ file' = file /\ finished' = finished /\ finished /\ finished' = TRUE /\ pieces # <<>>
      /\ failed = "none" /\ PassFrom >= file.length
  BY DEF Inv, FinishPassing
<1>2. Sound /\ LeftOf(pieces, passed)
  BY <1>1 DEF Cleared, ClearedAs
<1>3. CASE RunsToFileEnd(Head(pieces))
  <2>1. failed' = "none" /\ passed' = 0
    BY <1>1, <1>3 DEF FinishPassing, NextPiece
  <2>2. LeftOf(pieces', passed')
    BY <1>1, <2>1, NextWhole
  <2> QED BY <1>1, <1>2, <2>1, <2>2, SameCleared DEF ClearedAs
<1>4. CASE ~RunsToFileEnd(Head(pieces))
  <2>1. failed' = "unfinished"
    BY <1>4 DEF FinishPassing
  <2>2. PICK L \in Nat : Lies(pieces, passed, laid, L)
    <3>1. Passing
      BY <1>1 DEF Inv
    <3> QED BY <3>1 DEF Passing, Lies
  <2>3. PICK h \in 1..Len(Boxes) : h = Head(pieces)
    BY <1>1, <2>2, ChosenTail, HeldType DEF Lies
  <2>4. PICK s \in Nat, n \in Nat : s = BoxStart(h) /\ n = passed
    BY <1>1, <2>2, BoxesLie DEF Lies
  <2>5. PICK from \in Nat : from = PassFrom /\ from = s + n
    BY <2>3, <2>4 DEF PassFrom
  <2>6. from < BoxEnd(h)
    BY <1>1, <1>2, <1>4, <2>3, <2>4, <2>5 DEF LeftOf
  <2>7. Boxes # <<>> /\ DeclaredEnd \in Nat /\ BoxEnd(h) \in Nat /\ BoxEnd(h) <= DeclaredEnd
    BY <1>1, EndsBefore
  <2>8. file.length \in Nat
    BY <1>1, BoxesLie
  <2>9. file.length < DeclaredEnd
    BY <1>1, <2>5, <2>6, <2>7, <2>8
  <2>10. failed' \in Causes
    BY <2>1, <2>7, <2>9, CausesAre
  <2> QED BY <1>1, <2>1, <2>10, SameCleared DEF ClearedAs
<1> QED BY <1>3, <1>4

LEMMA ClearedInit ==
  Init => Cleared
BY DEF Init, Cleared, ClearedAs

LEMMA ClearedNext ==
  Inv /\ Inv' /\ Cleared /\ [Next]_vars => Cleared'
<1> SUFFICES ASSUME Inv, Inv', Cleared, [Next]_vars PROVE Cleared'
  OBVIOUS
<1>1. CASE HandleInput
  <2>1. PICK offset \in {0, WantedFrom, WantedFrom + 1} : \E upTo \in offset..file.length :
          ReadInput(offset, upTo) \/ PassThrough(offset, upTo)
    BY <1>1 DEF HandleInput
  <2>2. PICK upTo \in offset..file.length : ReadInput(offset, upTo) \/ PassThrough(offset, upTo)
    BY <2>1
  <2>3. offset \in Nat /\ upTo \in Nat /\ upTo <= file.length
    <3>1. WantedFrom \in Nat
      BY <1>1, WantedIs DEF HandleInput
    <3>2. offset \in Nat
      BY <2>1, <3>1
    <3>3. file.length \in Nat
      BY BoxesLie DEF Inv
    <3> QED BY <2>2, <3>2, <3>3
  <2> QED BY <2>2, <2>3, ReadInputClears, PassThroughClears
<1>2. CASE FinishReading
  BY <1>2, FinishReadingClears
<1>3. CASE FinishPassing
  BY <1>3, FinishPassingClears
<1>4. CASE UNCHANGED vars
  <2>1. file' = file /\ finished' = finished /\ pieces' = pieces /\ passed' = passed /\ failed' = failed
    BY <1>4 DEF vars, layout
  <2> QED BY <2>1, SameCleared DEF Cleared
<1> QED BY <1>1, <1>2, <1>3, <1>4 DEF Next, Finish

(* The file laid out whole, there is nothing to refuse it for.             *)
LEMMA NothingCalled ==
  ASSUME Inv, Cleared, Placeable(file), Done
  PROVE  Causes = {}
<1>1. file \in Files /\ LaidOutSo("none", movie) /\ Passing /\ pieces = <<>> /\ Sound
  BY DEF Inv, Done, Cleared, ClearedAs
<1>2. HasMovie
  BY <1>1 DEF LaidOutSo
<1>3. PICK N \in Nat : N = Len(Boxes) /\ DOMAIN Boxes = 1..N /\ N # 0
  <2>1. Len(Boxes) \in Nat /\ DOMAIN Boxes = 1..Len(Boxes)
    BY <1>1, BoxesLie
  <2>2. Len(Boxes) # 0
    BY <1>2, <2>1 DEF HasMovie
  <2> QED BY <2>1, <2>2
<1>4. N \in 1..Len(Boxes)
  BY <1>3
<1>5. PICK e \in Nat, l \in Nat : e = DeclaredEnd /\ l = file.length
  BY <1>1, <1>4, BoxesLie, EndsBefore
<1>6. ~(l < e)
  <2>1. \A i \in 1..Len(Boxes) : ~Short(i)
    BY <1>1 DEF Passing, Lies, KeepsShort
  <2>2. ~(e > l)
    BY <1>3, <1>4, <1>5, <2>1 DEF Short, DeclaredEnd
  <2> QED BY <2>2
<1>7. "unfinished" \notin Causes
  BY <1>5, <1>6, CausesAre
<1>8. "missing movie" \notin Causes
  BY <1>2, CausesAre
<1>9. "too many boxes" \notin Causes
  <2>1. HeaderFailure(N) = "none"
    BY <1>1, <1>4 DEF Sound
  <2>2. ~(N > BoxCount)
    BY <2>1 DEF HeaderFailure
  <2> QED BY <1>3, <2>2, CausesAre
<1>10. ASSUME NEW i \in DOMAIN Boxes
       PROVE  /\ Boxes[i].type # "moof"
              /\ IsGathered(i) => /\ Boxes[i].reads /\ ~Boxes[i].fragmented
                                  /\ ~LocatesInFile(Boxes[i].items)
                                  /\ ~(Boxes[i].bytes > MovieBytes + 1)
  <2>1. HeaderFailure(i) = "none" /\ (IsGathered(i) => EndFailure(i) = "none" /\ Boxes[i].bytes <= MovieBytes + 1)
    BY <1>1, <1>3 DEF Sound
  <2>2. Boxes[i].type # "moof"
    BY <2>1 DEF HeaderFailure
  <2>3. IsGathered(i) => Boxes[i].reads /\ ~Boxes[i].fragmented /\ ~LocatesInFile(Boxes[i].items)
    BY <2>1 DEF EndFailure
  <2>4. PICK b \in Nat : b = Boxes[i].bytes
    BY <1>1, <1>3, BoxesLie DEF FileBox
  <2>5. b <= MovieBytes + 1 => ~(b > MovieBytes + 1)
    BY LimitsAssumption
  <2> QED BY <2>1, <2>2, <2>3, <2>4, <2>5
<1>11. "fragmented" \notin Causes
  BY <1>10, CausesAre
<1>12. "past limit" \notin Causes
  BY <1>10, CausesAre
<1>13. "unreadable" \notin Causes
  BY <1>10, CausesAre
<1>14. "item locations" \notin Causes
  BY <1>10, CausesAre
<1>15. "duplicate" \notin Causes
  BY <1>1, <1>3, OneMovie, CausesAre
<1>16. ~OutOfFileCalled /\ ~InMovieCalled
  <2>1. CASE ~Rearranged
    BY <2>1 DEF OutOfFileCalled, InMovieCalled
  <2>2. CASE Rearranged
    <3>1. PICK wide : Settles(wide) /\ FollowsMoves(wide, movie)
      BY <1>1, <2>2 DEF LaidOutSo
    <3>2. ~FtypEnds
      <4>1. file.boxes # <<>>
        BY <1>1, <1>4, EndsBefore DEF Boxes
      <4> QED BY <4>1 DEF Placeable, FtypEnds, Boxes
    <3> QED BY <1>1, <2>2, <3>1, <3>2, NoneCalled
  <2> QED BY <2>1, <2>2
<1>17. "offset out of file" \notin Causes /\ "offset in movie" \notin Causes
  BY <1>16, CausesAre
<1> SUFFICES ASSUME NEW cause \in Causes PROVE FALSE
  OBVIOUS
<1> QED BY <1>7, <1>8, <1>9, <1>11, <1>12, <1>13, <1>14, <1>15, <1>17, CausesOnly

(* A file is refused for what it has wrong only, and laid out whole where  *)
(* it has nothing wrong: of any file with room to be laid out again, its   *)
(* boxes and its offsets, however its input is cut.                        *)
THEOREM RefusedRightly == Spec => [](Placeable(file) /\ HasRoom(file) => RefusedForCause)
<1>1. Spec => []Inv
  BY InvariantHolds
<1>2. Spec => []Cleared
  <2>1. Inv /\ Inv' /\ Cleared /\ [Next]_vars => Cleared'
    BY ClearedNext
  <2>2. Init => Cleared
    BY ClearedInit
  <2> QED BY <1>1, <2>1, <2>2, PTL DEF Spec
<1>3. Inv /\ Cleared => (Placeable(file) /\ HasRoom(file) => RefusedForCause)
  BY NothingCalled DEF Cleared, ClearedAs, RefusedForCause
<1> QED BY <1>1, <1>2, <1>3, PTL
================================================================================
