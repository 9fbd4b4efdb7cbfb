------------------------- MODULE MediaDataReaderProofs -------------------------
(***************************************************************************)
(* For every limit, every file and every script of calls: the reader keeps *)
(* within its limits, knows which bytes it lacks, never stalls unnoticed,  *)
(* and implements the queue of SampleQueue.                                *)
(***************************************************************************)
EXTENDS MediaDataReader, SequenceLemmas

(* What a held sample is: of its bytes it lacks those that are blank, in   *)
(* runs that lie in order and apart, and the others are in their places.   *)
Held == [location : Location, data : Seq(0..MaxPosition \cup {Blank}), missing : Seq(Range64)]

Bytes(run) == run.start..run.end - 1

Lacking(runs) == UNION {Bytes(runs[i]) : i \in DOMAIN runs}

Apart(runs) ==
  /\ \A i \in DOMAIN runs : runs[i].start < runs[i].end
  /\ \A i \in 2..Len(runs) : runs[i - 1].end < runs[i].start

Blanks(sample) ==
  {sample.location.start + k - 1 :
     k \in {n \in 1..Extent(sample.location) : sample.data = <<>> \/ sample.data[n] = Blank}}

InPlace(sample) ==
  \/ sample.data = <<>>
  \/ /\ DOMAIN sample.data = 1..Extent(sample.location)
     /\ \A k \in DOMAIN sample.data : sample.data[k] \in {Blank, sample.location.start + k - 1}

SampleOK(sample) ==
  /\ sample \in Held
  /\ Apart(sample.missing)
  /\ Lacking(sample.missing) = Blanks(sample)
  /\ InPlace(sample)

TypeOK ==
  /\ toHand \in Seq(Seq(Location))
  /\ held \in Seq(Held)
  /\ discarded \subseteq Tracks
  /\ taken \in Seq(Sample)
  /\ result \in {"ok", "past limit", "full"}

IInv ==
  /\ TypeOK
  /\ \A i \in DOMAIN held : SampleOK(held[i])
  /\ Len(held) <= HeldLocationCount
  /\ Allocated(held) <= HeldBytes
-------------------------------------------------------------------------------
LEMMA MaxOfTwo ==
  ASSUME NEW a \in Int, NEW b \in Int
  PROVE  /\ Max({a, b}) = IF a >= b THEN a ELSE b
         /\ Min({a, b}) = IF a <= b THEN a ELSE b
         /\ Queue!Max({a, b}) = IF a >= b THEN a ELSE b
  BY DEF Max, Min, Queue!Max

(* Both modules pick the same elements.                                    *)
LEMMA SamePicked ==
  ASSUME NEW seq, NEW places
  PROVE  Queue!Picked(seq, places) = Picked(seq, places)
  BY Zenon DEF Queue!Picked, Picked, Queue!Nth, Nth, Queue!Cardinality, Cardinality,
               Queue!IsFiniteSet, IsFiniteSet

LEMMA LocationIs ==
  ASSUME NEW location \in Location
  PROVE  /\ location.start \in 0..MaxPosition
         /\ location.end \in 0..MaxPosition
         /\ location.track \in Tracks
  BY DEF Location, Queue!Location

LEMMA ExtentIs ==
  ASSUME NEW location \in Location
  PROVE  /\ Extent(location) \in Nat
         /\ location.end >= location.start => Extent(location) = location.end - location.start
         /\ location.end <= location.start => Extent(location) = 0
<1>1. location.end \in Int /\ location.start \in Int
  BY LocationIs, ReaderAssumption
<1>2. location.end - location.start \in Int /\ 0 \in Int
  BY <1>1
<1>3. Extent(location) = Queue!Max({location.end - location.start, 0})
  BY DEF Extent, Queue!Extent
<1>4. Queue!Max({location.end - location.start, 0})
        = IF location.end - location.start >= 0 THEN location.end - location.start ELSE 0
  BY <1>2, MaxOfTwo
<1> QED BY <1>1, <1>3, <1>4

(* The bytes that a list of runs names are those one of its runs names.    *)
LEMMA LackingIs ==
  ASSUME NEW runs, NEW byte
  PROVE  byte \in Lacking(runs) <=> \E i \in DOMAIN runs : byte \in Bytes(runs[i])
  BY DEF Lacking

LEMMA RunOfIs ==
  ASSUME NEW start \in 0..MaxPosition, NEW end \in 0..MaxPosition
  PROVE  /\ RunOf(start, end) \in Seq(Range64)
         /\ Apart(RunOf(start, end))
         /\ Lacking(RunOf(start, end)) = start..end - 1
         /\ \A i \in DOMAIN RunOf(start, end) : /\ RunOf(start, end)[i].start = start
                                                /\ RunOf(start, end)[i].end = end
<1>0. start \in Int /\ end \in Int
  BY ReaderAssumption
<1>1. CASE start < end
  <2> DEFINE run == [start |-> start, end |-> end]
  <2>1. RunOf(start, end) = <<run>> /\ run.start = start /\ run.end = end
    BY <1>1 DEF RunOf
  <2>2. run \in Range64
    BY DEF Range64
  <2> HIDE DEF run
  <2>3. <<run>> \in Seq(Range64) /\ DOMAIN <<run>> = {1} /\ <<run>>[1] = run /\ Len(<<run>>) = 1
    BY <2>2
  <2>4. Apart(<<run>>)
    BY <2>1, <2>3, <1>1 DEF Apart
  <2>5. Lacking(<<run>>) = Bytes(run)
    BY <2>3 DEF Lacking
  <2> QED BY <2>1, <2>3, <2>4, <2>5 DEF Bytes
<1>2. CASE ~(start < end)
  <2>1. RunOf(start, end) = <<>>
    BY <1>2 DEF RunOf
  <2>2. <<>> \in Seq(Range64) /\ DOMAIN <<>> = {} /\ Len(<<>>) = 0
    OBVIOUS
  <2>3. Apart(<<>>) /\ Lacking(<<>>) = {}
    BY <2>2 DEF Apart, Lacking
  <2>4. start..end - 1 = {}
    BY <1>0, <1>2
  <2> QED BY <2>1, <2>2, <2>3, <2>4
<1> QED BY <1>1, <1>2

(* Runs that lie in order and apart, and behind them others that do and    *)
(* begin after the end of the last, do together.                           *)
LEMMA ApartConcat ==
  ASSUME NEW s \in Seq(Range64), NEW t \in Seq(Range64), Apart(s), Apart(t),
         \A i \in DOMAIN s, j \in DOMAIN t : s[i].end < t[j].start
  PROVE  /\ s \o t \in Seq(Range64)
         /\ Apart(s \o t)
         /\ Lacking(s \o t) = Lacking(s) \cup Lacking(t)
<1>1. /\ s \o t \in Seq(Range64)
      /\ Len(s) \in Nat /\ Len(t) \in Nat
      /\ DOMAIN s = 1..Len(s) /\ DOMAIN t = 1..Len(t)
      /\ Len(s \o t) = Len(s) + Len(t)
      /\ DOMAIN (s \o t) = 1..Len(s) + Len(t)
      /\ \A i \in 1..Len(s) + Len(t) :
           (s \o t)[i] = IF i <= Len(s) THEN s[i] ELSE t[i - Len(s)]
  OBVIOUS
<1>2. ASSUME NEW i \in DOMAIN (s \o t)
      PROVE  (s \o t)[i].start < (s \o t)[i].end
  <2>1. CASE i <= Len(s)
    BY <1>1, <2>1 DEF Apart
  <2>2. CASE ~(i <= Len(s))
    <3>1. i - Len(s) \in DOMAIN t /\ (s \o t)[i] = t[i - Len(s)]
      BY <1>1, <2>2
    <3> QED BY <3>1 DEF Apart
  <2> QED BY <2>1, <2>2
<1>3. ASSUME NEW i \in 2..Len(s \o t)
      PROVE  (s \o t)[i - 1].end < (s \o t)[i].start
  <2>1. CASE i <= Len(s)
    <3>1. i \in 2..Len(s) /\ (s \o t)[i] = s[i] /\ (s \o t)[i - 1] = s[i - 1]
      BY <1>1, <2>1
    <3> QED BY <3>1 DEF Apart
  <2>2. CASE i = Len(s) + 1
    <3>1. /\ i - 1 \in DOMAIN s /\ (s \o t)[i - 1] = s[i - 1]
          /\ 1 \in DOMAIN t /\ (s \o t)[i] = t[1]
      BY <1>1, <2>2
    <3> QED BY <3>1
  <2>3. CASE i > Len(s) + 1
    <3>1. /\ i - Len(s) \in 2..Len(t) /\ (s \o t)[i] = t[i - Len(s)]
          /\ (s \o t)[i - 1] = t[(i - Len(s)) - 1]
      BY <1>1, <2>3
    <3> QED BY <3>1 DEF Apart
  <2> QED BY <1>1, <2>1, <2>2, <2>3
<1>4. ASSUME NEW byte
      PROVE  byte \in Lacking(s \o t) <=> byte \in Lacking(s) \/ byte \in Lacking(t)
  <2>1. ASSUME NEW i \in DOMAIN (s \o t), byte \in Bytes((s \o t)[i])
        PROVE  byte \in Lacking(s) \/ byte \in Lacking(t)
    <3>1. CASE i <= Len(s)
      <4>1. i \in DOMAIN s /\ (s \o t)[i] = s[i]
        BY <1>1, <3>1
      <4> QED BY <2>1, <4>1, LackingIs
    <3>2. CASE ~(i <= Len(s))
      <4>1. i - Len(s) \in DOMAIN t /\ (s \o t)[i] = t[i - Len(s)]
        BY <1>1, <3>2
      <4> QED BY <2>1, <4>1, LackingIs
    <3> QED BY <3>1, <3>2
  <2>2. ASSUME NEW i \in DOMAIN s, byte \in Bytes(s[i])
        PROVE  byte \in Lacking(s \o t)
    <3>1. i \in DOMAIN (s \o t) /\ (s \o t)[i] = s[i]
      BY <1>1
    <3> QED BY <2>2, <3>1, LackingIs
  <2>3. ASSUME NEW i \in DOMAIN t, byte \in Bytes(t[i])
        PROVE  byte \in Lacking(s \o t)
    <3>1. i + Len(s) \in DOMAIN (s \o t) /\ (s \o t)[i + Len(s)] = t[i]
      BY <1>1
    <3> QED BY <2>3, <3>1, LackingIs
  <2> QED BY <2>1, <2>2, <2>3, LackingIs
<1> QED BY <1>1, <1>2, <1>3, <1>4 DEF Apart

LEMMA InputIs ==
  ASSUME NEW input \in Inputs
  PROVE  /\ input.start \in 0..MaxPosition /\ input.end \in 0..MaxPosition
         /\ input.start \in Nat /\ input.end \in Nat
         /\ input.start <= input.end
<1>1. input \in [start : 0..FileLength, end : 0..FileLength] /\ input.start <= input.end
  BY DEF Inputs
<1>2. input.start \in 0..FileLength /\ input.end \in 0..FileLength
  BY <1>1
<1>3. FileLength \in Nat /\ FileLength <= MaxPosition /\ MaxPosition \in Nat
  BY ReaderAssumption
<1> QED BY <1>1, <1>2, <1>3

LEMMA RangeIs ==
  ASSUME NEW run \in Range64
  PROVE  /\ run.start \in 0..MaxPosition /\ run.end \in 0..MaxPosition
         /\ run.start \in Nat /\ run.end \in Nat
<1>1. run.start \in 0..MaxPosition /\ run.end \in 0..MaxPosition
  BY DEF Range64
<1> QED BY <1>1, ReaderAssumption

(* What the input leaves of a run are the bytes of it that it does not     *)
(* bring, in runs in order and apart, within the one they are left of.     *)
LEMMA LeftOfIs ==
  ASSUME NEW run \in Range64, run.start < run.end, NEW input \in Inputs
  PROVE  /\ LeftOf(run, input) \in Seq(Range64)
         /\ Apart(LeftOf(run, input))
         /\ Lacking(LeftOf(run, input)) = Bytes(run) \ Bytes(input)
         /\ \A i \in DOMAIN LeftOf(run, input) : /\ run.start <= LeftOf(run, input)[i].start
                                                 /\ LeftOf(run, input)[i].end <= run.end
         /\ Overlap(run, input) = Bytes(run) \cap Bytes(input)
<1> DEFINE start == Max({run.start, input.start})
           end == Min({run.end, input.end})
<1>1. /\ run.start \in Nat /\ run.end \in Nat /\ input.start \in Nat /\ input.end \in Nat
      /\ run.start <= MaxPosition /\ run.end <= MaxPosition /\ MaxPosition \in Nat
      /\ input.start <= input.end /\ input.start <= MaxPosition /\ input.end <= MaxPosition
  BY InputIs, RangeIs, ReaderAssumption
<1>2. /\ start = IF run.start >= input.start THEN run.start ELSE input.start
      /\ end = IF run.end <= input.end THEN run.end ELSE input.end
  BY <1>1, MaxOfTwo
<1> HIDE DEF start, end
<1>3. /\ start \in 0..MaxPosition /\ end \in 0..MaxPosition
      /\ run.start \in 0..MaxPosition /\ run.end \in 0..MaxPosition
      /\ start \in Nat /\ end \in Nat
      /\ run.start <= start /\ end <= run.end
  BY <1>1, <1>2
<1>4. start..end - 1 = Bytes(run) \cap Bytes(input)
  BY <1>1, <1>2, <1>3 DEF Bytes
<1>5. Overlap(run, input) = Bytes(run) \cap Bytes(input)
  BY <1>4 DEF Overlap, start, end
<1>6. CASE start >= end
  <2>1. LeftOf(run, input) = <<run>>
    BY <1>6 DEF LeftOf, start, end
  <2>2. <<run>> \in Seq(Range64) /\ DOMAIN <<run>> = {1} /\ <<run>>[1] = run /\ Len(<<run>>) = 1
    OBVIOUS
  <2>3. Apart(<<run>>) /\ Lacking(<<run>>) = Bytes(run)
    BY <2>2 DEF Apart, Lacking
  <2>4. start..end - 1 = {}
    BY <1>3, <1>6
  <2>5. Bytes(run) = Bytes(run) \ Bytes(input)
    BY <2>4, <1>4
  <2>6. run.start <= run.start /\ run.end <= run.end
    BY <1>1
  <2> QED BY <2>1, <2>2, <2>3, <2>5, <2>6, <1>5
<1>7. CASE ~(start >= end)
  <2> DEFINE before == RunOf(run.start, start)
             behind == RunOf(end, run.end)
  <2>1. LeftOf(run, input) = before \o behind
    BY <1>7 DEF LeftOf, start, end
  <2>2. /\ before \in Seq(Range64) /\ Apart(before) /\ Lacking(before) = run.start..start - 1
        /\ \A i \in DOMAIN before : before[i].start = run.start /\ before[i].end = start
        /\ behind \in Seq(Range64) /\ Apart(behind) /\ Lacking(behind) = end..run.end - 1
        /\ \A i \in DOMAIN behind : behind[i].start = end /\ behind[i].end = run.end
    BY <1>3, RunOfIs
  <2> HIDE DEF before, behind
  <2>3. \A i \in DOMAIN before, j \in DOMAIN behind : before[i].end < behind[j].start
    BY <2>2, <1>3, <1>7
  <2>4. /\ before \o behind \in Seq(Range64)
        /\ Apart(before \o behind)
        /\ Lacking(before \o behind) = Lacking(before) \cup Lacking(behind)
    BY <2>2, <2>3, ApartConcat
  <2>5. (run.start..start - 1) \cup (end..run.end - 1) = Bytes(run) \ (start..end - 1)
    BY <1>1, <1>3, <1>7 DEF Bytes
  <2>6. Bytes(run) \ (start..end - 1) = Bytes(run) \ Bytes(input)
    BY <1>4
  <2>7. ASSUME NEW i \in DOMAIN (before \o behind)
        PROVE  run.start <= (before \o behind)[i].start /\ (before \o behind)[i].end <= run.end
    <3>1. \/ \E j \in DOMAIN before : (before \o behind)[i] = before[j]
          \/ \E j \in DOMAIN behind : (before \o behind)[i] = behind[j]
      BY <2>2, ConcatElements
    <3> QED BY <3>1, <2>2, <1>1, <1>3, <1>7, SMTT(60)
  <2> QED BY <2>1, <2>2, <2>4, <2>5, <2>6, <2>7, <1>5
<1> QED BY <1>6, <1>7

LackingUpTo(runs, n) == UNION {Bytes(runs[i]) : i \in 1..n}

LEMMA LackingGrows ==
  ASSUME NEW runs, NEW n \in Nat
  PROVE  LackingUpTo(runs, n + 1) = LackingUpTo(runs, n) \cup Bytes(runs[n + 1])
<1>1. 1..n + 1 = (1..n) \cup {n + 1}
  OBVIOUS
<1> QED BY <1>1 DEF LackingUpTo

(* One more run left behind those left of the runs before it.              *)
LEMMA LeftOfOneMore ==
  ASSUME NEW s \in Seq(Range64), NEW t \in Seq(Range64), NEW last \in Range64, NEW run \in Range64,
         Apart(s), \A i \in DOMAIN s : s[i].end <= last.end,
         last.end < run.start, run.start < run.end,
         Apart(t), \A j \in DOMAIN t : run.start <= t[j].start /\ t[j].end <= run.end
  PROVE  /\ s \o t \in Seq(Range64)
         /\ Apart(s \o t)
         /\ Lacking(s \o t) = Lacking(s) \cup Lacking(t)
         /\ \A k \in DOMAIN (s \o t) : (s \o t)[k].end <= run.end
<1>1. last.end \in Nat /\ run.start \in Nat /\ run.end \in Nat
  BY RangeIs
<1>2. ASSUME NEW i \in DOMAIN s
      PROVE  s[i].end \in Nat /\ s[i].end <= last.end
  <2>1. s[i] \in Range64
    OBVIOUS
  <2> QED BY <2>1, RangeIs
<1>3. ASSUME NEW j \in DOMAIN t
      PROVE  t[j].start \in Nat /\ run.start <= t[j].start /\ t[j].end <= run.end
  <2>1. t[j] \in Range64
    OBVIOUS
  <2> QED BY <2>1, RangeIs
<1>4. \A i \in DOMAIN s, j \in DOMAIN t : s[i].end < t[j].start
  BY <1>1, <1>2, <1>3
<1>5. \A k \in DOMAIN (s \o t) : (s \o t)[k].end <= run.end
  BY <1>1, <1>2, <1>3, ConcatElements
<1> QED BY <1>4, <1>5, ApartConcat

(* What the input leaves of all the runs of a sample.                      *)
LEMMA LeftOfAll ==
  ASSUME NEW runs \in Seq(Range64), Apart(runs), NEW input \in Inputs
  PROVE  LET all == FlattenSeq([i \in DOMAIN runs |-> LeftOf(runs[i], input)])
         IN  /\ all \in Seq(Range64)
             /\ Apart(all)
             /\ Lacking(all) = Lacking(runs) \ Bytes(input)
<1> DEFINE left == [i \in DOMAIN runs |-> LeftOf(runs[i], input)]
<1>1. Len(runs) \in Nat /\ DOMAIN runs = 1..Len(runs) /\ \A i \in DOMAIN runs : runs[i] \in Range64
  OBVIOUS
<1>2. \A i \in DOMAIN runs :
        /\ left[i] = LeftOf(runs[i], input)
        /\ left[i] \in Seq(Range64)
        /\ Apart(left[i])
        /\ Lacking(left[i]) = Bytes(runs[i]) \ Bytes(input)
        /\ \A k \in DOMAIN left[i] : runs[i].start <= left[i][k].start /\ left[i][k].end <= runs[i].end
  <2> SUFFICES ASSUME NEW i \in DOMAIN runs
               PROVE  /\ left[i] = LeftOf(runs[i], input)
                      /\ left[i] \in Seq(Range64)
                      /\ Apart(left[i])
                      /\ Lacking(left[i]) = Bytes(runs[i]) \ Bytes(input)
                      /\ \A k \in DOMAIN left[i] : /\ runs[i].start <= left[i][k].start
                                                    /\ left[i][k].end <= runs[i].end
    BY Zenon
  <2>1. runs[i] \in Range64 /\ runs[i].start < runs[i].end
    BY <1>1 DEF Apart
  <2>2. left[i] = LeftOf(runs[i], input)
    OBVIOUS
  <2> HIDE DEF left
  <2> QED BY <2>1, <2>2, LeftOfIs
<1>3. left \in Seq(Seq(Range64)) /\ Len(left) = Len(runs)
  <2>1. left \in [1..Len(runs) -> Seq(Range64)]
    BY <1>1, <1>2
  <2> QED BY <2>1, <1>1
<1> HIDE DEF left
<1>4. CASE runs = <<>>
  <2>1. Len(runs) = 0 /\ Len(left) = 0 /\ left = <<>>
    BY <1>3, <1>4, EmptySeq
  <2>2. FlattenSeq(left) = <<>>
    BY <2>1 DEF FlattenSeq
  <2>3. Apart(<<>>) /\ Lacking(<<>>) = {} /\ <<>> \in Seq(Range64)
    BY DEF Apart, Lacking
  <2> QED BY <2>2, <2>3, <1>4 DEF left
<1>5. CASE runs # <<>>
  <2>1. Len(runs) # 0 /\ left # <<>>
    BY <1>1, <1>3, <1>5, EmptySeq
  <2>2. PICK f \in [1..Len(left) -> Seq(Range64)] :
          Joins(left, f, Len(left)) /\ FlattenSeq(left) = f[Len(left)]
    BY <1>3, <2>1, FlattenSteps
  <2> DEFINE Good(n) == /\ Apart(f[n])
                        /\ Lacking(f[n]) = LackingUpTo(runs, n) \ Bytes(input)
                        /\ \A k \in DOMAIN f[n] : f[n][k].end <= runs[n].end
             T == {n \in Nat : n \in 1..Len(runs) => Good(n)}
  <2>3. 0 \in T
    OBVIOUS
  <2>4. ASSUME NEW n \in Nat, n \in T PROVE n + 1 \in T
    <3> SUFFICES ASSUME n + 1 \in 1..Len(runs) PROVE Good(n + 1)
      OBVIOUS
    <3>1. n + 1 \in DOMAIN runs /\ n + 1 \in 1..Len(left) /\ Len(left) \in Nat
      BY <1>1, <1>3
    <3>2. /\ left[n + 1] \in Seq(Range64)
          /\ Apart(left[n + 1])
          /\ Lacking(left[n + 1]) = Bytes(runs[n + 1]) \ Bytes(input)
          /\ \A k \in DOMAIN left[n + 1] : /\ runs[n + 1].start <= left[n + 1][k].start
                                           /\ left[n + 1][k].end <= runs[n + 1].end
      BY <1>2, <3>1
    <3>3. /\ n = 0 => f[n + 1] = left[n + 1]
          /\ n # 0 => n \in 1..Len(left) /\ f[n + 1] = f[n] \o left[n + 1]
      BY <2>2, <3>1, JoinsSteps
    <3>4. CASE n = 0
      <4>1. f[n + 1] = left[n + 1]
        BY <3>3, <3>4
      <4>2. LackingUpTo(runs, n + 1) = Bytes(runs[n + 1])
        <5>1. 1..n = {}
          BY <3>4
        <5>2. LackingUpTo(runs, n) = {}
          BY <5>1 DEF LackingUpTo
        <5>3. LackingUpTo(runs, n + 1) = LackingUpTo(runs, n) \cup Bytes(runs[n + 1])
          BY LackingGrows
        <5> QED BY <5>2, <5>3
      <4> QED BY <3>2, <4>1, <4>2
    <3>5. CASE n # 0
      <4>1. f[n + 1] = f[n] \o left[n + 1] /\ n \in 1..Len(runs) /\ f[n] \in Seq(Range64)
        BY <3>1, <3>3, <3>5, <1>3
      <4>2. Good(n)
        BY <2>4, <4>1
      <4>3. runs[n].end < runs[n + 1].start /\ runs[n + 1].start < runs[n + 1].end
        <5>1. n + 1 \in 2..Len(runs)
          BY <3>5, <3>1, <1>1
        <5> QED BY <5>1, <3>1 DEF Apart
      <4>4. runs[n] \in Range64 /\ runs[n + 1] \in Range64
        BY <1>1, <3>1, <4>1
      <4>5. /\ Apart(f[n] \o left[n + 1])
            /\ Lacking(f[n] \o left[n + 1]) = Lacking(f[n]) \cup Lacking(left[n + 1])
            /\ \A k \in DOMAIN (f[n] \o left[n + 1]) : (f[n] \o left[n + 1])[k].end <= runs[n + 1].end
        BY <4>1, <4>2, <4>3, <4>4, <3>2, LeftOfOneMore, ZenonT(60)
      <4>6. Lacking(f[n + 1]) = LackingUpTo(runs, n + 1) \ Bytes(input)
        BY <4>1, <4>2, <4>5, <3>2, LackingGrows
      <4> QED BY <4>1, <4>5, <4>6
    <3> QED BY <3>4, <3>5
  <2>5. \A n \in Nat : n \in T
    <3> HIDE DEF T
    <3> QED BY <2>3, <2>4, SetInduction
  <2>6. Good(Len(runs)) /\ f[Len(runs)] \in Seq(Range64)
    <3>1. Len(runs) \in 1..Len(runs)
      BY <1>1, <2>1
    <3> QED BY <3>1, <2>5, <1>1, <1>3
  <2>7. LackingUpTo(runs, Len(runs)) = Lacking(runs)
    BY <1>1 DEF LackingUpTo, Lacking
  <2> QED BY <2>2, <2>6, <2>7, <1>3 DEF left
<1> QED BY <1>4, <1>5
-------------------------------------------------------------------------------
Arrived(sample, input) == Lacking(sample.missing) \cap Bytes(input)

LEMMA ArrivedIs ==
  ASSUME NEW sample, SampleOK(sample), NEW input \in Inputs
  PROVE  /\ UNION {Overlap(sample.missing[i], input) : i \in DOMAIN sample.missing} = Arrived(sample, input)
         /\ Arrived(sample, input) \subseteq 0..MaxPosition
<1>1. sample.missing \in Seq(Range64) /\ Apart(sample.missing)
  BY DEF SampleOK, Held
<1>2. \A i \in DOMAIN sample.missing :
        /\ sample.missing[i] \in Range64
        /\ sample.missing[i].start < sample.missing[i].end
  BY <1>1 DEF Apart
<1>3. \A i \in DOMAIN sample.missing :
        Overlap(sample.missing[i], input) = Bytes(sample.missing[i]) \cap Bytes(input)
  BY <1>2, LeftOfIs
<1>4. UNION {Overlap(sample.missing[i], input) : i \in DOMAIN sample.missing}
        = UNION {Bytes(sample.missing[i]) \cap Bytes(input) : i \in DOMAIN sample.missing}
  BY <1>3
<1>5. UNION {Bytes(sample.missing[i]) \cap Bytes(input) : i \in DOMAIN sample.missing}
        = Arrived(sample, input)
  BY DEF Arrived, Lacking
<1>6. \A i \in DOMAIN sample.missing : Bytes(sample.missing[i]) \subseteq 0..MaxPosition
  <2> SUFFICES ASSUME NEW i \in DOMAIN sample.missing
               PROVE  Bytes(sample.missing[i]) \subseteq 0..MaxPosition
    OBVIOUS
  <2>1. /\ sample.missing[i].start \in 0..MaxPosition /\ sample.missing[i].end \in 0..MaxPosition
        /\ sample.missing[i].start \in Nat /\ sample.missing[i].end \in Nat
    BY <1>2, RangeIs
  <2> QED BY <2>1, ReaderAssumption DEF Bytes
<1>7. Arrived(sample, input) \subseteq 0..MaxPosition
  BY <1>6 DEF Arrived, Lacking
<1> QED BY <1>4, <1>5, <1>7

(* The data that is filled: allocated blank unless it is there.            *)
Filling(sample) == IF sample.data # <<>> THEN sample.data ELSE Allocation(sample.location)

LEMMA FillingIs ==
  ASSUME NEW sample, SampleOK(sample)
  PROVE  /\ Extent(sample.location) \in Nat
         /\ sample.location.start \in Nat
         /\ DOMAIN Filling(sample) = 1..Extent(sample.location)
         /\ \A k \in 1..Extent(sample.location) :
              /\ Filling(sample)[k] \in {Blank, sample.location.start + k - 1}
              /\ Filling(sample)[k] = Blank <=> sample.data = <<>> \/ sample.data[k] = Blank
              /\ Filling(sample)[k] \in 0..MaxPosition \cup {Blank}
<1>1. sample.location \in Location /\ sample.data \in Seq(0..MaxPosition \cup {Blank})
  BY DEF SampleOK, Held
<1>2. Extent(sample.location) \in Nat /\ sample.location.start \in Nat
  BY <1>1, ExtentIs, LocationIs, ReaderAssumption
<1>3. CASE sample.data = <<>>
  <2>1. Filling(sample) = [i \in 1..Extent(sample.location) |-> Blank]
    BY <1>3 DEF Filling, Allocation
  <2> QED BY <2>1, <1>2, <1>3
<1>4. CASE sample.data # <<>>
  <2>1. Filling(sample) = sample.data
    BY <1>4 DEF Filling
  <2>2. /\ DOMAIN sample.data = 1..Extent(sample.location)
        /\ \A k \in DOMAIN sample.data : sample.data[k] \in {Blank, sample.location.start + k - 1}
    BY <1>4 DEF SampleOK, InPlace
  <2>3. \A k \in DOMAIN sample.data : sample.data[k] \in 0..MaxPosition \cup {Blank}
    BY <1>1
  <2> QED BY <2>1, <2>2, <2>3, <1>2, <1>4
<1> QED BY <1>3, <1>4

(* Filling a sample takes the bytes of the input that it lacked, each into *)
(* its place, and leaves it lacking the others.                            *)
LEMMA FillIs ==
  ASSUME NEW sample, SampleOK(sample), NEW input \in Inputs
  PROVE  /\ SampleOK(Fill(sample, input))
         /\ Fill(sample, input).location = sample.location
         /\ Lacking(Fill(sample, input).missing) = Lacking(sample.missing) \ Bytes(input)
         /\ sample.data # <<>> => DOMAIN Fill(sample, input).data = DOMAIN sample.data
         /\ DOMAIN Fill(sample, input).data \subseteq 1..Extent(sample.location)
<1> DEFINE arrived == Arrived(sample, input)
           start == sample.location.start
           extent == Extent(sample.location)
<1>1. /\ sample \in Held /\ sample.location \in Location
      /\ sample.missing \in Seq(Range64) /\ Apart(sample.missing)
      /\ Lacking(sample.missing) = Blanks(sample)
      /\ sample.data \in Seq(0..MaxPosition \cup {Blank})
  BY DEF SampleOK, Held
<1>2. /\ extent \in Nat /\ start \in Nat
      /\ DOMAIN Filling(sample) = 1..extent
      /\ \A k \in 1..extent : /\ Filling(sample)[k] \in {Blank, start + k - 1}
                              /\ Filling(sample)[k] = Blank <=> sample.data = <<>> \/ sample.data[k] = Blank
                              /\ Filling(sample)[k] \in 0..MaxPosition \cup {Blank}
  BY FillingIs
<1>3. arrived \subseteq 0..MaxPosition /\ arrived = Blanks(sample) \cap Bytes(input)
  BY <1>1, ArrivedIs DEF Arrived
<1>4. sample.data # <<>> => DOMAIN sample.data = 1..extent
  BY DEF SampleOK, InPlace
<1>5. sample.data = <<>> => DOMAIN sample.data = {}
  OBVIOUS
<1>6. CASE arrived = {}
  <2>1. Fill(sample, input) = sample
    BY <1>6, ArrivedIs DEF Fill
  <2>2. Lacking(sample.missing) = Lacking(sample.missing) \ Bytes(input)
    BY <1>6 DEF Arrived
  <2> QED BY <2>1, <2>2, <1>4, <1>5
<1>7. CASE arrived # {}
  <2> DEFINE data == [i \in DOMAIN Filling(sample) |-> IF start + i - 1 \in arrived
                                                       THEN start + i - 1 ELSE Filling(sample)[i]]
             missing == FlattenSeq([i \in DOMAIN sample.missing |-> LeftOf(sample.missing[i], input)])
             filled == [sample EXCEPT !.data = data, !.missing = missing]
  <2>1. Fill(sample, input) = filled
    BY <1>7, ArrivedIs DEF Fill, Filling
  <2>2. /\ missing \in Seq(Range64)
        /\ Apart(missing)
        /\ Lacking(missing) = Lacking(sample.missing) \ Bytes(input)
    BY <1>1, LeftOfAll
  <2>3. /\ DOMAIN data = 1..extent
        /\ \A k \in 1..extent : /\ start + k - 1 \in arrived => data[k] = start + k - 1
                                /\ start + k - 1 \notin arrived => data[k] = Filling(sample)[k]
    BY <1>2
  <2>4. data = [i \in 1..extent |-> data[i]]
    BY <1>2
  <2> HIDE DEF data, missing
  <2>5. \A k \in 1..extent : data[k] \in 0..MaxPosition \cup {Blank}
    BY <2>3, <1>2, <1>3
  <2>6. data \in Seq(0..MaxPosition \cup {Blank}) /\ Len(data) = extent
    <3>1. data \in [1..extent -> 0..MaxPosition \cup {Blank}]
      BY <2>4, <2>5
    <3> QED BY <3>1, <1>2
  <2>7. extent # 0
    <3>1. PICK byte \in arrived : TRUE
      BY <1>7
    <3>2. byte \in Blanks(sample)
      BY <3>1, <1>3
    <3>3. 1..extent # {}
      BY <3>2 DEF Blanks
    <3> QED BY <3>3
  <2>8. data # <<>>
    BY <2>6, <2>7
  <2>9. /\ filled.data = data /\ filled.missing = missing /\ filled.location = sample.location
        /\ filled \in Held
    BY <1>1, <2>2, <2>6 DEF Held
  <2> HIDE DEF filled
  <2>10. \A k \in 1..extent : data[k] \in {Blank, start + k - 1}
    BY <2>3, <1>2
  <2>11. InPlace(filled)
    BY <2>3, <2>9, <2>10 DEF InPlace
  <2>12. \A k \in 1..extent :
           data[k] = Blank <=> /\ sample.data = <<>> \/ sample.data[k] = Blank
                               /\ start + k - 1 \notin arrived
    <3> SUFFICES ASSUME NEW k \in 1..extent
                 PROVE  data[k] = Blank <=> /\ sample.data = <<>> \/ sample.data[k] = Blank
                                            /\ start + k - 1 \notin arrived
      OBVIOUS
    <3>1. CASE start + k - 1 \in arrived
      <4>1. data[k] = start + k - 1 /\ start + k - 1 \in 0..MaxPosition
        BY <3>1, <2>3, <1>3
      <4>2. Blank \notin 0..MaxPosition
        BY ReaderAssumption
      <4> QED BY <3>1, <4>1, <4>2
    <3>2. CASE start + k - 1 \notin arrived
      BY <3>2, <2>3, <1>2
    <3> QED BY <3>1, <3>2
  <2>13. Blanks(filled) = Blanks(sample) \ Bytes(input)
    <3>1. Blanks(filled) = {start + k - 1 : k \in {n \in 1..extent : data[n] = Blank}}
      BY <2>8, <2>9 DEF Blanks
    <3>2. Blanks(sample) = {start + k - 1 : k \in {n \in 1..extent : sample.data = <<>> \/ sample.data[n] = Blank}}
      BY DEF Blanks
    <3>3. ASSUME NEW byte
          PROVE  byte \in Blanks(filled) <=> byte \in Blanks(sample) /\ byte \notin Bytes(input)
      <4>1. byte \in Blanks(filled) => byte \in Blanks(sample) /\ byte \notin arrived
        BY <3>1, <3>2, <2>12
      <4>2. byte \in Blanks(sample) /\ byte \notin arrived => byte \in Blanks(filled)
        BY <3>1, <3>2, <2>12
      <4> QED BY <4>1, <4>2, <1>3
    <3> QED BY <3>3
  <2>14. Lacking(missing) = Blanks(filled)
    BY <1>1, <2>2, <2>13
  <2>15. SampleOK(filled)
    BY <2>2, <2>9, <2>11, <2>14 DEF SampleOK
  <2> QED BY <2>1, <2>2, <2>3, <2>9, <2>15, <1>4
<1> QED BY <1>6, <1>7
-------------------------------------------------------------------------------
LEMMA NewlyHeldIs ==
  ASSUME NEW location \in Location
  PROVE  /\ SampleOK(NewlyHeld(location))
         /\ NewlyHeld(location).location = location
         /\ NewlyHeld(location).data = <<>>
<1> DEFINE new == NewlyHeld(location)
<1>1. location.start \in 0..MaxPosition /\ location.end \in 0..MaxPosition
  BY LocationIs
<1>2. /\ RunOf(location.start, location.end) \in Seq(Range64)
      /\ Apart(RunOf(location.start, location.end))
      /\ Lacking(RunOf(location.start, location.end)) = location.start..location.end - 1
  BY <1>1, RunOfIs
<1>3. /\ new.location = location /\ new.data = <<>>
      /\ new.missing = RunOf(location.start, location.end)
      /\ new \in Held
  BY <1>2 DEF NewlyHeld, Held
<1> HIDE DEF new
<1>4. Blanks(new) = {location.start + k - 1 : k \in 1..Extent(location)}
  BY <1>3 DEF Blanks
<1>5. {location.start + k - 1 : k \in 1..Extent(location)} = location.start..location.end - 1
  <2>1. location.start \in Nat /\ location.end \in Nat
    BY <1>1, ReaderAssumption
  <2>2. /\ Extent(location) \in Nat
        /\ location.end >= location.start => Extent(location) = location.end - location.start
        /\ location.end <= location.start => Extent(location) = 0
    BY ExtentIs
  <2>3. ASSUME NEW byte \in location.start..location.end - 1
        PROVE  byte \in {location.start + k - 1 : k \in 1..Extent(location)}
    <3>1. byte - location.start + 1 \in 1..Extent(location)
      BY <2>1, <2>2
    <3>2. byte = location.start + (byte - location.start + 1) - 1
      BY <2>1
    <3> QED BY <3>1, <3>2
  <2>4. ASSUME NEW k \in 1..Extent(location)
        PROVE  location.start + k - 1 \in location.start..location.end - 1
    BY <2>1, <2>2
  <2> QED BY <2>3, <2>4
<1>6. Lacking(new.missing) = Blanks(new)
  BY <1>2, <1>3, <1>4, <1>5
<1>7. InPlace(new) /\ Apart(new.missing)
  BY <1>2, <1>3 DEF InPlace
<1> QED BY <1>3, <1>6, <1>7 DEF SampleOK, new
-------------------------------------------------------------------------------
(* The memory of a list of samples, of which InMemory is that of the held. *)
Cells(samples) == [i \in DOMAIN samples |-> {i} \X DOMAIN samples[i].data]
Memory(samples) == UNION {Cells(samples)[i] : i \in 1..Len(samples)}

LEMMA MemoryIs ==
  ASSUME NEW samples \in Seq(Held)
  PROVE  /\ Memory(samples) = UNION {{i} \X DOMAIN samples[i].data : i \in DOMAIN samples}
         /\ IsFiniteSet(Memory(samples))
         /\ Cardinality(Memory(samples)) \in Nat
         /\ \A i, k : <<i, k>> \in Memory(samples) <=> i \in DOMAIN samples /\ k \in DOMAIN samples[i].data
<1>1. Len(samples) \in Nat /\ DOMAIN samples = 1..Len(samples)
  OBVIOUS
<1>2. \A i \in 1..Len(samples) : Cells(samples)[i] = {i} \X DOMAIN samples[i].data
  BY <1>1 DEF Cells
<1>3. \A i \in 1..Len(samples) : IsFiniteSet(Cells(samples)[i])
  <2> SUFFICES ASSUME NEW i \in 1..Len(samples)
               PROVE  IsFiniteSet({i} \X DOMAIN samples[i].data)
    BY <1>2
  <2>1. samples[i] \in Held
    BY <1>1
  <2>2. samples[i].data \in Seq(0..MaxPosition \cup {Blank})
    BY <2>1 DEF Held
  <2>3. Len(samples[i].data) \in Nat /\ DOMAIN samples[i].data = 1..Len(samples[i].data)
    BY <2>2
  <2>4. IsFiniteSet(DOMAIN samples[i].data)
    <3>1. PICK n \in Nat : DOMAIN samples[i].data = 1..n
      BY <2>3
    <3>2. IsFiniteSet(1..n)
      BY FS_Interval
    <3> QED BY <3>1, <3>2
  <2> QED BY <2>4, FS_Singleton, FS_Product
<1>4. IsFiniteSet(Memory(samples))
  BY <1>1, <1>3, UnionFinite DEF Memory
<1>5. Memory(samples) = UNION {{i} \X DOMAIN samples[i].data : i \in DOMAIN samples}
  BY <1>1, <1>2 DEF Memory
<1>6. \A i, k : <<i, k>> \in Memory(samples) <=> i \in DOMAIN samples /\ k \in DOMAIN samples[i].data
  BY <1>5
<1> QED BY <1>4, <1>5, <1>6, FS_CardinalityType

(* Samples that are some of those held, each once, take no more memory.    *)
LEMMA MemoryOfSome ==
  ASSUME NEW samples \in Seq(Held), NEW some \in Seq(Held),
         NEW from \in [DOMAIN some -> DOMAIN samples],
         \A i, j \in DOMAIN some : i # j => from[i] # from[j],
         \A i \in DOMAIN some : some[i] = samples[from[i]]
  PROVE  Cardinality(Memory(some)) <= Cardinality(Memory(samples))
<1> DEFINE f == [cell \in Memory(some) |-> <<from[cell[1]], cell[2]>>]
<1>1. \A cell \in Memory(some) : /\ cell = <<cell[1], cell[2]>>
                                 /\ cell[1] \in DOMAIN some
                                 /\ cell[2] \in DOMAIN some[cell[1]].data
  BY MemoryIs
<1>2. \A cell \in Memory(some) : f[cell] \in Memory(samples)
  BY <1>1, MemoryIs
<1>3. f \in [Memory(some) -> Memory(samples)]
  BY <1>2
<1>4. \A c, d \in Memory(some) : f[c] = f[d] => c = d
  <2> SUFFICES ASSUME NEW c \in Memory(some), NEW d \in Memory(some), f[c] = f[d] PROVE c = d
    OBVIOUS
  <2>1. from[c[1]] = from[d[1]] /\ c[2] = d[2]
    OBVIOUS
  <2>2. c[1] = d[1]
    BY <1>1, <2>1
  <2> QED BY <1>1, <2>1, <2>2
<1>5. f \in Injection(Memory(some), Memory(samples))
  <2> HIDE DEF f
  <2> QED BY <1>3, <1>4 DEF Injection, IsInjective
<1> HIDE DEF f
<1> QED BY <1>5, MemoryIs, FS_Injection

(* The samples of the reader are what they should be.                      *)
SamplesOK == held \in Seq(Held) /\ \A i \in DOMAIN held : SampleOK(held[i])

LEMMA HeldAfterIs ==
  ASSUME SamplesOK, NEW input \in Inputs
  PROVE  /\ HeldAfter(held, input) \in Seq(Held)
         /\ DOMAIN HeldAfter(held, input) = DOMAIN held
         /\ Len(HeldAfter(held, input)) = Len(held)
         /\ \A i \in DOMAIN held : /\ SampleOK(HeldAfter(held, input)[i])
                                   /\ HeldAfter(held, input)[i].location = held[i].location
<1>1. Len(held) \in Nat /\ DOMAIN held = 1..Len(held)
  BY DEF SamplesOK
<1>2. ASSUME NEW i \in DOMAIN held
      PROVE  /\ SampleOK(HeldAfter(held, input)[i])
             /\ HeldAfter(held, input)[i].location = held[i].location
  <2>1. SampleOK(held[i])
    BY DEF SamplesOK
  <2>2. CASE Filled(held, i, input)
    <3>1. HeldAfter(held, input)[i] = Fill(held[i], input)
      BY <2>2 DEF HeldAfter
    <3> QED BY <2>1, <3>1, FillIs
  <2>3. CASE ~Filled(held, i, input)
    <3>1. HeldAfter(held, input)[i] = held[i]
      BY <2>3 DEF HeldAfter
    <3> QED BY <2>1, <3>1
  <2> QED BY <2>2, <2>3
<1>3. DOMAIN HeldAfter(held, input) = DOMAIN held
  BY DEF HeldAfter
<1>4. HeldAfter(held, input) = [i \in 1..Len(held) |-> HeldAfter(held, input)[i]]
  BY <1>1 DEF HeldAfter
<1>5. \A i \in 1..Len(held) : HeldAfter(held, input)[i] \in Held
  BY <1>1, <1>2 DEF SampleOK
<1>6. HeldAfter(held, input) \in [1..Len(held) -> Held]
  BY <1>4, <1>5
<1>7. HeldAfter(held, input) \in Seq(Held) /\ Len(HeldAfter(held, input)) = Len(held)
  BY <1>1, <1>6
<1> QED BY <1>2, <1>3, <1>7

(* What input has the samples allocate stays within the limit: what is     *)
(* allocated for the last of those that allocate counts all the others.    *)
LEMMA InputMemory ==
  ASSUME SamplesOK, Allocated(held) <= HeldBytes, NEW input \in Inputs
  PROVE  Cardinality(Memory(HeldAfter(held, input))) <= HeldBytes
<1> DEFINE after == HeldAfter(held, input)
           A == {j \in DOMAIN held : Allocates(held, j, input) /\ Filled(held, j, input)}
<1>1. /\ Len(held) \in Nat /\ DOMAIN held = 1..Len(held)
      /\ held \in Seq(Held) /\ \A i \in DOMAIN held : SampleOK(held[i])
  BY DEF SamplesOK
<1>2. after \in Seq(Held) /\ DOMAIN after = DOMAIN held
  BY HeldAfterIs
<1>3. InMemory(held) = Memory(held)
  BY <1>1, MemoryIs DEF InMemory
<1>4. ASSUME NEW i \in DOMAIN held, NEW k \in DOMAIN after[i].data
      PROVE  <<i, k>> \in Memory(held) \/ (i \in A /\ k \in 1..Extent(held[i].location))
  <2>1. CASE ~Filled(held, i, input)
    <3>1. after[i] = held[i]
      BY <2>1 DEF HeldAfter
    <3> QED BY <1>1, <3>1, MemoryIs
  <2>2. CASE Filled(held, i, input)
    <3>1. after[i] = Fill(held[i], input)
      BY <2>2 DEF HeldAfter
    <3>2. /\ held[i].data # <<>> => DOMAIN after[i].data = DOMAIN held[i].data
          /\ DOMAIN after[i].data \subseteq 1..Extent(held[i].location)
      BY <1>1, <3>1, FillIs
    <3>3. CASE held[i].data # <<>>
      BY <1>1, <3>2, <3>3, MemoryIs
    <3>4. CASE held[i].data = <<>>
      <4>1. i \in A
        BY <2>2, <3>4 DEF Filled, Allocates
      <4> QED BY <3>2, <4>1
    <3> QED BY <3>3, <3>4
  <2> QED BY <2>1, <2>2
<1>5. \A cell \in Memory(after) : /\ cell = <<cell[1], cell[2]>>
                                  /\ cell[1] \in DOMAIN held
                                  /\ cell[2] \in DOMAIN after[cell[1]].data
  <2> HIDE DEF after
  <2> QED BY <1>2, MemoryIs
<1> HIDE DEF after
<1>6. CASE A = {}
  <2>1. Memory(after) \subseteq Memory(held)
    BY <1>4, <1>5, <1>6
  <2>2. Cardinality(Memory(after)) <= Cardinality(Memory(held))
    BY <1>1, <2>1, MemoryIs, FS_Subset
  <2>3. Cardinality(Memory(after)) \in Nat /\ Cardinality(Memory(held)) \in Nat
    BY <1>1, <1>2, MemoryIs
  <2> QED BY <1>3, <2>2, <2>3, ReaderAssumption DEF Allocated, after
<1>7. CASE A # {}
  <2>1. PICK m \in A : \A j \in A : j <= m
    <3> HIDE DEF A
    <3>1. A \subseteq 1..Len(held)
      BY <1>1 DEF A
    <3> QED BY <1>1, <1>7, <3>1, Greatest
  <2>2. m \in 1..Len(held) /\ m \in Nat /\ Allocates(held, m, input) /\ ~Refused(held, m, input)
    BY <1>1, <2>1 DEF Filled
  <2> DEFINE earlier == {k \in 1..m : Allocates(held, k, input)}
             all == InMemory(held) \cup UNION {MemoryFor(held, j) : j \in earlier}
             f == [j \in 1..m |-> IF j \in earlier THEN MemoryFor(held, j) ELSE {}]
  <2>3. \A j \in 1..m : IsFiniteSet(f[j])
    <3> SUFFICES ASSUME NEW j \in 1..m PROVE IsFiniteSet(MemoryFor(held, j))
      BY FS_EmptySet
    <3>1. j \in DOMAIN held
      BY <1>1, <2>2
    <3>2. SampleOK(held[j])
      BY <1>1, <3>1
    <3>3. Extent(held[j].location) \in Nat
      BY <3>2, FillingIs
    <3>4. IsFiniteSet(1..Extent(held[j].location))
      BY <3>3, FS_Interval
    <3> QED BY <3>4, FS_Singleton, FS_Product DEF MemoryFor
  <2>4. IsFiniteSet(UNION {f[j] : j \in 1..m})
    <3> HIDE DEF f
    <3> QED BY <2>2, <2>3, UnionFinite
  <2>5. UNION {MemoryFor(held, j) : j \in earlier} = UNION {f[j] : j \in 1..m}
    OBVIOUS
  <2>6. IsFiniteSet(all)
    BY <1>1, <1>3, <2>4, <2>5, MemoryIs, FS_Union
  <2>7. \A cell \in Memory(after) : cell \in all
    <3> SUFFICES ASSUME NEW cell \in Memory(after) PROVE cell \in all
      OBVIOUS
    <3>1. /\ cell = <<cell[1], cell[2]>> /\ cell[1] \in DOMAIN held
          /\ cell[2] \in DOMAIN after[cell[1]].data
      BY <1>5
    <3>2. CASE cell \in Memory(held)
      BY <3>2, <1>3
    <3>3. CASE cell[1] \in A /\ cell[2] \in 1..Extent(held[cell[1]].location)
      <4>1. cell[1] \in 1..Len(held) /\ cell[1] <= m /\ Allocates(held, cell[1], input)
        BY <1>1, <2>1, <3>3
      <4>2. cell[1] \in earlier
        BY <4>1, <2>2
      <4>3. cell \in MemoryFor(held, cell[1])
        BY <3>1, <3>3 DEF MemoryFor
      <4> QED BY <4>2, <4>3
    <3> QED BY <1>4, <3>1, <3>2, <3>3
  <2>8. Cardinality(all) = AllocatedUpTo(held, m, input)
    BY DEF AllocatedUpTo
  <2>9. Cardinality(Memory(after)) <= Cardinality(all) /\ Cardinality(all) \in Nat
    <3> HIDE DEF all
    <3>1. Memory(after) \subseteq all
      BY <2>7
    <3> QED BY <2>6, <3>1, FS_Subset, FS_CardinalityType
  <2>10. Cardinality(Memory(after)) \in Nat
    BY <1>2, MemoryIs
  <2>11. Cardinality(all) <= HeldBytes
    BY <2>2, <2>8, <2>9, ReaderAssumption DEF Refused
  <2> HIDE DEF all
  <2> QED BY <2>9, <2>10, <2>11, ReaderAssumption DEF after
<1> QED BY <1>6, <1>7

(* Samples behind that have no data take no memory.                        *)
LEMMA MemoryBlank ==
  ASSUME NEW samples \in Seq(Held), NEW more \in Seq(Held),
         \A i \in 1..Len(samples) : i \in 1..Len(more) /\ more[i] = samples[i],
         \A i \in 1..Len(more) : i \notin 1..Len(samples) => more[i].data = <<>>
  PROVE  Memory(more) = Memory(samples)
<1>1. DOMAIN more = 1..Len(more) /\ DOMAIN samples = 1..Len(samples)
  OBVIOUS
<1>2. \A cell \in Memory(more) : /\ cell = <<cell[1], cell[2]>>
                                 /\ cell[1] \in DOMAIN more
                                 /\ cell[2] \in DOMAIN more[cell[1]].data
  BY MemoryIs
<1>3. \A cell \in Memory(samples) : /\ cell = <<cell[1], cell[2]>>
                                    /\ cell[1] \in DOMAIN samples
                                    /\ cell[2] \in DOMAIN samples[cell[1]].data
  BY MemoryIs
<1>4. ASSUME NEW cell \in Memory(more) PROVE cell \in Memory(samples)
  <2>1. cell[1] \in 1..Len(samples)
    <3> SUFFICES ASSUME cell[1] \notin 1..Len(samples) PROVE FALSE
      OBVIOUS
    <3>1. more[cell[1]].data = <<>>
      BY <1>1, <1>2
    <3>2. DOMAIN more[cell[1]].data = {}
      BY <3>1
    <3> QED BY <1>2, <3>2
  <2>2. cell[2] \in DOMAIN samples[cell[1]].data
    BY <1>2, <2>1
  <2> QED BY <1>1, <1>2, <2>1, <2>2, MemoryIs
<1>5. ASSUME NEW cell \in Memory(samples) PROVE cell \in Memory(more)
  <2>1. cell[1] \in DOMAIN more /\ cell[2] \in DOMAIN more[cell[1]].data
    BY <1>1, <1>3
  <2> QED BY <1>3, <2>1, MemoryIs
<1> QED BY <1>4, <1>5
-------------------------------------------------------------------------------
KeptOf(locations) == Where(locations, IsHeld)

LEMMA KeptIs ==
  ASSUME NEW locations \in Seq(Location)
  PROVE  KeptOf(locations) \in Seq(Location)
<1> DEFINE places == {i \in DOMAIN locations : IsHeld(locations[i])}
<1>1. KeptOf(locations) = Picked(locations, places)
  BY DEF KeptOf, Where
<1>2. places \subseteq DOMAIN locations
  OBVIOUS
<1> HIDE DEF places
<1> QED BY <1>1, <1>2, PickedType

(* Samples held behind those held are as they should be, and no memory is  *)
(* allocated for them.                                                     *)
LEMMA HeldWithIs ==
  ASSUME SamplesOK, NEW kept \in Seq(Location)
  PROVE  /\ HeldWith(held, kept) \in Seq(Held)
         /\ Len(HeldWith(held, kept)) = Len(held) + Len(kept)
         /\ \A i \in 1..Len(held) : HeldWith(held, kept)[i] = held[i]
         /\ \A i \in 1..Len(kept) : HeldWith(held, kept)[Len(held) + i] = NewlyHeld(kept[i])
         /\ \A i \in DOMAIN HeldWith(held, kept) : SampleOK(HeldWith(held, kept)[i])
         /\ Memory(HeldWith(held, kept)) = Memory(held)
<1> DEFINE new == [i \in DOMAIN kept |-> NewlyHeld(kept[i])]
<1>1. /\ held \in Seq(Held) /\ \A i \in DOMAIN held : SampleOK(held[i])
      /\ Len(held) \in Nat /\ DOMAIN held = 1..Len(held)
      /\ Len(kept) \in Nat /\ DOMAIN kept = 1..Len(kept)
  BY DEF SamplesOK
<1>2. \A i \in 1..Len(kept) : SampleOK(NewlyHeld(kept[i])) /\ NewlyHeld(kept[i]).data = <<>>
  <2> SUFFICES ASSUME NEW i \in 1..Len(kept)
               PROVE  SampleOK(NewlyHeld(kept[i])) /\ NewlyHeld(kept[i]).data = <<>>
    OBVIOUS
  <2>1. kept[i] \in Location
    BY <1>1
  <2> QED BY <2>1, NewlyHeldIs
<1>3. new \in [1..Len(kept) -> Held]
  BY <1>1, <1>2 DEF SampleOK
<1>4. new \in Seq(Held) /\ Len(new) = Len(kept) /\ \A i \in 1..Len(kept) : new[i] = NewlyHeld(kept[i])
  BY <1>1, <1>3
<1>5. HeldWith(held, kept) = held \o new
  BY DEF HeldWith
<1> HIDE DEF new
<1>6. /\ held \o new \in Seq(Held)
      /\ Len(held \o new) = Len(held) + Len(kept)
      /\ DOMAIN (held \o new) = 1..Len(held) + Len(kept)
      /\ \A i \in 1..Len(held) + Len(kept) :
           (held \o new)[i] = IF i <= Len(held) THEN held[i] ELSE new[i - Len(held)]
  BY <1>1, <1>4
<1>7. \A i \in 1..Len(held) : (held \o new)[i] = held[i] /\ i \in 1..Len(held) + Len(kept)
  BY <1>1, <1>6
<1>8. \A i \in 1..Len(kept) : (held \o new)[Len(held) + i] = new[i]
  BY <1>1, <1>6
<1>9. \A i \in 1..Len(held) + Len(kept) : i \in 1..Len(held) \/ i - Len(held) \in 1..Len(kept)
  BY <1>1
<1>10. \A i \in 1..Len(held) + Len(kept) :
         i \notin 1..Len(held) => (held \o new)[i] = NewlyHeld(kept[i - Len(held)])
  BY <1>1, <1>4, <1>6
<1>11. \A i \in DOMAIN (held \o new) : SampleOK((held \o new)[i])
  BY <1>1, <1>2, <1>6, <1>7, <1>9, <1>10
<1>12. Memory(held \o new) = Memory(held)
  <2>1. \A i \in 1..Len(held \o new) : i \notin 1..Len(held) => (held \o new)[i].data = <<>>
    BY <1>2, <1>6, <1>9, <1>10
  <2> QED BY <1>1, <1>6, <1>7, <2>1, MemoryBlank
<1> QED BY <1>4, <1>5, <1>6, <1>7, <1>8, <1>11, <1>12

SafeOK(samples) ==
  /\ samples \in Seq(Held)
  /\ \A i \in DOMAIN samples : SampleOK(samples[i])
  /\ Len(samples) <= HeldLocationCount
  /\ Cardinality(Memory(samples)) <= HeldBytes

LEMMA IInvIs ==
  IInv <=> TypeOK /\ SafeOK(held)
<1>1. held \in Seq(Held) => Allocated(held) = Cardinality(Memory(held))
  BY MemoryIs DEF Allocated, InMemory
<1> QED BY <1>1 DEF IInv, SafeOK, TypeOK

(* The same of the state a step leads to.                                  *)
LEMMA IInvNext ==
  ASSUME TypeOK', SafeOK(held')
  PROVE  IInv'
<1>1. held' \in Seq(Held)
  BY DEF SafeOK
<1>2. Memory(held') = UNION {{i} \X DOMAIN held'[i].data : i \in DOMAIN held'}
  BY <1>1, MemoryIs
<1>3. Allocated(held') = Cardinality(Memory(held'))
  BY <1>2 DEF Allocated, InMemory
<1> QED BY <1>3 DEF IInv, SafeOK

LEMMA NoMemory == Memory(<<>>) = {} /\ SafeOK(<<>>)
<1>1. <<>> \in Seq(Held) /\ DOMAIN <<>> = {} /\ Len(<<>>) = 0
  OBVIOUS
<1>2. \A cell \in Memory(<<>>) : FALSE
  <2>1. Memory(<<>>) = UNION {{i} \X DOMAIN <<>>[i].data : i \in DOMAIN <<>>}
    BY <1>1, MemoryIs
  <2> QED BY <1>1, <2>1
<1>3. Memory(<<>>) = {}
  BY <1>2
<1>4. Cardinality({}) = 0 /\ HeldLocationCount \in Nat /\ HeldBytes \in Nat
  BY FS_EmptySet, ReaderAssumption
<1> QED BY <1>1, <1>3, <1>4 DEF SafeOK

-------------------------------------------------------------------------------
LEMMA InitOK == Init => IInv
<1> SUFFICES ASSUME Init PROVE IInv
  OBVIOUS
<1>1. toHand \in Seq(Seq(Location)) /\ held = <<>> /\ discarded = {} /\ taken = <<>> /\ result = "ok"
  BY ReaderAssumption DEF Init
<1>2. TypeOK
  BY <1>1 DEF TypeOK
<1> QED BY <1>1, <1>2, NoMemory, IInvIs

(* Hold, by what it does to what is held.                                  *)
LEMMA HoldIs ==
  ASSUME TypeOK, Hold
  PROVE  /\ toHand # <<>> /\ Head(toHand) \in Seq(Location) /\ toHand' = Tail(toHand)
         /\ toHand' \in Seq(Seq(Location))
         /\ KeptOf(Head(toHand)) \in Seq(Location)
         /\ AllFit(held, KeptOf(Head(toHand))) => result' = "ok" /\ held' = HeldWith(held, KeptOf(Head(toHand)))
         /\ ~AllFit(held, KeptOf(Head(toHand))) => result' = "past limit" /\ held' = held
         /\ discarded' = discarded /\ taken' = taken
<1>1. toHand # <<>> /\ toHand' = Tail(toHand) /\ discarded' = discarded /\ taken' = taken
  BY DEF Hold
<1>2. Head(toHand) \in Seq(Location) /\ Tail(toHand) \in Seq(Seq(Location))
  <2>1. toHand \in Seq(Seq(Location))
    BY DEF TypeOK
  <2> QED BY <1>1, <2>1, HeadTailProperties
<1>3. KeptOf(Head(toHand)) \in Seq(Location)
  BY <1>2, KeptIs
<1>4. IF AllFit(held, KeptOf(Head(toHand)))
      THEN result' = "ok" /\ held' = HeldWith(held, KeptOf(Head(toHand)))
      ELSE result' = "past limit" /\ held' = held
  BY DEF Hold, KeptOf
<1> QED BY <1>1, <1>2, <1>3, <1>4

LEMMA HoldOK ==
  ASSUME IInv, Hold
  PROVE  IInv'
<1> DEFINE kept == KeptOf(Head(toHand))
<1>1. TypeOK /\ SafeOK(held) /\ SamplesOK
  BY IInvIs DEF SafeOK, SamplesOK
<1>2. /\ toHand' \in Seq(Seq(Location)) /\ kept \in Seq(Location)
      /\ AllFit(held, kept) => result' = "ok" /\ held' = HeldWith(held, kept)
      /\ ~AllFit(held, kept) => result' = "past limit" /\ held' = held
      /\ discarded' = discarded /\ taken' = taken
  BY <1>1, HoldIs
<1> HIDE DEF kept
<1>3. CASE AllFit(held, kept)
  <2>1. /\ HeldWith(held, kept) \in Seq(Held)
        /\ Len(HeldWith(held, kept)) = Len(held) + Len(kept)
        /\ \A i \in DOMAIN HeldWith(held, kept) : SampleOK(HeldWith(held, kept)[i])
        /\ Memory(HeldWith(held, kept)) = Memory(held)
    BY <1>1, <1>2, HeldWithIs
  <2>2. Len(held) + Len(kept) <= HeldLocationCount
    <3>0. held \in Seq(Held) /\ kept \in Seq(Location)
      BY <1>1, <1>2 DEF SafeOK
    <3>1. Len(held) \in Nat /\ Len(kept) \in Nat /\ DOMAIN kept = 1..Len(kept)
      BY <3>0
    <3>2. CASE Len(kept) = 0
      BY <1>1, <3>1, <3>2 DEF SafeOK
    <3>3. CASE Len(kept) # 0
      <4>1. Len(kept) \in DOMAIN kept
        BY <3>1, <3>3
      <4> QED BY <1>3, <4>1 DEF AllFit
    <3> QED BY <3>2, <3>3
  <2>3. SafeOK(HeldWith(held, kept))
    BY <1>1, <2>1, <2>2 DEF SafeOK
  <2>4. held' = HeldWith(held, kept) /\ result' = "ok"
    BY <1>2, <1>3
  <2>5. TypeOK'
    BY <1>1, <1>2, <2>1, <2>4 DEF TypeOK
  <2>6. SafeOK(held')
    BY <2>3, <2>4 DEF SafeOK
  <2> QED BY <2>5, <2>6, IInvNext
<1>4. CASE ~AllFit(held, kept)
  <2>1. TypeOK'
    BY <1>1, <1>2, <1>4 DEF TypeOK
  <2>2. SafeOK(held')
    BY <1>1, <1>2, <1>4
  <2> QED BY <2>1, <2>2, IInvNext
<1> QED BY <1>3, <1>4

LEMMA HandleInputOK ==
  ASSUME IInv, NEW input \in Inputs, HandleInput(input)
  PROVE  IInv'
<1>1. TypeOK /\ SafeOK(held) /\ SamplesOK /\ Allocated(held) <= HeldBytes
  BY IInvIs DEF SafeOK, SamplesOK, IInv
<1>2. toHand' = toHand /\ discarded' = discarded /\ taken' = taken
  BY DEF HandleInput
<1>3. CASE Fails(held, input)
  <2>1. result' = "full" /\ held' = held
    BY <1>3 DEF HandleInput
  <2>2. TypeOK' /\ SafeOK(held')
    BY <1>1, <1>2, <2>1 DEF TypeOK
  <2> QED BY <2>2, IInvNext
<1>4. CASE ~Fails(held, input)
  <2>1. result' = "ok" /\ held' = HeldAfter(held, input)
    BY <1>4 DEF HandleInput
  <2>2. /\ HeldAfter(held, input) \in Seq(Held)
        /\ DOMAIN HeldAfter(held, input) = DOMAIN held
        /\ Len(HeldAfter(held, input)) = Len(held)
        /\ \A i \in DOMAIN held : SampleOK(HeldAfter(held, input)[i])
    BY <1>1, HeldAfterIs
  <2>3. SafeOK(HeldAfter(held, input))
    BY <1>1, <2>2, InputMemory DEF SafeOK
  <2>4. TypeOK'
    BY <1>1, <1>2, <2>1, <2>2 DEF TypeOK
  <2>5. SafeOK(held')
    BY <2>1, <2>3
  <2> QED BY <2>4, <2>5, IInvNext
<1> QED BY <1>3, <1>4

(* What is taken has all of its bytes, each in its place.                  *)
LEMMA TakenWhole ==
  ASSUME NEW sample, SampleOK(sample), sample.missing = <<>>
  PROVE  sample.data = Queue!Whole(sample.location)
<1>1. /\ sample.location \in Location /\ sample.data \in Seq(0..MaxPosition \cup {Blank})
      /\ Lacking(sample.missing) = Blanks(sample)
  BY DEF SampleOK, Held
<1>2. Extent(sample.location) \in Nat /\ Extent(sample.location) = Queue!Extent(sample.location)
  BY <1>1, ExtentIs DEF Extent
<1>3. Blanks(sample) = {}
  BY <1>1 DEF Lacking
<1>4. \A k \in 1..Extent(sample.location) : ~(sample.data = <<>> \/ sample.data[k] = Blank)
  BY <1>3 DEF Blanks
<1>5. CASE sample.data = <<>>
  <2>1. 1..Extent(sample.location) = {}
    BY <1>4, <1>5
  <2>2. Queue!Whole(sample.location) = <<>>
    BY <1>2, <2>1 DEF Queue!Whole
  <2> QED BY <1>5, <2>2
<1>6. CASE sample.data # <<>>
  <2>1. /\ DOMAIN sample.data = 1..Extent(sample.location)
        /\ \A k \in 1..Extent(sample.location) : sample.data[k] = sample.location.start + k - 1
    BY <1>4, <1>6 DEF SampleOK, InPlace
  <2>2. sample.data = [k \in DOMAIN sample.data |-> sample.data[k]]
    BY <1>1
  <2> QED BY <1>2, <2>1, <2>2 DEF Queue!Whole
<1> QED BY <1>5, <1>6

LEMMA PollSampleOK ==
  ASSUME IInv, PollSample
  PROVE  IInv'
<1>1. TypeOK /\ SafeOK(held)
  BY IInvIs
<1>2. /\ held # <<>> /\ held' = Tail(held) /\ result' = "ok"
      /\ taken' = Append(taken, [location |-> Head(held).location, data |-> Head(held).data])
      /\ toHand' = toHand /\ discarded' = discarded
  BY DEF PollSample
<1>3. /\ held \in Seq(Held) /\ \A i \in DOMAIN held : SampleOK(held[i])
      /\ Len(held) <= HeldLocationCount
      /\ Cardinality(Memory(held)) <= HeldBytes
      /\ Len(held) \in Nat /\ DOMAIN held = 1..Len(held)
  BY <1>1 DEF SafeOK
<1> DEFINE rest == Tail(held)
           from == [i \in 1..Len(held) - 1 |-> i + 1]
<1>4. /\ rest \in Seq(Held) /\ Len(rest) = Len(held) - 1 /\ Len(held) # 0
      /\ DOMAIN rest = 1..Len(held) - 1
      /\ \A i \in 1..Len(held) - 1 : rest[i] = held[i + 1]
      /\ Head(held) \in Held
  BY <1>2, <1>3
<1> HIDE DEF rest
<1>5. from \in [DOMAIN rest -> DOMAIN held]
  BY <1>3, <1>4
<1>6. /\ \A i, j \in DOMAIN rest : i # j => from[i] # from[j]
      /\ \A i \in DOMAIN rest : rest[i] = held[from[i]]
  BY <1>3, <1>4
<1>7. Cardinality(Memory(rest)) <= Cardinality(Memory(held))
  <2> HIDE DEF from
  <2> QED BY <1>3, <1>4, <1>5, <1>6, MemoryOfSome
<1>8. \A i \in DOMAIN rest : SampleOK(rest[i])
  <2>1. \A i \in DOMAIN rest : from[i] \in DOMAIN held
    BY <1>5
  <2> QED BY <1>3, <1>6, <2>1
<1>9. SafeOK(rest)
  <2>1. Cardinality(Memory(rest)) \in Nat /\ Cardinality(Memory(held)) \in Nat
    BY <1>3, <1>4, MemoryIs
  <2>2. Len(rest) <= HeldLocationCount
    BY <1>3, <1>4, ReaderAssumption
  <2>3. Cardinality(Memory(rest)) <= HeldBytes
    BY <1>3, <1>7, <2>1, ReaderAssumption
  <2> QED BY <1>4, <1>8, <2>2, <2>3 DEF SafeOK
<1>10. TypeOK'
  <2>1. [location |-> Head(held).location, data |-> Head(held).data] \in Sample
    BY <1>4 DEF Held, Sample
  <2>2. taken \in Seq(Sample)
    BY <1>1 DEF TypeOK
  <2>3. taken' \in Seq(Sample)
    BY <1>2, <2>1, <2>2, AppendProperties
  <2> QED BY <1>1, <1>2, <1>4, <2>3 DEF TypeOK, rest
<1>11. SafeOK(held')
  BY <1>2, <1>9 DEF rest
<1> QED BY <1>10, <1>11, IInvNext

LEMMA ClearOK ==
  ASSUME IInv, Clear
  PROVE  IInv'
<1>1. TypeOK
  BY IInvIs
<1>2. held' = <<>> /\ result' = "ok" /\ toHand' = toHand /\ discarded' = discarded /\ taken' = taken
  BY DEF Clear
<1>3. <<>> \in Seq(Held)
  OBVIOUS
<1>4. TypeOK'
  BY <1>1, <1>2, <1>3 DEF TypeOK
<1>5. SafeOK(held')
  BY <1>2, NoMemory
<1> QED BY <1>4, <1>5, IInvNext

OfOthers(track) == {i \in DOMAIN held : held[i].location.track # track}

LEMMA DiscardIs ==
  ASSUME TypeOK, NEW track \in Tracks, DiscardTrack(track)
  PROVE  /\ discarded' = discarded \cup {track}
         /\ held' = Picked(held, OfOthers(track))
         /\ result' = "ok" /\ toHand' = toHand /\ taken' = taken
<1>1. held' = Where(held, LAMBDA sample : sample.location.track # track)
  BY DEF DiscardTrack
<1>2. held' = Picked(held, OfOthers(track))
  BY DEF DiscardTrack, Where, OfOthers
<1> QED BY <1>2 DEF DiscardTrack

LEMMA DiscardTrackOK ==
  ASSUME IInv, NEW track \in Tracks, DiscardTrack(track)
  PROVE  IInv'
<1> DEFINE places == OfOthers(track)
           rest == Picked(held, places)
           from == [k \in 1..Cardinality(places) |-> Nth(places, k)]
<1>1. TypeOK /\ SafeOK(held)
  BY IInvIs
<1>2. /\ held \in Seq(Held) /\ \A i \in DOMAIN held : SampleOK(held[i])
      /\ Len(held) <= HeldLocationCount
      /\ Cardinality(Memory(held)) <= HeldBytes
      /\ Len(held) \in Nat /\ DOMAIN held = 1..Len(held)
  BY <1>1 DEF SafeOK
<1>3. places \subseteq DOMAIN held
  BY DEF OfOthers
<1>4. /\ discarded' = discarded \cup {track} /\ held' = rest
      /\ result' = "ok" /\ toHand' = toHand /\ taken' = taken
  BY <1>1, DiscardIs
<1> HIDE DEF places
<1>5. /\ rest \in Seq(Held) /\ Len(rest) = Cardinality(places)
      /\ Cardinality(places) \in Nat /\ Cardinality(places) <= Len(held)
      /\ \A k \in 1..Cardinality(places) : Nth(places, k) \in places /\ rest[k] = held[Nth(places, k)]
  BY <1>2, <1>3, PickedType
<1> HIDE DEF rest
<1>6. DOMAIN rest = 1..Cardinality(places)
  BY <1>5
<1>7. from \in [DOMAIN rest -> DOMAIN held]
  BY <1>3, <1>5, <1>6
<1>8. ASSUME NEW i \in DOMAIN rest, NEW j \in DOMAIN rest, i # j
      PROVE  from[i] # from[j]
  <2>1. i \in 1..Cardinality(places) /\ j \in 1..Cardinality(places) /\ i \in Nat /\ j \in Nat
    BY <1>5, <1>6
  <2>2. places \subseteq 1..Len(held)
    BY <1>2, <1>3
  <2>3. Nth(places, i) \in Nat /\ Nth(places, j) \in Nat
    BY <1>2, <1>5, <2>1, <2>2, PlacesFinite
  <2>4. CASE i < j
    <3>1. Nth(places, i) < Nth(places, j)
      BY <1>2, <2>1, <2>2, <2>4, NthIncreases
    <3> QED BY <2>1, <2>3, <3>1
  <2>5. CASE j < i
    <3>1. Nth(places, j) < Nth(places, i)
      BY <1>2, <2>1, <2>2, <2>5, NthIncreases
    <3> QED BY <2>1, <2>3, <3>1
  <2> QED BY <1>8, <2>1, <2>4, <2>5
<1>9. \A i \in DOMAIN rest : rest[i] = held[from[i]] /\ from[i] \in DOMAIN held
  BY <1>3, <1>5, <1>6
<1> HIDE DEF from
<1>10. Cardinality(Memory(rest)) <= Cardinality(Memory(held))
  BY <1>2, <1>5, <1>7, <1>8, <1>9, MemoryOfSome
<1>11. SafeOK(rest)
  <2>1. Cardinality(Memory(rest)) \in Nat /\ Cardinality(Memory(held)) \in Nat
    BY <1>2, <1>5, MemoryIs
  <2>2. Len(rest) <= HeldLocationCount
    BY <1>2, <1>5, ReaderAssumption
  <2>3. Cardinality(Memory(rest)) <= HeldBytes
    BY <1>2, <1>10, <2>1, ReaderAssumption
  <2> QED BY <1>2, <1>5, <1>9, <2>2, <2>3 DEF SafeOK
<1>12. TypeOK'
  BY <1>1, <1>4, <1>5 DEF TypeOK
<1>13. SafeOK(held')
  BY <1>4, <1>11
<1> QED BY <1>12, <1>13, IInvNext
-------------------------------------------------------------------------------
(* Every step keeps the invariant.                                         *)
LEMMA StepOK == IInv /\ [Next]_vars => IInv'
<1> SUFFICES ASSUME IInv, [Next]_vars PROVE IInv'
  OBVIOUS
<1>1. CASE Hold
  BY <1>1, HoldOK
<1>2. ASSUME NEW input \in Inputs, HandleInput(input) PROVE IInv'
  BY <1>2, HandleInputOK
<1>3. CASE PollSample
  BY <1>3, PollSampleOK
<1>4. CASE Clear
  BY <1>4, ClearOK
<1>5. ASSUME NEW track \in Tracks, DiscardTrack(track) PROVE IInv'
  BY <1>5, DiscardTrackOK
<1>6. CASE UNCHANGED vars
  <2>1. toHand' = toHand /\ held' = held /\ discarded' = discarded /\ taken' = taken /\ result' = result
    BY <1>6 DEF vars
  <2>2. TypeOK /\ SafeOK(held)
    BY IInvIs
  <2>3. TypeOK' /\ SafeOK(held')
    BY <2>1, <2>2 DEF TypeOK
  <2> QED BY <2>3, IInvNext
<1> QED BY <1>1, <1>2, <1>3, <1>4, <1>5, <1>6 DEF Next

(* What the reader holds is of its type, and of every sample it knows      *)
(* which bytes it lacks, whatever comes in which order (fill, and the      *)
(* calls around it).                                                       *)
THEOREM InvariantHolds == Spec => []IInv
<1> QED BY InitOK, StepOK, PTL DEF Spec

(* Neither more locations nor more media data are ever held than           *)
(* MediaDataLimits allows: of the samples one call would allocate, those   *)
(* past the limit are refused.                                             *)
THEOREM WithinLimitsHolds == Spec => []WithinLimits
<1>1. IInv => WithinLimits
  BY DEF IInv, WithinLimits
<1> QED BY <1>1, InvariantHolds, PTL

(* The runs that a sample lacks are those of its blank bytes.              *)
THEOREM MissingIsBlankHolds == Spec => []MissingIsBlank
<1>1. IInv => MissingIsBlank
  <2> SUFFICES ASSUME IInv, NEW i \in DOMAIN held
               PROVE  /\ \A j \in DOMAIN held[i].missing :
                           held[i].missing[j].start < held[i].missing[j].end
                      /\ \A j \in 2..Len(held[i].missing) :
                           held[i].missing[j - 1].end < held[i].missing[j].start
                      /\ UNION {held[i].missing[j].start..held[i].missing[j].end - 1 :
                                  j \in DOMAIN held[i].missing} = Blanks(held[i])
    BY DEF MissingIsBlank, Blanks
  <2>1. Apart(held[i].missing) /\ Lacking(held[i].missing) = Blanks(held[i])
    BY DEF IInv, SampleOK
  <2> QED BY <2>1 DEF Apart, Lacking, Bytes
<1> QED BY <1>1, InvariantHolds, PTL

(* Input that is not empty and reaches a sample brings a byte it lacks.    *)
LEMMA ReachedLacksLess ==
  ASSUME NEW sample, SampleOK(sample), NEW input \in Inputs,
         input.start < input.end, Reached(sample, input)
  PROVE  Fill(sample, input).missing # sample.missing
<1>1. PICK i \in DOMAIN sample.missing :
        sample.missing[i].start < input.end /\ input.start < sample.missing[i].end
  BY DEF Reached
<1> DEFINE run == sample.missing[i]
           byte == IF run.start >= input.start THEN run.start ELSE input.start
<1>2. sample.missing \in Seq(Range64) /\ Apart(sample.missing)
  BY DEF SampleOK, Held
<1>3. run \in Range64 /\ run.start < run.end
  BY <1>2 DEF Apart
<1>4. /\ run.start \in Nat /\ run.end \in Nat /\ input.start \in Nat /\ input.end \in Nat
      /\ run.start < input.end /\ input.start < run.end
  BY <1>1, <1>3, RangeIs, InputIs
<1>5. byte \in Bytes(run) /\ byte \in Bytes(input)
  BY <1>3, <1>4 DEF Bytes
<1>6. byte \in Lacking(sample.missing)
  BY <1>5, LackingIs
<1>7. Lacking(Fill(sample, input).missing) = Lacking(sample.missing) \ Bytes(input)
  BY FillIs
<1>8. byte \notin Lacking(Fill(sample, input).missing)
  BY <1>5, <1>7
<1> QED BY <1>6, <1>8

(* The caller that passes wanted bytes gets on or learns that it has to    *)
(* take samples first: where no sample takes any, handle_input fails.      *)
THEOREM NoSilentStallHolds == Spec => []NoSilentStall
<1>1. IInv => NoSilentStall
  <2> SUFFICES ASSUME IInv, NEW input \in Inputs, NEW range \in Wanted(held),
                      range.start \in input.start..input.end - 1,
                      ~Fails(held, input)
               PROVE  \E i \in DOMAIN held :
                        Filled(held, i, input) /\ Fill(held[i], input).missing # held[i].missing
    BY DEF NoSilentStall
  <2>1. PICK i \in DOMAIN held : held[i].missing # <<>> /\ range = held[i].missing[1]
    BY DEF Wanted, FirstMissing
  <2>2. \A j \in DOMAIN held : SampleOK(held[j])
    BY DEF IInv
  <2>3. held[i].missing \in Seq(Range64) /\ Apart(held[i].missing)
    BY <2>2 DEF SampleOK, Held
  <2>4. 1 \in DOMAIN held[i].missing
    BY <2>1, <2>3
  <2>5. range \in Range64 /\ range.start < range.end
    BY <2>1, <2>3, <2>4 DEF Apart
  <2>6. /\ range.start \in Nat /\ range.end \in Nat /\ input.start \in Nat /\ input.end \in Nat
        /\ input.start <= range.start /\ range.start < input.end
    BY <2>5, RangeIs, InputIs
  <2>7. Reached(held[i], input)
    BY <2>1, <2>4, <2>5, <2>6 DEF Reached
  <2>8. \E k \in DOMAIN held : Filled(held, k, input)
    BY <2>7 DEF Fails, Keeps, Filled
  <2>9. PICK k \in DOMAIN held : Filled(held, k, input)
    BY <2>8
  <2>10. Reached(held[k], input) /\ input.start < input.end
    BY <2>6, <2>9 DEF Filled
  <2> QED BY <2>2, <2>9, <2>10, ReachedLacksLess
<1> QED BY <1>1, InvariantHolds, PTL
-------------------------------------------------------------------------------
(* What the queue of SampleQueue is, and what it keeps of a call.          *)
LocationsOf(samples) == [i \in DOMAIN samples |-> samples[i].location]

LEMMA LocationsOfIs ==
  ASSUME NEW samples \in Seq(Held)
  PROVE  /\ LocationsOf(samples) \in Seq(Location)
         /\ Len(LocationsOf(samples)) = Len(samples)
         /\ DOMAIN LocationsOf(samples) = DOMAIN samples
         /\ \A i \in DOMAIN samples : LocationsOf(samples)[i] = samples[i].location
<1>1. Len(samples) \in Nat /\ DOMAIN samples = 1..Len(samples)
  OBVIOUS
<1>2. \A i \in DOMAIN samples : samples[i].location \in Location
  <2> SUFFICES ASSUME NEW i \in DOMAIN samples PROVE samples[i].location \in Location
    OBVIOUS
  <2>1. samples[i] \in Held
    OBVIOUS
  <2> QED BY <2>1 DEF Held
<1>3. LocationsOf(samples) \in [1..Len(samples) -> Location]
  BY <1>1, <1>2 DEF LocationsOf
<1>4. LocationsOf(samples) \in Seq(Location) /\ Len(LocationsOf(samples)) = Len(samples)
  BY <1>1, <1>3
<1> QED BY <1>4 DEF LocationsOf

LEMMA QueueKeeps ==
  ASSUME NEW locations
  PROVE  Queue!Kept(locations) = KeptOf(locations)
<1>1. Queue!Kept(locations)
        = Queue!Picked(locations, {i \in DOMAIN locations : locations[i].track \notin discarded})
  BY DEF Queue!Kept, Queue!Where
<1>2. KeptOf(locations) = Picked(locations, {i \in DOMAIN locations : locations[i].track \notin discarded})
  BY DEF KeptOf, Where, IsHeld
<1> QED BY <1>1, <1>2, SamePicked

(* The locations are told to fit one by one, or all together.              *)
LEMMA QueueFits ==
  ASSUME TypeOK, Len(held) <= HeldLocationCount, NEW kept \in Seq(Location)
  PROVE  AllFit(held, kept) <=> /\ Len(LocationsOf(held)) + Len(kept) <= HeldLocationCount \/ kept = <<>>
                          /\ \A i \in DOMAIN kept : Queue!Extent(kept[i]) <= Queue!SampleLimit
<1>1. held \in Seq(Held) /\ HeldLocationCount \in Nat
  BY ReaderAssumption DEF TypeOK
<1>2. /\ Len(held) \in Nat /\ Len(kept) \in Nat /\ DOMAIN kept = 1..Len(kept)
      /\ kept = <<>> <=> Len(kept) = 0
  BY <1>1
<1>3. Len(LocationsOf(held)) = Len(held)
  BY <1>1, LocationsOfIs
<1>4. (\A i \in DOMAIN kept : Len(held) + i <= HeldLocationCount)
        <=> Len(held) + Len(kept) <= HeldLocationCount \/ Len(kept) = 0
  BY <1>1, <1>2
<1>5. AllFit(held, kept) <=> /\ \A i \in DOMAIN kept : Len(held) + i <= HeldLocationCount
                       /\ \A i \in DOMAIN kept : Extent(kept[i]) <= SampleLimit
  BY Zenon DEF AllFit
<1>6. (\A i \in DOMAIN kept : Extent(kept[i]) <= SampleLimit)
        <=> (\A i \in DOMAIN kept : Queue!Extent(kept[i]) <= Queue!SampleLimit)
  BY Zenon DEF Extent, SampleLimit
<1> QED BY <1>2, <1>3, <1>4, <1>5, <1>6

(* Hold of the reader is Hold of the queue.                                *)
LEMMA HoldQueues ==
  ASSUME IInv, Hold
  PROVE  Queue!Hold
<1> DEFINE kept == KeptOf(Head(toHand))
<1>1. TypeOK /\ SafeOK(held) /\ SamplesOK
  BY IInvIs DEF SafeOK, SamplesOK
<1>2. /\ toHand # <<>> /\ toHand' = Tail(toHand) /\ kept \in Seq(Location)
      /\ AllFit(held, kept) => held' = HeldWith(held, kept)
      /\ ~AllFit(held, kept) => held' = held
      /\ discarded' = discarded /\ taken' = taken
  BY <1>1, HoldIs
<1>3. Queue!Kept(Head(toHand)) = kept
  BY QueueKeeps
<1> HIDE DEF kept
<1>4. AllFit(held, kept) => LocationsOf(held') = LocationsOf(held) \o kept
  <2> SUFFICES ASSUME AllFit(held, kept) PROVE LocationsOf(HeldWith(held, kept)) = LocationsOf(held) \o kept
    BY <1>2
  <2>1. /\ HeldWith(held, kept) \in Seq(Held) /\ Len(HeldWith(held, kept)) = Len(held) + Len(kept)
        /\ \A i \in 1..Len(held) : HeldWith(held, kept)[i] = held[i]
        /\ \A i \in 1..Len(kept) : HeldWith(held, kept)[Len(held) + i] = NewlyHeld(kept[i])
    BY <1>1, <1>2, HeldWithIs
  <2>2. /\ held \in Seq(Held) /\ kept \in Seq(Location)
    BY <1>1, <1>2 DEF SafeOK
  <2>3. /\ Len(held) \in Nat /\ Len(kept) \in Nat
        /\ DOMAIN held = 1..Len(held) /\ DOMAIN kept = 1..Len(kept)
        /\ DOMAIN HeldWith(held, kept) = 1..Len(held) + Len(kept)
    BY <2>1, <2>2
  <2>4. /\ LocationsOf(held) \in Seq(Location) /\ Len(LocationsOf(held)) = Len(held)
        /\ \A i \in 1..Len(held) : LocationsOf(held)[i] = held[i].location
    BY <2>2, <2>3, LocationsOfIs
  <2>5. /\ LocationsOf(HeldWith(held, kept)) \in Seq(Location)
        /\ DOMAIN LocationsOf(HeldWith(held, kept)) = 1..Len(held) + Len(kept)
        /\ \A i \in 1..Len(held) + Len(kept) :
             LocationsOf(HeldWith(held, kept))[i] = HeldWith(held, kept)[i].location
    BY <2>1, <2>3, LocationsOfIs
  <2>6. /\ LocationsOf(held) \o kept \in Seq(Location)
        /\ DOMAIN (LocationsOf(held) \o kept) = 1..Len(held) + Len(kept)
        /\ \A i \in 1..Len(held) + Len(kept) :
             (LocationsOf(held) \o kept)[i]
               = IF i <= Len(held) THEN LocationsOf(held)[i] ELSE kept[i - Len(held)]
    <3> DEFINE queue == LocationsOf(held)
    <3>1. queue \in Seq(Location) /\ Len(queue) = Len(held)
      BY <2>4
    <3> HIDE DEF queue
    <3>2. queue \o kept \in Seq(Location)
      BY <2>2, <3>1
    <3>3. Len(queue \o kept) = Len(held) + Len(kept)
      BY <2>2, <3>1
    <3>4. DOMAIN (queue \o kept) = 1..Len(held) + Len(kept)
      BY <3>2, <3>3
    <3>5. ASSUME NEW i \in 1..Len(held) + Len(kept)
          PROVE  (queue \o kept)[i] = IF i <= Len(held) THEN queue[i] ELSE kept[i - Len(held)]
      <4>1. i \in 1..Len(queue) + Len(kept)
        BY <2>3, <3>1
      <4>2. (queue \o kept)[i] = IF i <= Len(queue) THEN queue[i] ELSE kept[i - Len(queue)]
        BY <2>2, <3>1, <4>1, ConcatProperties
      <4> QED BY <3>1, <4>2
    <3> QED BY <3>2, <3>4, <3>5 DEF queue
  <2>7. ASSUME NEW i \in 1..Len(held) + Len(kept)
        PROVE  LocationsOf(HeldWith(held, kept))[i] = (LocationsOf(held) \o kept)[i]
    <3>1. CASE i <= Len(held)
      <4>1. i \in 1..Len(held)
        BY <2>3, <3>1
      <4> QED BY <2>1, <2>4, <2>5, <2>6, <3>1, <4>1
    <3>2. CASE ~(i <= Len(held))
      <4>1. i - Len(held) \in 1..Len(kept) /\ Len(held) + (i - Len(held)) = i
        BY <2>3, <3>2
      <4>2. HeldWith(held, kept)[i] = NewlyHeld(kept[i - Len(held)]) /\ kept[i - Len(held)] \in Location
        BY <2>1, <2>2, <2>3, <4>1
      <4>3. HeldWith(held, kept)[i].location = kept[i - Len(held)]
        BY <4>2, NewlyHeldIs
      <4> QED BY <2>5, <2>6, <3>2, <4>3
    <3> QED BY <3>1, <3>2
  <2> QED BY <2>5, <2>6, <2>7
<1>5. AllFit(held, kept) <=> /\ Len(LocationsOf(held)) + Len(kept) <= HeldLocationCount \/ kept = <<>>
                       /\ \A i \in DOMAIN kept : Queue!Extent(kept[i]) <= Queue!SampleLimit
  BY <1>1, <1>2, QueueFits DEF SafeOK
<1>6. LocationsOf(held') = IF /\ Len(LocationsOf(held)) + Len(kept) <= HeldLocationCount \/ kept = <<>>
                              /\ \A i \in DOMAIN kept : Queue!Extent(kept[i]) <= Queue!SampleLimit
                           THEN LocationsOf(held) \o kept
                           ELSE LocationsOf(held)
  BY <1>2, <1>4, <1>5
<1> QED BY Zenon, <1>2, <1>3, <1>6 DEF Queue!Hold, LocationsOf

(* Input changes no location.                                              *)
LEMMA InputStutters ==
  ASSUME IInv, NEW input \in Inputs, HandleInput(input)
  PROVE  LocationsOf(held') = LocationsOf(held)
<1>1. TypeOK /\ SafeOK(held) /\ SamplesOK
  BY IInvIs DEF SafeOK, SamplesOK
<1>2. held' = held \/ held' = HeldAfter(held, input)
  BY DEF HandleInput
<1>3. /\ DOMAIN HeldAfter(held, input) = DOMAIN held
      /\ \A i \in DOMAIN held : HeldAfter(held, input)[i].location = held[i].location
  BY <1>1, HeldAfterIs
<1>4. LocationsOf(HeldAfter(held, input)) = LocationsOf(held)
  BY <1>3 DEF LocationsOf
<1> QED BY <1>2, <1>4

(* The sample polled is the first of the queue, whole.                     *)
LEMMA PollTakes ==
  ASSUME IInv, PollSample
  PROVE  Queue!Take
<1>1. TypeOK /\ SafeOK(held)
  BY IInvIs
<1>2. /\ held # <<>> /\ Head(held).missing = <<>> /\ held' = Tail(held)
      /\ taken' = Append(taken, [location |-> Head(held).location, data |-> Head(held).data])
      /\ toHand' = toHand /\ discarded' = discarded
  BY DEF PollSample
<1>3. /\ held \in Seq(Held) /\ \A i \in DOMAIN held : SampleOK(held[i])
  BY <1>1 DEF SafeOK
<1>4. /\ Len(held) \in Nat /\ DOMAIN held = 1..Len(held) /\ Len(held) # 0
      /\ Head(held) = held[1] /\ 1 \in DOMAIN held
      /\ Tail(held) \in Seq(Held) /\ DOMAIN Tail(held) = 1..Len(held) - 1
      /\ \A i \in 1..Len(held) - 1 : Tail(held)[i] = held[i + 1]
  BY <1>2, <1>3
<1>5. /\ LocationsOf(held) \in Seq(Location) /\ Len(LocationsOf(held)) = Len(held)
      /\ \A i \in DOMAIN held : LocationsOf(held)[i] = held[i].location
  BY <1>3, LocationsOfIs
<1>6. /\ LocationsOf(Tail(held)) \in Seq(Location)
      /\ DOMAIN LocationsOf(Tail(held)) = 1..Len(held) - 1
      /\ \A i \in 1..Len(held) - 1 : LocationsOf(Tail(held))[i] = Tail(held)[i].location
  BY <1>4, LocationsOfIs
<1>7. LocationsOf(held) # <<>> /\ Head(LocationsOf(held)) = Head(held).location
  BY <1>4, <1>5
<1>8. LocationsOf(Tail(held)) = Tail(LocationsOf(held))
  <2> DEFINE queue == LocationsOf(held)
             rest == LocationsOf(Tail(held))
  <2>1. queue \in Seq(Location) /\ Len(queue) = Len(held) /\ queue # <<>>
    BY <1>5, <1>7
  <2>2. \A i \in 1..Len(held) - 1 : rest[i] = queue[i + 1]
    <3> SUFFICES ASSUME NEW i \in 1..Len(held) - 1 PROVE rest[i] = queue[i + 1]
      OBVIOUS
    <3>1. i + 1 \in DOMAIN held
      BY <1>4
    <3> QED BY <1>4, <1>5, <1>6, <3>1
  <2>3. rest \in Seq(Location) /\ DOMAIN rest = 1..Len(held) - 1
    BY <1>6
  <2> HIDE DEF queue, rest
  <2>4. Tail(queue) \in Seq(Location) /\ DOMAIN Tail(queue) = 1..Len(held) - 1
    BY <1>4, <2>1
  <2>5. \A i \in 1..Len(held) - 1 : Tail(queue)[i] = queue[i + 1]
    BY <1>4, <2>1
  <2>6. rest = Tail(queue)
    BY <2>2, <2>3, <2>4, <2>5
  <2> QED BY <2>6 DEF queue, rest
<1>9. Head(held).data = Queue!Whole(Head(held).location)
  BY <1>2, <1>3, <1>4, TakenWhole
<1>10. LocationsOf(held') = Tail(LocationsOf(held))
  BY <1>2, <1>8
<1>11. taken' = Append(taken, [location |-> Head(LocationsOf(held)),
                               data |-> Queue!Whole(Head(LocationsOf(held)))])
  BY <1>2, <1>7, <1>9
<1> QED BY Zenon, <1>2, <1>7, <1>10, <1>11 DEF Queue!Take, LocationsOf

LEMMA ClearClears ==
  ASSUME Clear
  PROVE  Queue!Clear
<1>1. held' = <<>> /\ toHand' = toHand /\ discarded' = discarded /\ taken' = taken
  BY DEF Clear
<1>2. LocationsOf(<<>>) = <<>>
  BY DEF LocationsOf
<1> QED BY <1>1, <1>2 DEF Queue!Clear, LocationsOf

(* Of the queue the same places stay as of what is held.                   *)
LEMMA DiscardDiscards ==
  ASSUME IInv, NEW track \in Tracks, DiscardTrack(track)
  PROVE  Queue!Discard(track)
<1> DEFINE places == OfOthers(track)
           queue == LocationsOf(held)
<1>1. TypeOK /\ held \in Seq(Held)
  BY DEF IInv, TypeOK
<1>2. /\ discarded' = discarded \cup {track} /\ held' = Picked(held, places)
      /\ toHand' = toHand /\ taken' = taken
  BY <1>1, DiscardIs
<1>3. places \subseteq DOMAIN held
  BY DEF OfOthers
<1>4. /\ queue \in Seq(Location) /\ DOMAIN queue = DOMAIN held
      /\ \A i \in DOMAIN held : queue[i] = held[i].location
  BY <1>1, LocationsOfIs
<1>5. {i \in DOMAIN queue : queue[i].track # track} = places
  BY <1>4 DEF OfOthers
<1>6. Queue!Where(queue, LAMBDA location : location.track # track) = Picked(queue, places)
  <2>1. Queue!Where(queue, LAMBDA location : location.track # track)
          = Queue!Picked(queue, {i \in DOMAIN queue : queue[i].track # track})
    BY DEF Queue!Where
  <2> QED BY <1>5, <2>1, SamePicked
<1> HIDE DEF places, queue
<1>7. LocationsOf(Picked(held, places)) = Picked(queue, places)
  <2>1. /\ Picked(held, places) \in Seq(Held) /\ Len(Picked(held, places)) = Cardinality(places)
        /\ Cardinality(places) \in Nat
        /\ \A k \in 1..Cardinality(places) : /\ Nth(places, k) \in places
                                             /\ Picked(held, places)[k] = held[Nth(places, k)]
    BY <1>1, <1>3, PickedType
  <2>2. DOMAIN Picked(held, places) = 1..Cardinality(places)
    BY <2>1
  <2>3. LocationsOf(Picked(held, places))
          = [k \in 1..Cardinality(places) |-> Picked(held, places)[k].location]
    BY <2>2 DEF LocationsOf
  <2>4. \A k \in 1..Cardinality(places) :
          Picked(held, places)[k].location = queue[Nth(places, k)]
    BY <1>3, <1>4, <2>1
  <2>5. [k \in 1..Cardinality(places) |-> Picked(held, places)[k].location]
          = [k \in 1..Cardinality(places) |-> queue[Nth(places, k)]]
    BY <2>4
  <2> QED BY <2>3, <2>5 DEF Picked
<1>8. LocationsOf(held') = Queue!Where(queue, LAMBDA location : location.track # track)
  BY <1>2, <1>6, <1>7
<1> QED BY <1>2, <1>8 DEF Queue!Discard, LocationsOf, queue

(* Every step of the reader is one of the queue, or changes nothing of it. *)
LEMMA StepQueues ==
  ASSUME IInv, [Next]_vars
  PROVE  [Queue!Next]_Queue!vars
<1>1. CASE Hold
  BY <1>1, HoldQueues DEF Queue!Next
<1>2. ASSUME NEW input \in Inputs, HandleInput(input) PROVE UNCHANGED Queue!vars
  <2>1. LocationsOf(held') = LocationsOf(held)
    BY <1>2, InputStutters
  <2>2. toHand' = toHand /\ discarded' = discarded /\ taken' = taken
    BY <1>2 DEF HandleInput
  <2> QED BY <2>1, <2>2 DEF Queue!vars, LocationsOf
<1>3. CASE PollSample
  BY <1>3, PollTakes DEF Queue!Next
<1>4. CASE Clear
  BY <1>4, ClearClears DEF Queue!Next
<1>5. ASSUME NEW track \in Tracks, DiscardTrack(track) PROVE Queue!Next
  BY <1>5, DiscardDiscards DEF Queue!Next
<1>6. CASE UNCHANGED vars
  BY <1>6 DEF vars, Queue!vars
<1> QED BY <1>1, <1>2, <1>3, <1>4, <1>5, <1>6 DEF Next

(* The reader keeps the promise of SampleQueue: locations are held         *)
(* together or not at all, and samples are taken in their order, whole.    *)
THEOREM QueueImplemented == Spec => ImplementsQueue
<1>1. Init => Queue!Init
  <2> SUFFICES ASSUME Init PROVE Queue!Init
    OBVIOUS
  <2>1. LocationsOf(<<>>) = <<>>
    BY DEF LocationsOf
  <2> QED BY <2>1 DEF Init, Queue!Init, LocationsOf
<1>2. IInv /\ [Next]_vars => [Queue!Next]_Queue!vars
  BY StepQueues
<1> QED BY <1>1, <1>2, InvariantHolds, PTL DEF Spec, ImplementsQueue, Queue!Spec
===============================================================================
