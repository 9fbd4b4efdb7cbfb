------------------------------ MODULE MuxerProofs ------------------------------
(***************************************************************************)
(* What is proved of Muxer, for every set of structures, movies and calls, *)
(* every length of headers and payloads, and wherever the sink stops.      *)
(*                                                                         *)
(* The proofs speak of the *file*: what the disk holds once the outputs    *)
(* that go one behind the other are written.  Its boxes start at `starts`, *)
(* and sample s of it lies at place[s].  The last output may be one that   *)
(* goes over a free box of the file.                                       *)
(***************************************************************************)
EXTENDS Muxer, SequenceLemmas

TotalIn(file, o) == file[o + 1].total
TypeIn(file, o) == file[o + 1].box
HoldsIn(file, o) == file[o + 1].holds
EndIn(file, o) == o + file[o + 1].total

(* The boxes of a file lie end to end from its first byte to its last.     *)
Boxed(file, starts) ==
  /\ Sequence(file)
  /\ \A i \in DOMAIN file : /\ file[i] # Hole
                            /\ IsBox(file[i]) => file[i].total \in Nat \ {0}
  /\ starts \subseteq Nat
  /\ \A o \in starts : /\ o < Len(file)
                       /\ IsBox(file[o + 1])
                       /\ EndIn(file, o) <= Len(file)
                       /\ EndIn(file, o) = Len(file) \/ EndIn(file, o) \in starts
                       /\ \A p \in starts : o < p => EndIn(file, o) <= p
  /\ Len(file) > 0 => 0 \in starts

(* The first n outputs, one behind the other, make the disk up to the file.*)
Queued(written, outputs, file, n) ==
  /\ Sequence(written) /\ Sequence(outputs)
  /\ Len(written) <= Len(file)
  /\ \A i \in DOMAIN written : written[i] = file[i]
  /\ n \in 0..Len(outputs)
  /\ \A k \in 1..n :
       /\ outputs[k] = At(outputs[k].offset, outputs[k].cells)
       /\ outputs[k].offset \in Nat
       /\ Sequence(outputs[k].cells)
       /\ Len(outputs[k].cells) > 0
       /\ outputs[k].offset + Len(outputs[k].cells) <= Len(file)
       /\ \A i \in DOMAIN outputs[k].cells : outputs[k].cells[i] = file[outputs[k].offset + i]
       /\ outputs[k].offset = IF k = 1 THEN Len(written)
                              ELSE outputs[k - 1].offset + Len(outputs[k - 1].cells)
  /\ Len(file) = IF n = 0 THEN Len(written) ELSE outputs[n].offset + Len(outputs[n].cells)

EndOf(location) == location.start + location.length

(* The bytes of every sample accepted lie in the file, one sample behind   *)
(* the other.                                                              *)
Holding(file, place, m) ==
  /\ m \in Nat
  /\ \A s \in 1..m :
       /\ place[s].start \in Nat /\ place[s].length \in Nat
       /\ EndOf(place[s]) <= Len(file)
       /\ \A k \in 1..place[s].length : file[place[s].start + k] = [sample |-> s, byte |-> k]
       /\ \A t \in 1..m : s < t => EndOf(place[s]) <= place[t].start

LocationOf(place, s) == [sample |-> s, start |-> place[s].start, length |-> place[s].length]

(* In a file of fragments each sample is declared by a moof before it, the *)
(* first moov declares none, and a second comes last.                      *)
InFragments(file, starts, place, m, ended) ==
  /\ \A o \in starts : TypeIn(file, o) = "moof" =>
       \A held \in HoldsIn(file, o) :
         /\ held.sample \in 1..m
         /\ held.offset \in Nat /\ held.offset >= TotalIn(file, o)
         /\ o + held.offset = place[held.sample].start
         /\ held.length = place[held.sample].length
  /\ \A s \in 1..m : \E o \in starts :
       TypeIn(file, o) = "moof" /\ \E held \in HoldsIn(file, o) : held.sample = s
  /\ \A o \in starts : TypeIn(file, o) = "moov" =>
       /\ \/ HoldsIn(file, o) = {}
          \/ ended /\ \E p \in starts : p < o /\ TypeIn(file, p) = "moov"
       /\ \A p \in starts : p < o /\ TypeIn(file, p) = "moov" => ended /\ EndIn(file, o) = Len(file)
  /\ \A o \in starts : TypeIn(file, o) = "mdat" => m > 0

(* Else all are declared by the one moov, which comes last.                *)
InTables(file, starts, place, m, ended) ==
  /\ \A o \in starts : TypeIn(file, o) # "moof"
  /\ \A o \in starts : TypeIn(file, o) = "moov" =>
       /\ ended
       /\ HoldsIn(file, o) = {LocationOf(place, s) : s \in 1..m}
       /\ EndIn(file, o) = Len(file)

(* A recoverable file is laid out again once its new header is written.    *)
LaidOut == Recoverable /\ tables.state = "laid out" /\ output = <<>>

Contents(file, starts, place) ==
  /\ IF ~Fragments \/ LaidOut THEN InTables(file, starts, place, accepted, finished)
                              ELSE InFragments(file, starts, place, accepted, finished)
  /\ LaidOut => /\ \E o \in starts : TypeIn(file, o) = "mdat"
                /\ \E o \in starts : TypeIn(file, o) = "moov"

FreeAt(file, starts, p, total) ==
  /\ p \in starts
  /\ TypeIn(file, p) = "free"
  /\ TotalIn(file, p) = total
  /\ \A i \in 2..total : file[p + i] = Rest

(* The spaces that are still to be written over are free.                  *)
Spaces(file, starts) ==
  /\ (Recoverable /\ movie /\ ~LaidOut) =>
       /\ FreeAt(file, starts, placeholder, 2 * HeaderBytes)
       /\ \A o \in starts : o < placeholder => TypeIn(file, o) \notin {"moov", "moof", "mdat"}
       /\ \E o \in starts : TypeIn(file, o) = "moov"
  /\ reserved # None /\ ~finished => FreeAt(file, starts, reserved, SegmentIndexBytes)

(* A box of its own.                                                       *)
OneBox(cells) ==
  /\ Sequence(cells)
  /\ Len(cells) > 0
  /\ IsBox(cells[1]) /\ cells[1].total = Len(cells) /\ cells[1] # Hole
  /\ \A i \in 2..Len(cells) : ~IsBox(cells[i]) /\ cells[i] # Hole

(* The new header of a recoverable file, whose moov is the last box.       *)
Header(file, starts, place, over) ==
  /\ tables.state = "laid out"
  /\ over.offset = placeholder
  /\ \E o \in starts :
       /\ TypeIn(file, o) = "moov"
       /\ EndIn(file, o) = Len(file)
       /\ HoldsIn(file, o) = {LocationOf(place, s) : s \in 1..accepted}
       /\ placeholder + 2 * HeaderBytes <= o
       /\ over.cells = MediaDataHeader(o - placeholder - 2 * HeaderBytes)

Index(file, starts, over) ==
  /\ OneBox(over.cells)
  /\ over.cells[1].box = "sidx"
  /\ FreeAt(file, starts, over.offset, Len(over.cells))

(* The last output goes over a free box of the file, or behind it.         *)
Overlay(file, starts, place, n) ==
  /\ (Recoverable /\ tables.state = "laid out" /\ n = Len(output)) => output = <<>>
  /\ n # Len(output) =>
       /\ finished /\ Fragments
       /\ n = Len(output) - 1
       /\ output[n + 1] = At(output[n + 1].offset, output[n + 1].cells)
       /\ IF Recoverable THEN Header(file, starts, place, output[n + 1])
                         ELSE Index(file, starts, output[n + 1])

(* The sample tables declare every sample, unless they have been dropped.  *)
Tabled(place) ==
  /\ tables = [state |-> tables.state, declared |-> tables.declared, held |-> tables.held]
  /\ ~finished => tables.state # "laid out"
  /\ (~Fragments \/ (Recoverable /\ tables.state = "declaring")) =>
       /\ Sequence(tables.declared)
       /\ Len(tables.declared) = accepted
       /\ \A s \in 1..accepted : /\ tables.declared[s].sample = s
                                 /\ tables.declared[s].start = place[s].start
                                 /\ tables.declared[s].length = place[s].length

Stage(file, starts) ==
  /\ structure \in Structures
  /\ movie \in BOOLEAN /\ finished \in BOOLEAN
  /\ nextOffset = Len(file)
  /\ finished => movie
  /\ ~movie => /\ accepted = 0
               /\ \A o \in starts : TypeIn(file, o) \notin {"moov", "moof", "mdat"}

Inv(file, starts, place, n) ==
  /\ Boxed(file, starts)
  /\ Queued(disk, output, file, n)
  /\ Holding(file, place, accepted)
  /\ Contents(file, starts, place)
  /\ Spaces(file, starts)
  /\ Overlay(file, starts, place, n)
  /\ Tabled(place)
  /\ Stage(file, starts)

IInv == \E file, starts, place, n : Inv(file, starts, place, n)

(* What is counted, whatever calls are refused.                            *)
Counted ==
  /\ structure \in Structures
  /\ nextOffset \in Nat
  /\ accepted \in Nat
  /\ Sequence(references)
  /\ lost \in [free : Nat, moof : Nat]

(* A free that is counted and lost leaves a gap, behind which boxes do not *)
(* lie where the invariant says: the file is one while none is.            *)
UnlessLost == Counted /\ (lost.free = 0 => IInv)
-------------------------------------------------------------------------------
(* CELLS                                                                   *)

LEMMA CellsDiffer ==
  /\ ~IsBox(Rest) /\ Rest # Hole /\ ~IsBox(Hole)
  /\ \A type, total, holds :
       LET cell == [box |-> type, total |-> total, holds |-> holds]
       IN  IsBox(cell) /\ cell # Hole /\ cell # Rest
  /\ \A s, k : LET cell == [sample |-> s, byte |-> k]
               IN  ~IsBox(cell) /\ cell # Hole /\ cell # Rest
<1>1. DOMAIN Rest = {"rest"} /\ DOMAIN Hole = {"hole"}
  BY DEF Rest, Hole
<1>2. \A type, total, holds :
        DOMAIN [box |-> type, total |-> total, holds |-> holds] = {"box", "total", "holds"}
  OBVIOUS
<1>3. \A s, k : DOMAIN [sample |-> s, byte |-> k] = {"sample", "byte"}
  OBVIOUS
<1> QED BY <1>1, <1>2, <1>3 DEF IsBox

LEMMA HeaderBytesType ==
  /\ HeaderBytes \in Nat /\ HeaderBytes > 0 /\ PayloadBytes \in Nat /\ None \notin Nat
  /\ CompactTotal \in Nat
  BY MuxerAssumption

LEMMA RestsAre ==
  ASSUME NEW n \in Nat
  PROVE  Sequence(Rests(n)) /\ Len(Rests(n)) = n /\ \A i \in 1..n : Rests(n)[i] = Rest
<1>1. Rests(n) = [i \in 1..n |-> Rests(n)[i]] /\ \A i \in 1..n : Rests(n)[i] = Rest
  BY DEF Rests
<1> QED BY <1>1, SequenceOfAny

(* A header with bytes that are neither header nor hole behind it.         *)
LEMMA BehindHeader ==
  ASSUME NEW type, NEW holds, NEW cells, Sequence(cells),
         \A i \in 1..Len(cells) : ~IsBox(cells[i]) /\ cells[i] # Hole
  PROVE  LET header == [box |-> type, total |-> 1 + Len(cells), holds |-> holds]
         IN  /\ OneBox(<<header>> \o cells)
             /\ Len(<<header>> \o cells) = 1 + Len(cells)
             /\ (<<header>> \o cells)[1] = header
             /\ \A i \in 1..Len(cells) : (<<header>> \o cells)[1 + i] = cells[i]
<1> DEFINE header == [box |-> type, total |-> 1 + Len(cells), holds |-> holds]
           whole == <<header>> \o cells
<1>1. Sequence(<<header>>) /\ Len(<<header>>) = 1 /\ <<header>>[1] = header
  BY OneElement
<1>2. IsBox(header) /\ header # Hole /\ header.total = 1 + Len(cells)
  BY CellsDiffer
<1> HIDE DEF header
<1>3. /\ Sequence(whole)
      /\ Len(whole) = 1 + Len(cells)
      /\ Len(cells) \in Nat
      /\ whole[1] = header
      /\ \A i \in 1..Len(cells) : whole[1 + i] = cells[i]
  BY <1>1, ConcatAny
<1> HIDE DEF whole
<1>4. \A i \in 2..Len(whole) : ~IsBox(whole[i]) /\ whole[i] # Hole
  <2> SUFFICES ASSUME NEW i \in 2..Len(whole) PROVE ~IsBox(whole[i]) /\ whole[i] # Hole
    OBVIOUS
  <2>1. i - 1 \in 1..Len(cells) /\ 1 + (i - 1) = i
    BY <1>3
  <2> QED BY <1>3, <2>1
<1>5. OneBox(whole)
  BY <1>2, <1>3, <1>4 DEF OneBox
<1> QED BY <1>3, <1>5 DEF whole, header

LEMMA BoxIs ==
  ASSUME NEW type, NEW total \in Nat, total > 0, NEW holds
  PROVE  /\ OneBox(Box(type, total, holds))
         /\ Len(Box(type, total, holds)) = total
         /\ Box(type, total, holds)[1].box = type
         /\ Box(type, total, holds)[1].total = total
         /\ Box(type, total, holds)[1].holds = holds
         /\ \A i \in 2..total : Box(type, total, holds)[i] = Rest
<1> DEFINE header == [box |-> type, total |-> total, holds |-> holds]
<1>1. total - 1 \in Nat
  OBVIOUS
<1>2. /\ Sequence(Rests(total - 1)) /\ Len(Rests(total - 1)) = total - 1
      /\ \A i \in 1..total - 1 : Rests(total - 1)[i] = Rest
  BY <1>1, RestsAre
<1>3. \A i \in 1..Len(Rests(total - 1)) :
        ~IsBox(Rests(total - 1)[i]) /\ Rests(total - 1)[i] # Hole
  BY <1>2, CellsDiffer
<1>4. 1 + Len(Rests(total - 1)) = total
  BY <1>2
<1>5. Box(type, total, holds) = <<header>> \o Rests(total - 1)
  BY DEF Box
<1>6. /\ OneBox(<<header>> \o Rests(total - 1))
      /\ Len(<<header>> \o Rests(total - 1)) = total
      /\ (<<header>> \o Rests(total - 1))[1] = header
      /\ \A i \in 1..Len(Rests(total - 1)) :
           (<<header>> \o Rests(total - 1))[1 + i] = Rests(total - 1)[i]
  <2> HIDE DEF header
  <2>1. header = [box |-> type, total |-> 1 + Len(Rests(total - 1)), holds |-> holds]
    BY <1>4 DEF header
  <2> QED BY <1>2, <1>3, <1>4, <2>1, BehindHeader
<1>7. \A i \in 2..total : Box(type, total, holds)[i] = Rest
  <2> SUFFICES ASSUME NEW i \in 2..total PROVE Box(type, total, holds)[i] = Rest
    OBVIOUS
  <2>1. i - 1 \in 1..total - 1 /\ 1 + (i - 1) = i
    OBVIOUS
  <2> QED BY <1>2, <1>5, <1>6, <2>1
<1> QED BY <1>5, <1>6, <1>7

LEMMA HeaderLengthIs ==
  ASSUME NEW payload
  PROVE  /\ HeaderLength(payload) \in Nat /\ HeaderLength(payload) > 0
         /\ HeaderLength(payload) = HeaderBytes \/ HeaderLength(payload) = 2 * HeaderBytes
  BY HeaderBytesType DEF HeaderLength
-------------------------------------------------------------------------------
(* SAMPLES                                                                 *)

LEMMA BytesBeforeIs ==
  ASSUME NEW call \in Seq(Sample)
  PROVE  /\ Len(call) \in Nat /\ DOMAIN call = 1..Len(call)
         /\ BytesBefore(call, 1) = 0
         /\ \A i \in 1..Len(call) + 1 : BytesBefore(call, i) \in Nat
         /\ \A i \in 1..Len(call) : /\ call[i].length \in Nat
                                    /\ BytesBefore(call, i + 1) = BytesBefore(call, i) + call[i].length
         /\ \A i, j \in 1..Len(call) + 1 : i <= j => BytesBefore(call, i) <= BytesBefore(call, j)
<1> DEFINE N == Len(call)
           own == [n \in 1..N |-> call[n].length]
           Step(f) == [n \in 0..N |-> IF n = 0 THEN 0 ELSE f[n - 1] + call[n].length]
           first == CHOOSE f : f = Step(f)
<1>1. N \in Nat /\ DOMAIN call = 1..N
  OBVIOUS
<1>2. \A n \in 1..N : own[n] \in Nat /\ own[n] = call[n].length
  <2> SUFFICES ASSUME NEW n \in 1..N PROVE call[n].length \in Nat
    OBVIOUS
  <2>1. call[n] \in Sample
    OBVIOUS
  <2> QED BY <2>1 DEF Sample
<1>3. ASSUME NEW f PROVE Sums(f, N, own) <=> f = Step(f)
  <2>1. \A n \in 0..N : n # 0 => own[n] = call[n].length
    BY <1>1, <1>2
  <2>2. [n \in 0..N |-> IF n = 0 THEN 0 ELSE f[n - 1] + own[n]] = Step(f)
    <3> HIDE DEF own
    <3> QED BY <2>1
  <2> QED BY <2>2 DEF Sums
<1>4. \E f : Sums(f, N, own)
  <2> HIDE DEF own
  <2> QED BY <1>1, <1>2, SumsExist
<1>5. \E f : f = Step(f)
  BY <1>3, <1>4
<1>6. first = Step(first)
  <2> HIDE DEF Step
  <2> QED BY <1>5
<1>7. \A i : BytesBefore(call, i) = first[i - 1]
  BY DEF BytesBefore
<1>8. Sums(first, N, own)
  BY <1>3, <1>6
<1> HIDE DEF first, own
<1>9. /\ first[0] = 0
      /\ \A n \in 0..N : first[n] \in Nat
      /\ \A n \in 1..N : first[n] = first[n - 1] + own[n]
      /\ \A m \in 0..N, n \in 0..N : m <= n => first[m] <= first[n]
  BY <1>1, <1>2, <1>8, SumsSteps
<1>10. \A i \in 1..N + 1 : i - 1 \in 0..N
  BY <1>1
<1>11. \A i \in 1..N + 1 : BytesBefore(call, i) \in Nat
  BY <1>7, <1>9, <1>10
<1>12. \A i \in 1..N : /\ call[i].length \in Nat
                       /\ BytesBefore(call, i + 1) = BytesBefore(call, i) + call[i].length
  <2> SUFFICES ASSUME NEW i \in 1..N
               PROVE  /\ call[i].length \in Nat
                      /\ BytesBefore(call, i + 1) = BytesBefore(call, i) + call[i].length
    OBVIOUS
  <2>1. BytesBefore(call, i + 1) = first[i + 1 - 1] /\ i + 1 - 1 = i
    BY <1>7, <1>1
  <2> QED BY <1>2, <1>7, <1>9, <2>1
<1>13. \A i, j \in 1..N + 1 : i <= j => BytesBefore(call, i) <= BytesBefore(call, j)
  <2> SUFFICES ASSUME NEW i \in 1..N + 1, NEW j \in 1..N + 1, i <= j
               PROVE  BytesBefore(call, i) <= BytesBefore(call, j)
    OBVIOUS
  <2>1. i - 1 \in 0..N /\ j - 1 \in 0..N /\ i - 1 <= j - 1
    BY <1>1
  <2> QED BY <1>7, <1>9, <2>1
<1>14. BytesBefore(call, 1) = 0
  BY <1>7, <1>9
<1> QED BY <1>1, <1>11, <1>12, <1>13, <1>14
(* The bytes of each sample of a call, in a sequence that FlattenSeq makes.*)
SampleBytes(call) ==
  [i \in DOMAIN call |-> [k \in 1..call[i].length |-> [sample |-> accepted + i, byte |-> k]]]

LEMMA SampleBytesFlat ==
  ASSUME NEW call \in Seq(Sample), call # <<>>, accepted \in Nat
  PROVE  /\ FlattenSeq(SampleBytes(call)) \in Seq([sample : Nat, byte : Nat])
         /\ Len(FlattenSeq(SampleBytes(call))) = DataBytes(call)
         /\ \A i \in 1..Len(call) : \A k \in 1..call[i].length :
              FlattenSeq(SampleBytes(call))[BytesBefore(call, i) + k]
                = [sample |-> accepted + i, byte |-> k]
<1> DEFINE Cell == [sample : Nat, byte : Nat]
           seqs == SampleBytes(call)
           N == Len(call)
<1>1. /\ N \in Nat /\ DOMAIN call = 1..N /\ N # 0
      /\ BytesBefore(call, 1) = 0
      /\ \A i \in 1..N + 1 : BytesBefore(call, i) \in Nat
      /\ \A i \in 1..N : /\ call[i].length \in Nat
                         /\ BytesBefore(call, i + 1) = BytesBefore(call, i) + call[i].length
  BY BytesBeforeIs, EmptySeq
<1>2. \A i \in 1..N : /\ seqs[i] = [k \in 1..call[i].length |-> [sample |-> accepted + i, byte |-> k]]
                      /\ seqs[i] \in Seq(Cell) /\ Len(seqs[i]) = call[i].length
  <2> SUFFICES ASSUME NEW i \in 1..N
               PROVE  /\ seqs[i] = [k \in 1..call[i].length |-> [sample |-> accepted + i, byte |-> k]]
                      /\ seqs[i] \in Seq(Cell) /\ Len(seqs[i]) = call[i].length
    OBVIOUS
  <2>1. seqs[i] = [k \in 1..call[i].length |-> [sample |-> accepted + i, byte |-> k]]
    BY <1>1 DEF SampleBytes
  <2>2. call[i].length \in Nat /\ accepted + i \in Nat
    BY <1>1
  <2>3. \A k \in 1..call[i].length : [sample |-> accepted + i, byte |-> k] \in Cell
    BY <2>2
  <2> DEFINE t == [k \in 1..call[i].length |-> [sample |-> accepted + i, byte |-> k]]
  <2>4. t \in [1..call[i].length -> Cell]
    BY <2>3
  <2> HIDE DEF t, Cell
  <2>5. t \in Seq(Cell) /\ Len(t) = call[i].length
    BY <2>2, <2>4
  <2> QED BY <2>1, <2>5 DEF t
<1>3. seqs \in [1..N -> Seq(Cell)]
  <2>1. seqs = [i \in 1..N |-> seqs[i]]
    BY <1>1 DEF SampleBytes
  <2> HIDE DEF seqs
  <2> QED BY <1>2, <2>1
<1> HIDE DEF seqs, Cell
<1>4. seqs \in Seq(Seq(Cell)) /\ Len(seqs) = N /\ seqs # <<>>
  <2>1. seqs \in Seq(Seq(Cell)) /\ Len(seqs) = N
    BY <1>1, <1>3
  <2> QED BY <1>1, <2>1, EmptySeq
<1>5. PICK f \in [1..N -> Seq(Cell)] : Joins(seqs, f, N) /\ FlattenSeq(seqs) = f[N]
  BY <1>4, FlattenSteps
<1> DEFINE Right(n) ==
             /\ Len(f[n]) = BytesBefore(call, n + 1)
             /\ \A i \in 1..n : \A k \in 1..call[i].length :
                  f[n][BytesBefore(call, i) + k] = [sample |-> accepted + i, byte |-> k]
           T == {n \in Nat : n \in 1..N => Right(n)}
<1>6. 0 \in T
  OBVIOUS
<1>7. ASSUME NEW n \in Nat, n \in T PROVE n + 1 \in T
  <2> SUFFICES ASSUME n + 1 \in 1..N PROVE Right(n + 1)
    OBVIOUS
  <2>1. /\ n = 0 => f[n + 1] = seqs[n + 1]
        /\ n # 0 => n \in 1..N /\ f[n + 1] = f[n] \o seqs[n + 1]
    BY <1>1, <1>5, JoinsSteps, ZenonT(60)
  <2>2. /\ seqs[n + 1] = [k \in 1..call[n + 1].length |-> [sample |-> accepted + (n + 1), byte |-> k]]
        /\ Len(seqs[n + 1]) = call[n + 1].length
        /\ seqs[n + 1] \in Seq(Cell)
        /\ call[n + 1].length \in Nat
        /\ BytesBefore(call, n + 1 + 1) = BytesBefore(call, n + 1) + call[n + 1].length
        /\ BytesBefore(call, n + 1) \in Nat
    BY <1>1, <1>2
  <2>3. CASE n = 0
    <3>1. Len(f[n + 1]) = BytesBefore(call, n + 1 + 1)
      BY <1>1, <2>1, <2>2, <2>3
    <3>2. \A i \in 1..n + 1 : i = 1
      BY <2>3
    <3>3. \A k \in 1..call[1].length : f[1][BytesBefore(call, 1) + k] = [sample |-> accepted + 1, byte |-> k]
      <4>1. f[1] = [k \in 1..call[1].length |-> [sample |-> accepted + 1, byte |-> k]]
        BY <2>1, <2>2, <2>3
      <4>2. BytesBefore(call, 1) = 0
        BY <1>1
      <4>3. \A k \in 1..call[1].length : 0 + k = k
        BY <2>2
      <4> QED BY <4>1, <4>2, <4>3
    <3> QED BY <3>1, <3>2, <3>3, <2>3
  <2>4. CASE n # 0
    <3>1. n \in 1..N /\ f[n + 1] = f[n] \o seqs[n + 1] /\ f[n] \in Seq(Cell)
      BY <2>1, <2>4, <1>5
    <3>2. Right(n)
      BY <3>1, <1>7
    <3> DEFINE s == f[n]
               t == seqs[n + 1]
    <3>3. Sequence(s) /\ Sequence(t)
      BY <3>1, <2>2, SequenceOf
    <3>4. Len(s) = BytesBefore(call, n + 1) /\ Len(t) = call[n + 1].length
      BY <3>2, <2>2
    <3>5. \A i \in 1..n : \A k \in 1..call[i].length :
            BytesBefore(call, i) + k \in 1..Len(s)
      <4> SUFFICES ASSUME NEW i \in 1..n, NEW k \in 1..call[i].length
                   PROVE  BytesBefore(call, i) + k \in 1..Len(s)
        OBVIOUS
      <4>1. i \in 1..N /\ i + 1 \in 1..N + 1 /\ n + 1 \in 1..N + 1 /\ i \in 1..N + 1 /\ i + 1 <= n + 1
        BY <3>1
      <4>2. BytesBefore(call, i + 1) <= BytesBefore(call, n + 1)
        BY <4>1, BytesBeforeIs
      <4>3. /\ BytesBefore(call, i + 1) = BytesBefore(call, i) + call[i].length
            /\ call[i].length \in Nat /\ BytesBefore(call, i) \in Nat
        BY <4>1, <1>1
      <4> QED BY <4>2, <4>3, <3>4, <2>2, SMTT(60)
    <3> HIDE DEF s, t
    <3>6. /\ Len(s \o t) = Len(s) + Len(t)
          /\ \A i \in 1..Len(s) : (s \o t)[i] = s[i]
          /\ \A i \in 1..Len(t) : (s \o t)[Len(s) + i] = t[i]
      BY <3>3, ConcatAny
    <3>7. Len(f[n + 1]) = BytesBefore(call, n + 1 + 1)
      BY <3>1, <3>4, <3>6, <2>2 DEF s, t
    <3>8. ASSUME NEW i \in 1..n + 1, NEW k \in 1..call[i].length
          PROVE  f[n + 1][BytesBefore(call, i) + k] = [sample |-> accepted + i, byte |-> k]
      <4>0. f[n + 1] = s \o t
        BY <3>1 DEF s, t
      <4>1. CASE i = n + 1
        <5>1. k \in 1..Len(t) /\ t[k] = [sample |-> accepted + i, byte |-> k]
          BY <4>1, <2>2, <3>4, <3>8 DEF t
        <5>2. BytesBefore(call, i) = Len(s)
          BY <4>1, <3>4
        <5> QED BY <4>0, <5>1, <5>2, <3>6
      <4>2. CASE i # n + 1
        <5>1. i \in 1..n
          BY <4>2
        <5>2. s[BytesBefore(call, i) + k] = [sample |-> accepted + i, byte |-> k]
          BY <5>1, <3>2, <3>8 DEF s
        <5> QED BY <4>0, <5>1, <5>2, <3>5, <3>6, <3>8
      <4> QED BY <4>1, <4>2
    <3> QED BY <3>7, <3>8
  <2> HIDE DEF Right
  <2> QED BY <2>3, <2>4
<1>8. \A n \in Nat : n \in T
  <2> HIDE DEF T
  <2> QED BY <1>6, <1>7, SetInduction
<1>9. N \in 1..N /\ Right(N)
  <2>1. N \in 1..N
    BY <1>1
  <2> HIDE DEF Right
  <2> QED BY <1>8, <1>1, <2>1
<1>10. f[N] \in Seq(Cell)
  BY <1>5, <1>9
<1> QED BY <1>5, <1>9, <1>10 DEF DataBytes, seqs, Cell

(* The mdat of a call is a box that holds the bytes of its samples.        *)
LEMMA MediaDataIs ==
  ASSUME NEW call \in Seq(Sample), call # <<>>, accepted \in Nat
  PROVE  /\ OneBox(MediaData(call))
         /\ MediaData(call)[1].box = "mdat"
         /\ DataBytes(call) \in Nat
         /\ Len(MediaData(call)) = HeaderLength(DataBytes(call)) + DataBytes(call)
         /\ \A i \in 1..Len(call) : \A k \in 1..call[i].length :
              MediaData(call)[HeaderLength(DataBytes(call)) + BytesBefore(call, i) + k]
                = [sample |-> accepted + i, byte |-> k]
<1> DEFINE header == HeaderLength(DataBytes(call))
           first == [box |-> "mdat", total |-> header + DataBytes(call), holds |-> {}]
           bytes == FlattenSeq(SampleBytes(call))
           rests == Rests(header - 1)
           cells == rests \o bytes
<1>1. header \in Nat /\ header > 0
  BY HeaderLengthIs
<1>2. /\ Len(call) \in Nat
      /\ DataBytes(call) \in Nat
      /\ \A i \in 1..Len(call) + 1 : BytesBefore(call, i) \in Nat
      /\ \A i \in 1..Len(call) : /\ call[i].length \in Nat
                                 /\ BytesBefore(call, i) + call[i].length <= DataBytes(call)
  <2>1. /\ Len(call) \in Nat
        /\ \A i \in 1..Len(call) + 1 : BytesBefore(call, i) \in Nat
        /\ \A i \in 1..Len(call) : /\ call[i].length \in Nat
                                   /\ BytesBefore(call, i + 1) = BytesBefore(call, i) + call[i].length
        /\ \A i, j \in 1..Len(call) + 1 : i <= j => BytesBefore(call, i) <= BytesBefore(call, j)
    BY BytesBeforeIs
  <2>2. \A i \in 1..Len(call) : i + 1 \in 1..Len(call) + 1 /\ i + 1 <= Len(call) + 1
    BY <2>1
  <2>3. Len(call) + 1 \in 1..Len(call) + 1
    BY <2>1
  <2>4. \A i \in 1..Len(call) : BytesBefore(call, i + 1) <= BytesBefore(call, Len(call) + 1)
    BY <2>1, <2>2, <2>3
  <2> QED BY <2>1, <2>3, <2>4 DEF DataBytes
<1>3. /\ bytes \in Seq([sample : Nat, byte : Nat])
      /\ Len(bytes) = DataBytes(call)
      /\ \A i \in 1..Len(call) : \A k \in 1..call[i].length :
           bytes[BytesBefore(call, i) + k] = [sample |-> accepted + i, byte |-> k]
  BY SampleBytesFlat
<1>4. Sequence(rests) /\ Len(rests) = header - 1 /\ \A i \in 1..header - 1 : rests[i] = Rest
  BY <1>1, RestsAre
<1>5. Sequence(bytes)
  BY <1>3, SequenceOf
<1>6. \A i \in 1..Len(bytes) : ~IsBox(bytes[i]) /\ bytes[i] # Hole
  <2> SUFFICES ASSUME NEW i \in 1..Len(bytes) PROVE ~IsBox(bytes[i]) /\ bytes[i] # Hole
    OBVIOUS
  <2>1. bytes[i] \in [sample : Nat, byte : Nat]
    <3> DEFINE Cell == [sample : Nat, byte : Nat]
    <3>1. bytes \in Seq(Cell)
      BY <1>3
    <3> HIDE DEF bytes, Cell
    <3>2. bytes[i] \in Cell
      BY <3>1
    <3> QED BY <3>2 DEF Cell
  <2>2. bytes[i] = [sample |-> bytes[i].sample, byte |-> bytes[i].byte]
    <3> HIDE DEF bytes
    <3> QED BY <2>1
  <2> QED BY <2>2, CellsDiffer
<1>7. MediaData(call) = <<first>> \o cells
  <2>1. MediaData(call) = <<first>> \o rests \o bytes
    BY DEF MediaData, SampleBytes
  <2>2. <<first>> \o rests \o bytes = <<first>> \o (rests \o bytes)
    <3> DEFINE S == Range(<<first>>) \cup Range(rests) \cup Range(bytes)
    <3>1. Sequence(<<first>>)
      BY OneElement
    <3> HIDE DEF first, rests, bytes
    <3>2. <<first>> \in Seq(S) /\ rests \in Seq(S) /\ bytes \in Seq(S)
      BY <3>1, <1>4, <1>5 DEF Sequence
    <3> HIDE DEF S
    <3> QED BY <3>2, ConcatAssociative
  <2> QED BY <2>1, <2>2
<1> HIDE DEF bytes, rests
<1>8. /\ Sequence(cells)
      /\ Len(cells) = header - 1 + DataBytes(call)
      /\ \A i \in 1..header - 1 : cells[i] = rests[i]
      /\ \A i \in 1..DataBytes(call) : cells[header - 1 + i] = bytes[i]
  <2>1. /\ Sequence(cells)
        /\ Len(cells) = Len(rests) + Len(bytes)
        /\ \A i \in 1..Len(rests) : cells[i] = rests[i]
        /\ \A i \in 1..Len(bytes) : cells[Len(rests) + i] = bytes[i]
    BY <1>4, <1>5, ConcatAny
  <2>2. Len(rests) = header - 1 /\ Len(bytes) = DataBytes(call)
    BY <1>3, <1>4
  <2> HIDE DEF cells, header
  <2> QED BY <2>1, <2>2
<1>9. \A i \in 1..Len(cells) : ~IsBox(cells[i]) /\ cells[i] # Hole
  <2> SUFFICES ASSUME NEW i \in 1..Len(cells) PROVE ~IsBox(cells[i]) /\ cells[i] # Hole
    OBVIOUS
  <2> HIDE DEF cells, header
  <2>1. CASE i <= header - 1
    <3>1. i \in 1..header - 1
      BY <2>1, <1>1
    <3> QED BY <3>1, <1>4, <1>8, CellsDiffer
  <2>2. CASE ~(i <= header - 1)
    <3>1. i - (header - 1) \in 1..DataBytes(call) /\ header - 1 + (i - (header - 1)) = i
      BY <2>2, <1>1, <1>2, <1>8
    <3> QED BY <3>1, <1>3, <1>6, <1>8
  <2> QED BY <2>1, <2>2
<1>10. 1 + Len(cells) = header + DataBytes(call)
  BY <1>1, <1>2, <1>8
<1>11. /\ OneBox(<<first>> \o cells)
       /\ Len(<<first>> \o cells) = header + DataBytes(call)
       /\ (<<first>> \o cells)[1] = first
       /\ \A i \in 1..Len(cells) : (<<first>> \o cells)[1 + i] = cells[i]
  <2> HIDE DEF cells
  <2>1. first = [box |-> "mdat", total |-> 1 + Len(cells), holds |-> {}]
    BY <1>10
  <2> HIDE DEF first
  <2> QED BY <1>8, <1>9, <1>10, <2>1, BehindHeader
<1>12. ASSUME NEW i \in 1..Len(call), NEW k \in 1..call[i].length
       PROVE  (<<first>> \o cells)[header + BytesBefore(call, i) + k] = [sample |-> accepted + i, byte |-> k]
  <2> DEFINE j == BytesBefore(call, i) + k
  <2>1. i \in 1..Len(call) + 1
    BY <1>2
  <2>2. j \in 1..DataBytes(call)
    BY <1>2, <2>1
  <2>3. header - 1 + j \in 1..Len(cells) /\ 1 + (header - 1 + j) = header + BytesBefore(call, i) + k
    <3> HIDE DEF cells, header
    <3> QED BY <1>1, <1>2, <1>8, <2>1, <2>2, SMTT(60)
  <2>4. cells[header - 1 + j] = [sample |-> accepted + i, byte |-> k]
    BY <1>3, <1>8, <2>2
  <2> HIDE DEF cells, first, j
  <2> QED BY <1>11, <2>3, <2>4
<1>13. first.box = "mdat"
  OBVIOUS
<1> HIDE DEF cells, first
<1> QED BY <1>2, <1>7, <1>11, <1>12, <1>13
-------------------------------------------------------------------------------
(* A BOX BEHIND THE OTHERS                                                 *)

Layout(written, outputs, file, starts) ==
  Boxed(file, starts) /\ Queued(written, outputs, file, Len(outputs))

Added(longer, more, file, starts, cells) ==
  /\ Len(file) \in Nat /\ Len(cells) \in Nat
  /\ Len(longer) = Len(file) + Len(cells)
  /\ \A i \in 1..Len(file) : longer[i] = file[i]
  /\ \A i \in 1..Len(cells) : longer[Len(file) + i] = cells[i]
  /\ more = starts \cup {Len(file)}
  /\ \A o \in starts : /\ o \in Nat /\ o < Len(file)
                       /\ TotalIn(file, o) \in Nat \ {0} /\ EndIn(file, o) <= Len(file)
                       /\ TypeIn(longer, o) = TypeIn(file, o)
                       /\ HoldsIn(longer, o) = HoldsIn(file, o)
                       /\ TotalIn(longer, o) = TotalIn(file, o)
                       /\ EndIn(longer, o) = EndIn(file, o)
  /\ TypeIn(longer, Len(file)) = cells[1].box
  /\ HoldsIn(longer, Len(file)) = cells[1].holds
  /\ TotalIn(longer, Len(file)) = Len(cells)
  /\ EndIn(longer, Len(file)) = Len(longer)

LEMMA AddedBehind ==
  ASSUME NEW file, NEW starts, Boxed(file, starts), NEW cells, OneBox(cells)
  PROVE  Added(file \o cells, starts \cup {Len(file)}, file, starts, cells)
<1> DEFINE longer == file \o cells
<1>1. Sequence(file) /\ Sequence(cells)
  BY DEF Boxed, OneBox
<1>2. /\ Len(longer) = Len(file) + Len(cells)
      /\ Len(file) \in Nat /\ Len(cells) \in Nat
      /\ \A i \in 1..Len(file) : longer[i] = file[i]
      /\ \A i \in 1..Len(cells) : longer[Len(file) + i] = cells[i]
  BY <1>1, ConcatAny
<1> HIDE DEF longer
<1>3. ASSUME NEW o \in starts
      PROVE  /\ o \in Nat /\ o < Len(file)
             /\ TotalIn(file, o) \in Nat \ {0} /\ EndIn(file, o) <= Len(file)
             /\ longer[o + 1] = file[o + 1]
  <2>1. o \in Nat /\ o < Len(file) /\ IsBox(file[o + 1]) /\ EndIn(file, o) <= Len(file)
    BY DEF Boxed
  <2>2. o + 1 \in 1..Len(file) /\ DOMAIN file = 1..Len(file)
    BY <1>1, <1>2, <2>1, SequenceShape
  <2>3. file[o + 1].total \in Nat \ {0}
    BY <2>1, <2>2 DEF Boxed
  <2> QED BY <1>2, <2>1, <2>2, <2>3 DEF TotalIn
<1>4. longer[Len(file) + 1] = cells[1] /\ cells[1].total = Len(cells)
  <2>1. 1 \in 1..Len(cells) /\ cells[1].total = Len(cells)
    BY <1>2 DEF OneBox
  <2> QED BY <1>2, <2>1
<1>5. \A o \in starts : /\ TypeIn(longer, o) = TypeIn(file, o)
                        /\ HoldsIn(longer, o) = HoldsIn(file, o)
                        /\ TotalIn(longer, o) = TotalIn(file, o)
                        /\ EndIn(longer, o) = EndIn(file, o)
  BY <1>3 DEF TypeIn, HoldsIn, TotalIn, EndIn
<1>6. /\ TypeIn(longer, Len(file)) = cells[1].box
      /\ HoldsIn(longer, Len(file)) = cells[1].holds
      /\ TotalIn(longer, Len(file)) = Len(cells)
      /\ EndIn(longer, Len(file)) = Len(longer)
  BY <1>2, <1>4 DEF TypeIn, HoldsIn, TotalIn, EndIn
<1>7. Added(longer, starts \cup {Len(file)}, file, starts, cells)
  BY <1>2, <1>3, <1>5, <1>6 DEF Added
<1> QED BY <1>7 DEF longer

LEMMA BoxedBehind ==
  ASSUME NEW file, NEW starts, Boxed(file, starts), NEW cells, OneBox(cells)
  PROVE  Boxed(file \o cells, starts \cup {Len(file)})
<1> DEFINE longer == file \o cells
           more == starts \cup {Len(file)}
<1>1. Added(longer, more, file, starts, cells)
  BY AddedBehind
<1>2. Sequence(file) /\ Sequence(cells)
  BY DEF Boxed, OneBox
<1>3. Sequence(longer) /\ DOMAIN longer = 1..Len(file) + Len(cells)
  BY <1>2, ConcatAny
<1> HIDE DEF longer
<1>4. /\ Len(file) \in Nat /\ Len(cells) \in Nat /\ Len(cells) > 0
      /\ Len(longer) = Len(file) + Len(cells)
      /\ \A i \in 1..Len(file) : longer[i] = file[i]
      /\ \A i \in 1..Len(cells) : longer[Len(file) + i] = cells[i]
  BY <1>1 DEF Added, OneBox
<1>5. ASSUME NEW i \in DOMAIN longer
      PROVE  longer[i] # Hole /\ (IsBox(longer[i]) => longer[i].total \in Nat \ {0})
  <2>1. i \in 1..Len(file) + Len(cells)
    BY <1>3
  <2>2. CASE i <= Len(file)
    <3>1. i \in 1..Len(file) /\ DOMAIN file = 1..Len(file)
      BY <2>1, <2>2, <1>2, <1>4, SequenceShape
    <3>2. longer[i] = file[i] /\ i \in DOMAIN file
      BY <3>1, <1>4
    <3> QED BY <3>2 DEF Boxed
  <2>3. CASE ~(i <= Len(file))
    <3> DEFINE j == i - Len(file)
    <3>1. j \in 1..Len(cells) /\ Len(file) + j = i
      BY <2>1, <2>3, <1>4
    <3>2. longer[i] = cells[j]
      BY <3>1, <1>4
    <3> HIDE DEF j
    <3>3. CASE j = 1
      BY <3>2, <3>3, <1>4 DEF OneBox
    <3>4. CASE j # 1
      <4>1. j \in 2..Len(cells)
        BY <3>1, <3>4, <1>4
      <4> QED BY <3>2, <4>1 DEF OneBox
    <3> QED BY <3>3, <3>4
  <2> QED BY <2>2, <2>3
<1>6. more \subseteq Nat
  BY <1>4 DEF Boxed
<1>7. ASSUME NEW o \in more
      PROVE  /\ o < Len(longer)
             /\ IsBox(longer[o + 1])
             /\ EndIn(longer, o) <= Len(longer)
             /\ EndIn(longer, o) = Len(longer) \/ EndIn(longer, o) \in more
             /\ \A p \in more : o < p => EndIn(longer, o) <= p
  <2>1. CASE o \in starts
    <3>1. /\ o \in Nat /\ o < Len(file) /\ EndIn(longer, o) = EndIn(file, o)
          /\ TotalIn(file, o) \in Nat
      BY <2>1, <1>1 DEF Added
    <3>2. o + 1 \in 1..Len(file)
      BY <3>1, <1>4
    <3>3. /\ IsBox(file[o + 1]) /\ EndIn(file, o) <= Len(file)
          /\ EndIn(file, o) = Len(file) \/ EndIn(file, o) \in starts
          /\ \A p \in starts : o < p => EndIn(file, o) <= p
      BY <2>1 DEF Boxed
    <3>4. EndIn(file, o) \in Nat
      BY <3>1 DEF EndIn, TotalIn
    <3>5. o < Len(longer) /\ EndIn(longer, o) <= Len(longer)
      BY <3>1, <3>3, <3>4, <1>4
    <3>6. IsBox(longer[o + 1])
      BY <3>2, <3>3, <1>4
    <3>7. \A p \in more : o < p => EndIn(longer, o) <= p
      BY <3>1, <3>3
    <3> QED BY <3>1, <3>3, <3>5, <3>6, <3>7
  <2>2. CASE o \notin starts
    <3>1. o = Len(file) /\ EndIn(longer, o) = Len(longer)
      BY <2>2, <1>1 DEF Added
    <3>2. IsBox(longer[o + 1])
      <4>1. 1 \in 1..Len(cells)
        BY <1>4
      <4>2. longer[o + 1] = cells[1]
        BY <4>1, <3>1, <1>4
      <4> QED BY <4>2 DEF OneBox
    <3>3. \A p \in more : ~(o < p)
      <4>1. \A p \in starts : p \in Nat /\ p < Len(file)
        BY <1>1 DEF Added
      <4> QED BY <3>1, <4>1, <1>4
    <3> QED BY <3>1, <3>2, <3>3, <1>4
  <2> QED BY <2>1, <2>2
<1>8. 0 \in more
  <2>1. Len(file) > 0 => 0 \in starts
    BY DEF Boxed
  <2> QED BY <2>1, <1>4
<1>9. Boxed(longer, more)
  <2> HIDE DEF more
  <2> QED BY <1>3, <1>5, <1>6, <1>7, <1>8 DEF Boxed
<1> QED BY <1>9 DEF longer

LEMMA QueuedBehind ==
  ASSUME NEW file, Sequence(file), NEW cells, OneBox(cells),
         NEW written, NEW outputs, Queued(written, outputs, file, Len(outputs))
  PROVE  Queued(written, Append(outputs, At(Len(file), cells)), file \o cells,
                Len(Append(outputs, At(Len(file), cells))))
<1> DEFINE longer == file \o cells
           last == At(Len(file), cells)
           queue == Append(outputs, last)
           N == Len(outputs)
<1>1. Sequence(cells) /\ Len(cells) > 0
  BY DEF OneBox
<1>2. /\ Len(longer) = Len(file) + Len(cells)
      /\ Len(file) \in Nat /\ Len(cells) \in Nat
      /\ \A i \in 1..Len(file) : longer[i] = file[i]
      /\ \A i \in 1..Len(cells) : longer[Len(file) + i] = cells[i]
  BY <1>1, ConcatAny
<1>3. Sequence(written) /\ Sequence(outputs) /\ Len(written) <= Len(file)
  BY DEF Queued
<1>4. /\ Sequence(queue) /\ N \in Nat /\ Len(queue) = N + 1
      /\ \A k \in 1..N : queue[k] = outputs[k]
      /\ queue[N + 1] = last
  BY <1>3, AppendAny
<1>5. last.offset = Len(file) /\ last.cells = cells /\ last = At(last.offset, last.cells)
  BY DEF At
<1>6. Len(written) \in Nat /\ DOMAIN written = 1..Len(written) /\ DOMAIN cells = 1..Len(cells)
  BY <1>1, <1>3, SequenceShape
<1> HIDE DEF longer, queue, last
<1>7. \A i \in DOMAIN written : written[i] = longer[i]
  <2> SUFFICES ASSUME NEW i \in DOMAIN written PROVE written[i] = longer[i]
    OBVIOUS
  <2>1. i \in 1..Len(file)
    BY <1>2, <1>3, <1>6
  <2> QED BY <1>2, <2>1 DEF Queued
<1>8. ASSUME NEW k \in 1..N + 1
      PROVE  /\ queue[k] = At(queue[k].offset, queue[k].cells)
             /\ queue[k].offset \in Nat
             /\ Sequence(queue[k].cells)
             /\ Len(queue[k].cells) > 0
             /\ queue[k].offset + Len(queue[k].cells) <= Len(longer)
             /\ \A i \in DOMAIN queue[k].cells : queue[k].cells[i] = longer[queue[k].offset + i]
             /\ queue[k].offset = IF k = 1 THEN Len(written)
                                  ELSE queue[k - 1].offset + Len(queue[k - 1].cells)
  <2>1. CASE k \in 1..N
    <3> DEFINE q == outputs[k]
    <3>1. /\ q = At(q.offset, q.cells)
          /\ q.offset \in Nat /\ Sequence(q.cells) /\ Len(q.cells) > 0
          /\ q.offset + Len(q.cells) <= Len(file)
          /\ \A i \in DOMAIN q.cells : q.cells[i] = file[q.offset + i]
          /\ q.offset = IF k = 1 THEN Len(written) ELSE outputs[k - 1].offset + Len(outputs[k - 1].cells)
      BY <2>1 DEF Queued
    <3>2. queue[k] = q /\ (k # 1 => queue[k - 1] = outputs[k - 1])
      <4>1. k # 1 => k - 1 \in 1..N
        BY <2>1, <1>4
      <4> QED BY <2>1, <4>1, <1>4
    <3> HIDE DEF q
    <3>3. Len(q.cells) \in Nat /\ DOMAIN q.cells = 1..Len(q.cells)
      BY <3>1, SequenceShape
    <3>4. \A i \in DOMAIN q.cells : q.offset + i \in 1..Len(file)
      <4>1. q.offset \in Nat /\ Len(file) \in Nat /\ q.offset + Len(q.cells) <= Len(file)
        BY <3>1, <1>2
      <4> QED BY ONLY <4>1, <3>3
    <3>5. \A i \in DOMAIN q.cells : q.cells[i] = longer[q.offset + i]
      BY <3>1, <3>4, <1>2
    <3>6. q.offset + Len(q.cells) <= Len(longer)
      BY <3>1, <3>3, <1>2
    <3> QED BY <3>1, <3>2, <3>5, <3>6 DEF q
  <2>2. CASE k = N + 1
    <3>1. queue[k] = last
      BY <2>2, <1>4
    <3>2. last.offset = IF k = 1 THEN Len(written) ELSE queue[k - 1].offset + Len(queue[k - 1].cells)
      <4>1. Len(file) = IF N = 0 THEN Len(written) ELSE outputs[N].offset + Len(outputs[N].cells)
        BY DEF Queued
      <4>2. (k = 1 <=> N = 0) /\ k - 1 = N
        BY <2>2, <1>4
      <4>3. N # 0 => queue[N] = outputs[N]
        BY <1>4
      <4> QED BY <4>1, <4>2, <4>3, <1>5
    <3>3. \A i \in DOMAIN last.cells : last.cells[i] = longer[last.offset + i]
      BY <1>2, <1>5, <1>6
    <3> QED BY <3>1, <3>2, <3>3, <1>1, <1>2, <1>5
  <2> QED BY <2>1, <2>2, <1>4
<1>9. Len(longer) = IF N + 1 = 0 THEN Len(written) ELSE queue[N + 1].offset + Len(queue[N + 1].cells)
  BY <1>2, <1>4, <1>5
<1>10. Len(written) <= Len(longer) /\ N + 1 \in 0..Len(queue)
  BY <1>2, <1>3, <1>4, <1>6
<1>11. Queued(written, queue, longer, N + 1)
  BY <1>3, <1>4, <1>7, <1>8, <1>9, <1>10 DEF Queued
<1> QED BY <1>4, <1>11 DEF longer, queue, last

LEMMA LayoutBehind ==
  ASSUME NEW written, NEW outputs, NEW file, NEW starts, Layout(written, outputs, file, starts),
         NEW cells, OneBox(cells)
  PROVE  /\ Layout(written, Append(outputs, At(Len(file), cells)), file \o cells,
                   starts \cup {Len(file)})
         /\ Added(file \o cells, starts \cup {Len(file)}, file, starts, cells)
<1>1. Boxed(file, starts) /\ Queued(written, outputs, file, Len(outputs)) /\ Sequence(file)
  BY DEF Layout, Boxed
<1> QED BY <1>1, AddedBehind, BoxedBehind, QueuedBehind DEF Layout
-------------------------------------------------------------------------------
(* WHAT A BOX BEHIND THE OTHERS LEAVES AS IT WAS                           *)

LEMMA HoldingMore ==
  ASSUME NEW longer, NEW more, NEW file, NEW starts, NEW cells,
         Added(longer, more, file, starts, cells),
         NEW place, NEW m, Holding(file, place, m)
  PROVE  Holding(longer, place, m)
<1>1. /\ Len(file) \in Nat /\ Len(file) <= Len(longer) /\ Len(longer) \in Nat
      /\ \A i \in 1..Len(file) : longer[i] = file[i]
  BY DEF Added
<1>2. ASSUME NEW s \in 1..m
      PROVE  /\ EndOf(place[s]) <= Len(longer)
             /\ \A k \in 1..place[s].length : longer[place[s].start + k] = [sample |-> s, byte |-> k]
  <2>1. /\ place[s].start \in Nat /\ place[s].length \in Nat
        /\ place[s].start + place[s].length <= Len(file)
        /\ \A k \in 1..place[s].length : file[place[s].start + k] = [sample |-> s, byte |-> k]
    BY DEF Holding, EndOf
  <2>2. \A k \in 1..place[s].length : place[s].start + k \in 1..Len(file)
    BY <2>1, <1>1
  <2>3. \A k \in 1..place[s].length : longer[place[s].start + k] = [sample |-> s, byte |-> k]
    BY <2>1, <2>2, <1>1
  <2>4. EndOf(place[s]) <= Len(longer)
    BY <2>1, <1>1 DEF EndOf
  <2> QED BY <2>3, <2>4
<1> QED BY <1>2 DEF Holding

(* Where the samples are once those of a call lie from `origin` on.        *)
Placed(place, m, call, origin) ==
  [s \in 1..m + Len(call) |->
     IF s <= m THEN place[s]
     ELSE [start |-> origin + BytesBefore(call, s - m), length |-> call[s - m].length]]

LEMMA PlacedIs ==
  ASSUME NEW place, NEW m \in Nat, NEW call \in Seq(Sample), NEW origin
  PROVE  /\ \A s \in 1..m : Placed(place, m, call, origin)[s] = place[s]
         /\ \A i \in 1..Len(call) :
              Placed(place, m, call, origin)[m + i]
                = [start |-> origin + BytesBefore(call, i), length |-> call[i].length]
<1>1. Len(call) \in Nat
  OBVIOUS
<1>2. ASSUME NEW s \in 1..m PROVE Placed(place, m, call, origin)[s] = place[s]
  <2>1. s \in 1..m + Len(call) /\ s <= m
    BY <1>1
  <2> QED BY <2>1 DEF Placed
<1>3. ASSUME NEW i \in 1..Len(call)
      PROVE  Placed(place, m, call, origin)[m + i]
                = [start |-> origin + BytesBefore(call, i), length |-> call[i].length]
  <2>1. m + i \in 1..m + Len(call) /\ ~(m + i <= m) /\ m + i - m = i
    BY <1>1
  <2> QED BY <2>1 DEF Placed
<1> QED BY <1>2, <1>3

LEMMA HoldingCall ==
  ASSUME NEW longer, NEW more, NEW file, NEW starts, NEW call \in Seq(Sample), call # <<>>,
         Added(longer, more, file, starts, MediaData(call)),
         NEW place, Holding(file, place, accepted)
  PROVE  Holding(longer, Placed(place, accepted, call, Len(file) + HeaderLength(DataBytes(call))),
                 accepted + Len(call))
<1> DEFINE H == HeaderLength(DataBytes(call))
           B(i) == BytesBefore(call, i)
           m == accepted
           placed == Placed(place, m, call, Len(file) + H)
           cells == MediaData(call)
<1>1. m \in Nat
  BY DEF Holding
<1>2. /\ H \in Nat /\ DataBytes(call) \in Nat /\ DataBytes(call) = B(Len(call) + 1)
      /\ Len(cells) = H + DataBytes(call)
      /\ \A i \in 1..Len(call) : \A k \in 1..call[i].length :
           cells[H + B(i) + k] = [sample |-> m + i, byte |-> k]
  <2>1. H \in Nat
    BY HeaderLengthIs
  <2>2. DataBytes(call) = B(Len(call) + 1)
    BY DEF DataBytes
  <2> QED BY <1>1, <2>1, <2>2, MediaDataIs
<1>3. /\ Len(call) \in Nat
      /\ \A i \in 1..Len(call) + 1 : B(i) \in Nat
      /\ \A i \in 1..Len(call) : call[i].length \in Nat /\ B(i + 1) = B(i) + call[i].length
      /\ \A i, j \in 1..Len(call) + 1 : i <= j => B(i) <= B(j)
  BY BytesBeforeIs
<1>4. /\ \A s \in 1..m : placed[s] = place[s]
      /\ \A i \in 1..Len(call) :
           placed[m + i] = [start |-> Len(file) + H + B(i), length |-> call[i].length]
  <2> HIDE DEF H
  <2> QED BY <1>1, PlacedIs
<1> HIDE DEF H, B, placed, cells
<1>5. /\ Len(file) \in Nat /\ Len(longer) = Len(file) + Len(cells) /\ Len(cells) \in Nat
      /\ \A i \in 1..Len(cells) : longer[Len(file) + i] = cells[i]
  BY DEF Added, cells
<1>6. Holding(longer, place, m)
  BY HoldingMore
<1>7. \A s \in 1..m : EndOf(place[s]) <= Len(file) /\ EndOf(place[s]) \in Nat
  BY DEF Holding, EndOf
<1>8. ASSUME NEW i \in 1..Len(call)
      PROVE  /\ placed[m + i].start = Len(file) + H + B(i)
             /\ placed[m + i].length = call[i].length
             /\ placed[m + i].start \in Nat /\ placed[m + i].length \in Nat
             /\ EndOf(placed[m + i]) = Len(file) + H + B(i + 1)
             /\ EndOf(placed[m + i]) <= Len(longer)
             /\ \A k \in 1..placed[m + i].length :
                  longer[placed[m + i].start + k] = [sample |-> m + i, byte |-> k]
  <2>1. placed[m + i].start = Len(file) + H + B(i) /\ placed[m + i].length = call[i].length
    <3>1. placed[m + i] = [start |-> Len(file) + H + B(i), length |-> call[i].length]
      BY <1>4
    <3> QED BY <3>1
  <2>2. /\ i \in 1..Len(call) + 1 /\ i + 1 \in 1..Len(call) + 1 /\ i + 1 <= Len(call) + 1
        /\ Len(call) + 1 \in 1..Len(call) + 1
    BY <1>3
  <2>3. /\ B(i) \in Nat /\ call[i].length \in Nat /\ B(i + 1) = B(i) + call[i].length
        /\ B(i + 1) <= B(Len(call) + 1) /\ B(Len(call) + 1) \in Nat
    BY <1>3, <2>2
  <2>4. /\ placed[m + i].start \in Nat /\ placed[m + i].length \in Nat
        /\ EndOf(placed[m + i]) = Len(file) + H + B(i + 1)
    BY <2>1, <2>3, <1>2, <1>5, SMTT(60) DEF EndOf
  <2>5. EndOf(placed[m + i]) <= Len(longer)
    BY <2>3, <2>4, <1>2, <1>5, SMTT(60)
  <2>6. ASSUME NEW k \in 1..call[i].length
        PROVE  longer[Len(file) + H + B(i) + k] = [sample |-> m + i, byte |-> k]
    <3> DEFINE x == H + B(i) + k
    <3>0. k \in Nat /\ k >= 1 /\ k <= call[i].length
      BY <2>3
    <3>1. x \in 1..Len(cells) /\ Len(file) + H + B(i) + k = Len(file) + x
      <4>1. /\ H \in Nat /\ Len(file) \in Nat /\ Len(cells) = H + B(Len(call) + 1)
            /\ B(i) + call[i].length <= B(Len(call) + 1)
        BY <2>3, <1>2, <1>5
      <4>2. B(i) + k <= B(Len(call) + 1)
        BY <4>1, <3>0, <2>3
      <4>3. B(i) \in Nat /\ B(Len(call) + 1) \in Nat
        BY <2>3
      <4>4. x \in Nat /\ x >= 1 /\ x <= Len(cells)
        BY <4>1, <4>2, <4>3, <3>0
      <4>5. Len(cells) \in Nat
        BY <4>1, <4>3
      <4>6. Len(file) + H + B(i) + k = Len(file) + x
        BY <4>1, <4>3, <3>0
      <4> QED BY <4>4, <4>5, <4>6
    <3>2. cells[x] = [sample |-> m + i, byte |-> k]
      BY <1>2
    <3> HIDE DEF x
    <3> QED BY <3>1, <3>2, <1>5
  <2> QED BY <2>1, <2>4, <2>5, <2>6
<1>9. ASSUME NEW s \in 1..m + Len(call)
      PROVE  /\ placed[s].start \in Nat /\ placed[s].length \in Nat
             /\ EndOf(placed[s]) <= Len(longer)
             /\ \A k \in 1..placed[s].length : longer[placed[s].start + k] = [sample |-> s, byte |-> k]
             /\ \A t \in 1..m + Len(call) : s < t => EndOf(placed[s]) <= placed[t].start
  <2>1. CASE s <= m
    <3>1. s \in 1..m /\ placed[s] = place[s]
      BY <2>1, <1>1, <1>3, <1>4
    <3>2. ASSUME NEW t \in 1..m + Len(call), s < t PROVE EndOf(placed[s]) <= placed[t].start
      <4>1. CASE t <= m
        <5>1. t \in 1..m /\ placed[t] = place[t]
          BY <4>1, <1>1, <1>3, <1>4
        <5> QED BY <3>1, <3>2, <5>1 DEF Holding
      <4>2. CASE ~(t <= m)
        <5> DEFINE j == t - m
        <5>1. j \in 1..Len(call) /\ m + j = t
          BY <4>2, <1>1, <1>3
        <5>2. placed[t].start = Len(file) + H + B(j)
          BY <5>1, <1>8
        <5>3. j \in 1..Len(call) + 1
          BY <5>1, <1>3
        <5>4. B(j) \in Nat
          BY <5>3, <1>3
        <5>5. EndOf(place[s]) <= Len(file) /\ EndOf(place[s]) \in Nat
          BY <3>1, <1>7
        <5> HIDE DEF j
        <5> QED BY <3>1, <5>2, <5>4, <5>5, <1>2, <1>5
      <4> QED BY <4>1, <4>2
    <3>3. /\ place[s].start \in Nat /\ place[s].length \in Nat
          /\ EndOf(place[s]) <= Len(longer)
          /\ \A k \in 1..place[s].length : longer[place[s].start + k] = [sample |-> s, byte |-> k]
      BY <3>1, <1>6 DEF Holding
    <3> QED BY <3>1, <3>2, <3>3
  <2>2. CASE ~(s <= m)
    <3> DEFINE i == s - m
    <3>1. i \in 1..Len(call) /\ m + i = s
      BY <2>2, <1>1, <1>3
    <3>2. ASSUME NEW t \in 1..m + Len(call), s < t PROVE EndOf(placed[s]) <= placed[t].start
      <4> DEFINE j == t - m
      <4>1. j \in 1..Len(call) /\ m + j = t /\ i + 1 <= j
        BY <2>2, <3>2, <1>1, <1>3
      <4>2. i + 1 \in 1..Len(call) + 1 /\ j \in 1..Len(call) + 1
        BY <3>1, <4>1, <1>3
      <4> HIDE DEF i, j
      <4>3. B(i + 1) <= B(j) /\ B(i + 1) \in Nat /\ B(j) \in Nat
        BY <4>1, <4>2, <1>3
      <4>4. EndOf(placed[s]) = Len(file) + H + B(i + 1) /\ placed[t].start = Len(file) + H + B(j)
        BY <3>1, <4>1, <1>8
      <4> QED BY <4>3, <4>4, <1>2, <1>5
    <3> HIDE DEF i
    <3> QED BY <3>1, <3>2, <1>8
  <2> QED BY <2>1, <2>2
<1>10. m + Len(call) \in Nat
  BY <1>1, <1>3
<1> QED BY <1>9, <1>10 DEF Holding, placed, H

LEMMA FreeMore ==
  ASSUME NEW longer, NEW more, NEW file, NEW starts, NEW cells,
         Added(longer, more, file, starts, cells),
         NEW p, NEW total, FreeAt(file, starts, p, total)
  PROVE  FreeAt(longer, more, p, total)
<1>1. p \in starts /\ TypeIn(file, p) = "free" /\ TotalIn(file, p) = total
      /\ \A i \in 2..total : file[p + i] = Rest
  BY DEF FreeAt
<1>2. /\ p \in Nat /\ TotalIn(file, p) \in Nat /\ EndIn(file, p) <= Len(file)
      /\ TypeIn(longer, p) = TypeIn(file, p) /\ TotalIn(longer, p) = TotalIn(file, p)
      /\ Len(file) \in Nat /\ \A i \in 1..Len(file) : longer[i] = file[i]
      /\ p \in more
  BY <1>1 DEF Added
<1>3. ASSUME NEW i \in 2..total PROVE longer[p + i] = Rest
  <2>1. p + total <= Len(file) /\ total \in Nat
    BY <1>1, <1>2 DEF EndIn, TotalIn
  <2>2. p + i \in 1..Len(file)
    BY <2>1, <1>2
  <2> QED BY <2>2, <1>1, <1>2
<1> QED BY <1>1, <1>2, <1>3 DEF FreeAt

LEMMA FreeNew ==
  ASSUME NEW total \in Nat, total > 0, NEW longer, NEW more, NEW file, NEW starts,
         Added(longer, more, file, starts, Free(total))
  PROVE  FreeAt(longer, more, Len(file), total)
<1>1. /\ Len(Free(total)) = total
      /\ Free(total)[1].box = "free"
      /\ \A i \in 2..total : Free(total)[i] = Rest
  BY BoxIs DEF Free
<1>2. /\ Len(file) \in more /\ TypeIn(longer, Len(file)) = "free" /\ TotalIn(longer, Len(file)) = total
      /\ \A i \in 1..Len(Free(total)) : longer[Len(file) + i] = Free(total)[i]
  BY <1>1 DEF Added
<1>3. \A i \in 2..total : i \in 1..total
  OBVIOUS
<1>4. \A i \in 2..total : longer[Len(file) + i] = Rest
  BY <1>1, <1>2, <1>3
<1> QED BY <1>2, <1>4 DEF FreeAt
-------------------------------------------------------------------------------
(* WHAT THE BOXES DECLARE                                                  *)

LEMMA AddedShape ==
  ASSUME NEW longer, NEW more, NEW file, NEW starts, NEW cells,
         Added(longer, more, file, starts, cells)
  PROVE  /\ more = starts \cup {Len(file)}
         /\ Len(file) \in Nat /\ Len(longer) = Len(file) + Len(cells)
         /\ \A o \in starts : /\ o \in Nat /\ o < Len(file) /\ o # Len(file) /\ ~(Len(file) < o)
                              /\ TypeIn(longer, o) = TypeIn(file, o)
                              /\ HoldsIn(longer, o) = HoldsIn(file, o)
                              /\ TotalIn(longer, o) = TotalIn(file, o)
                              /\ EndIn(longer, o) = EndIn(file, o)
         /\ TypeIn(longer, Len(file)) = cells[1].box
         /\ HoldsIn(longer, Len(file)) = cells[1].holds
         /\ TotalIn(longer, Len(file)) = Len(cells)
         /\ EndIn(longer, Len(file)) = Len(longer)
         /\ ~(Len(file) < Len(file))
<1>1. \A o \in starts : o \in Nat /\ o < Len(file)
  BY DEF Added
<1>2. Len(file) \in Nat
  BY DEF Added
<1>3. \A o \in starts : o # Len(file) /\ ~(Len(file) < o)
  BY <1>1, <1>2
<1> QED BY <1>1, <1>2, <1>3 DEF Added

(* A box that declares nothing, or a first moov, in a file of fragments.   *)
LEMMA FragmentsMore ==
  ASSUME NEW longer, NEW more, NEW file, NEW starts, NEW cells,
         Added(longer, more, file, starts, cells),
         NEW place, NEW m, InFragments(file, starts, place, m, FALSE),
         cells[1].box # "moof",
         cells[1].box = "moov" =>
           cells[1].holds = {} /\ \A o \in starts : TypeIn(file, o) # "moov",
         cells[1].box = "mdat" => m > 0
  PROVE  InFragments(longer, more, place, m, FALSE)
<1> DEFINE new == Len(file)
<1>0. /\ more = starts \cup {new}
      /\ \A o \in starts : /\ o # new /\ ~(new < o)
                           /\ TypeIn(longer, o) = TypeIn(file, o)
                           /\ HoldsIn(longer, o) = HoldsIn(file, o)
                           /\ TotalIn(longer, o) = TotalIn(file, o)
      /\ TypeIn(longer, new) = cells[1].box
      /\ HoldsIn(longer, new) = cells[1].holds
      /\ ~(new < new)
  BY AddedShape
<1> HIDE DEF new
<1>1. ASSUME NEW o \in more, TypeIn(longer, o) = "moof"
      PROVE  \A held \in HoldsIn(longer, o) :
               /\ held.sample \in 1..m
               /\ held.offset \in Nat /\ held.offset >= TotalIn(longer, o)
               /\ o + held.offset = place[held.sample].start
               /\ held.length = place[held.sample].length
  <2>1. o \in starts
    BY <1>0, <1>1
  <2> QED BY <2>1, <1>0, <1>1 DEF InFragments
<1>2. \A s \in 1..m : \E o \in more :
         TypeIn(longer, o) = "moof" /\ \E held \in HoldsIn(longer, o) : held.sample = s
  <2> SUFFICES ASSUME NEW s \in 1..m
               PROVE  \E o \in more : TypeIn(longer, o) = "moof"
                                      /\ \E held \in HoldsIn(longer, o) : held.sample = s
    OBVIOUS
  <2>1. PICK o \in starts : TypeIn(file, o) = "moof" /\ \E held \in HoldsIn(file, o) : held.sample = s
    BY DEF InFragments
  <2>2. o \in more /\ TypeIn(longer, o) = "moof" /\ HoldsIn(longer, o) = HoldsIn(file, o)
    BY <2>1, <1>0
  <2> QED BY <2>1, <2>2
<1>3. ASSUME NEW o \in more, TypeIn(longer, o) = "moov"
      PROVE  /\ HoldsIn(longer, o) = {}
             /\ \A p \in more : ~(p < o /\ TypeIn(longer, p) = "moov")
  <2>1. CASE o \in starts
    <3>1. TypeIn(file, o) = "moov" /\ HoldsIn(longer, o) = HoldsIn(file, o)
      BY <2>1, <1>0, <1>3
    <3>2. HoldsIn(file, o) = {} /\ \A p \in starts : ~(p < o /\ TypeIn(file, p) = "moov")
      BY <2>1, <3>1 DEF InFragments
    <3> QED BY <2>1, <3>1, <3>2, <1>0
  <2>2. CASE o = new
    <3>1. cells[1].holds = {} /\ \A p \in starts : TypeIn(file, p) # "moov"
      BY <2>2, <1>0, <1>3
    <3> QED BY <2>2, <3>1, <1>0
  <2> QED BY <2>1, <2>2, <1>0
<1>4. \A o \in more : TypeIn(longer, o) = "mdat" => m > 0
  <2>1. \A o \in starts : TypeIn(file, o) = "mdat" => m > 0
    BY DEF InFragments
  <2> QED BY <2>1, <1>0
<1> QED BY <1>1, <1>2, <1>3, <1>4 DEF InFragments

(* A moof at `from` declares samples m + 1 to n, which lie behind it.      *)
NextDeclared(cells, from, place, m, placed, n) ==
  /\ cells[1].box = "moof"
  /\ \A s \in 1..m : placed[s] = place[s]
  /\ \A held \in cells[1].holds :
       /\ held.sample \in m + 1..n
       /\ held.offset \in Nat /\ held.offset >= Len(cells)
       /\ from + held.offset = placed[held.sample].start
       /\ held.length = placed[held.sample].length
  /\ \A s \in m + 1..n : \E held \in cells[1].holds : held.sample = s

LEMMA FragmentsMoof ==
  ASSUME NEW longer, NEW more, NEW file, NEW starts, NEW cells,
         Added(longer, more, file, starts, cells),
         NEW place, NEW m \in Nat, InFragments(file, starts, place, m, FALSE),
         NEW placed, NEW n \in Nat, n >= m,
         NextDeclared(cells, Len(file), place, m, placed, n)
  PROVE  InFragments(longer, more, placed, n, FALSE)
<1> DEFINE new == Len(file)
<1>0. /\ more = starts \cup {new}
      /\ \A o \in starts : /\ o # new /\ ~(new < o)
                           /\ TypeIn(longer, o) = TypeIn(file, o)
                           /\ HoldsIn(longer, o) = HoldsIn(file, o)
                           /\ TotalIn(longer, o) = TotalIn(file, o)
      /\ TypeIn(longer, new) = "moof"
      /\ HoldsIn(longer, new) = cells[1].holds
      /\ TotalIn(longer, new) = Len(cells)
      /\ ~(new < new)
  BY AddedShape DEF NextDeclared
<1>1. ASSUME NEW o \in more, TypeIn(longer, o) = "moof", NEW held \in HoldsIn(longer, o)
      PROVE  /\ held.sample \in 1..n
             /\ held.offset \in Nat /\ held.offset >= TotalIn(longer, o)
             /\ o + held.offset = placed[held.sample].start
             /\ held.length = placed[held.sample].length
  <2>1. CASE o \in starts
    <3>1. TypeIn(file, o) = "moof" /\ held \in HoldsIn(file, o) /\ TotalIn(longer, o) = TotalIn(file, o)
      BY <2>1, <1>0, <1>1
    <3>2. /\ held.sample \in 1..m
          /\ held.offset \in Nat /\ held.offset >= TotalIn(file, o)
          /\ o + held.offset = place[held.sample].start
          /\ held.length = place[held.sample].length
      BY <2>1, <3>1 DEF InFragments
    <3>3. held.sample \in 1..n /\ placed[held.sample] = place[held.sample]
      BY <3>2 DEF NextDeclared
    <3> QED BY <3>1, <3>2, <3>3
  <2>2. CASE o = new
    <3>1. /\ held.sample \in m + 1..n
          /\ held.offset \in Nat /\ held.offset >= Len(cells)
          /\ new + held.offset = placed[held.sample].start
          /\ held.length = placed[held.sample].length
      <4>1. held \in cells[1].holds
        BY <2>2, <1>0
      <4> QED BY <4>1 DEF NextDeclared
    <3>2. held.sample \in 1..n
      BY <3>1
    <3> HIDE DEF new
    <3> QED BY <2>2, <3>1, <3>2, <1>0
  <2> QED BY <2>1, <2>2, <1>0
<1> HIDE DEF new
<1>2. \A s \in 1..n : \E o \in more :
         TypeIn(longer, o) = "moof" /\ \E held \in HoldsIn(longer, o) : held.sample = s
  <2> SUFFICES ASSUME NEW s \in 1..n
               PROVE  \E o \in more : TypeIn(longer, o) = "moof"
                                      /\ \E held \in HoldsIn(longer, o) : held.sample = s
    OBVIOUS
  <2>1. CASE s <= m
    <3>1. s \in 1..m
      BY <2>1
    <3>2. PICK o \in starts : TypeIn(file, o) = "moof" /\ \E held \in HoldsIn(file, o) : held.sample = s
      BY <3>1 DEF InFragments
    <3>3. o \in more /\ TypeIn(longer, o) = "moof" /\ HoldsIn(longer, o) = HoldsIn(file, o)
      BY <3>2, <1>0
    <3> QED BY <3>2, <3>3
  <2>2. CASE ~(s <= m)
    <3>1. s \in m + 1..n
      BY <2>2
    <3>2. \E held \in HoldsIn(longer, new) : held.sample = s
      BY <3>1, <1>0 DEF NextDeclared
    <3> QED BY <3>2, <1>0
  <2> QED BY <2>1, <2>2
<1>3. ASSUME NEW o \in more, TypeIn(longer, o) = "moov"
      PROVE  /\ HoldsIn(longer, o) = {}
             /\ \A p \in more : ~(p < o /\ TypeIn(longer, p) = "moov")
  <2>1. o \in starts
    BY <1>0, <1>3
  <2>2. TypeIn(file, o) = "moov" /\ HoldsIn(longer, o) = HoldsIn(file, o)
    BY <2>1, <1>0, <1>3
  <2>3. HoldsIn(file, o) = {} /\ \A p \in starts : ~(p < o /\ TypeIn(file, p) = "moov")
    BY <2>1, <2>2 DEF InFragments
  <2> QED BY <2>1, <2>2, <2>3, <1>0
<1>4. \A o \in more : TypeIn(longer, o) = "mdat" => n > 0
  <2>1. \A o \in starts : TypeIn(file, o) = "mdat" => m > 0
    BY DEF InFragments
  <2>2. m > 0 => n > 0
    OBVIOUS
  <2> QED BY <2>1, <2>2, <1>0
<1> QED BY <1>1, <1>2, <1>3, <1>4 DEF InFragments

(* A file that is finished behind its fragments, or by a second moov.      *)
LEMMA FragmentsEnd ==
  ASSUME NEW file, NEW starts, NEW place, NEW m, InFragments(file, starts, place, m, FALSE)
  PROVE  InFragments(file, starts, place, m, TRUE)
<1>1. \A o \in starts : TypeIn(file, o) = "moov" =>
         HoldsIn(file, o) = {} /\ \A p \in starts : ~(p < o /\ TypeIn(file, p) = "moov")
  BY DEF InFragments
<1> QED BY <1>1 DEF InFragments

LEMMA FragmentsMoov ==
  ASSUME NEW longer, NEW more, NEW file, NEW starts, NEW cells,
         Added(longer, more, file, starts, cells),
         NEW place, NEW m, InFragments(file, starts, place, m, FALSE),
         cells[1].box = "moov",
         \E o \in starts : TypeIn(file, o) = "moov"
  PROVE  InFragments(longer, more, place, m, TRUE)
<1> DEFINE new == Len(file)
<1>0. /\ more = starts \cup {new}
      /\ \A o \in starts : /\ o # new /\ ~(new < o) /\ o < new
                           /\ TypeIn(longer, o) = TypeIn(file, o)
                           /\ HoldsIn(longer, o) = HoldsIn(file, o)
                           /\ TotalIn(longer, o) = TotalIn(file, o)
      /\ TypeIn(longer, new) = "moov"
      /\ EndIn(longer, new) = Len(longer)
      /\ ~(new < new)
  BY AddedShape
<1> HIDE DEF new
<1>1. ASSUME NEW o \in more, TypeIn(longer, o) = "moof"
      PROVE  \A held \in HoldsIn(longer, o) :
               /\ held.sample \in 1..m
               /\ held.offset \in Nat /\ held.offset >= TotalIn(longer, o)
               /\ o + held.offset = place[held.sample].start
               /\ held.length = place[held.sample].length
  <2>1. o \in starts
    BY <1>0, <1>1
  <2> QED BY <2>1, <1>0, <1>1 DEF InFragments
<1>2. \A s \in 1..m : \E o \in more :
         TypeIn(longer, o) = "moof" /\ \E held \in HoldsIn(longer, o) : held.sample = s
  <2> SUFFICES ASSUME NEW s \in 1..m
               PROVE  \E o \in more : TypeIn(longer, o) = "moof"
                                      /\ \E held \in HoldsIn(longer, o) : held.sample = s
    OBVIOUS
  <2>1. PICK o \in starts : TypeIn(file, o) = "moof" /\ \E held \in HoldsIn(file, o) : held.sample = s
    BY DEF InFragments
  <2>2. o \in more /\ TypeIn(longer, o) = "moof" /\ HoldsIn(longer, o) = HoldsIn(file, o)
    BY <2>1, <1>0
  <2> QED BY <2>1, <2>2
<1>3. ASSUME NEW o \in more, TypeIn(longer, o) = "moov"
      PROVE  /\ \/ HoldsIn(longer, o) = {}
                \/ \E p \in more : p < o /\ TypeIn(longer, p) = "moov"
             /\ \A p \in more : p < o /\ TypeIn(longer, p) = "moov" => EndIn(longer, o) = Len(longer)
  <2>1. CASE o \in starts
    <3>1. TypeIn(file, o) = "moov" /\ HoldsIn(longer, o) = HoldsIn(file, o)
      BY <2>1, <1>0, <1>3
    <3>2. HoldsIn(file, o) = {} /\ \A p \in starts : ~(p < o /\ TypeIn(file, p) = "moov")
      BY <2>1, <3>1 DEF InFragments
    <3> QED BY <2>1, <3>1, <3>2, <1>0
  <2>2. CASE o = new
    BY <2>2, <1>0
  <2> QED BY <2>1, <2>2, <1>0
<1>4. \A o \in more : TypeIn(longer, o) = "mdat" => m > 0
  <2>1. \A o \in starts : TypeIn(file, o) = "mdat" => m > 0
    BY DEF InFragments
  <2> QED BY <2>1, <1>0
<1> QED BY <1>1, <1>2, <1>3, <1>4 DEF InFragments

(* In a file that its one moov declares.                                   *)
LEMMA TablesMore ==
  ASSUME NEW longer, NEW more, NEW file, NEW starts, NEW cells,
         Added(longer, more, file, starts, cells),
         NEW place, NEW m, InTables(file, starts, place, m, FALSE),
         cells[1].box \notin {"moof", "moov"},
         NEW placed, NEW n
  PROVE  InTables(longer, more, placed, n, FALSE)
<1>1. \A o \in starts : TypeIn(file, o) # "moof" /\ TypeIn(file, o) # "moov"
  BY DEF InTables
<1>2. \A o \in more : TypeIn(longer, o) # "moof" /\ TypeIn(longer, o) # "moov"
  BY <1>1, AddedShape
<1> QED BY <1>2 DEF InTables

LEMMA TablesMoov ==
  ASSUME NEW longer, NEW more, NEW file, NEW starts, NEW cells,
         Added(longer, more, file, starts, cells),
         NEW place, NEW m, InTables(file, starts, place, m, FALSE),
         cells[1].box = "moov",
         cells[1].holds = {LocationOf(place, s) : s \in 1..m}
  PROVE  InTables(longer, more, place, m, TRUE)
<1>1. \A o \in starts : TypeIn(file, o) # "moof" /\ TypeIn(file, o) # "moov"
  BY DEF InTables
<1>2. /\ more = starts \cup {Len(file)}
      /\ \A o \in starts : TypeIn(longer, o) = TypeIn(file, o)
      /\ TypeIn(longer, Len(file)) = "moov"
      /\ HoldsIn(longer, Len(file)) = {LocationOf(place, s) : s \in 1..m}
      /\ EndIn(longer, Len(file)) = Len(longer)
  BY AddedShape
<1> QED BY <1>1, <1>2 DEF InTables

LEMMA TablesEnd ==
  ASSUME NEW file, NEW starts, NEW place, NEW m, InTables(file, starts, place, m, FALSE)
  PROVE  InTables(file, starts, place, m, TRUE)
  BY DEF InTables
-------------------------------------------------------------------------------
(* A FILE THAT IS NOT FINISHED                                             *)

Written(file, starts, place, m) ==
  IF Fragments THEN InFragments(file, starts, place, m, FALSE)
               ELSE InTables(file, starts, place, m, FALSE)

Working(file, starts, place) ==
  /\ Layout(disk, output, file, starts)
  /\ Holding(file, place, accepted)
  /\ Written(file, starts, place, accepted)
  /\ Spaces(file, starts)
  /\ Tabled(place)
  /\ Stage(file, starts)

WorkingSuffices ==
  \A file, starts, place : ~finished /\ Working(file, starts, place) => IInv

LEMMA WorkingIs == WorkingSuffices
<1> SUFFICES ASSUME NEW file, NEW starts, NEW place, ~finished, Working(file, starts, place)
             PROVE  IInv
  BY DEF WorkingSuffices
<1>1. Boxed(file, starts) /\ Queued(disk, output, file, Len(output))
  BY DEF Working, Layout
<1>2. ~LaidOut /\ finished = FALSE
  BY DEF Working, Tabled, Stage, LaidOut
<1>3. Contents(file, starts, place)
  BY <1>2 DEF Working, Written, Contents
<1>4. Overlay(file, starts, place, Len(output))
  BY DEF Overlay, Working, Tabled
<1>5. Inv(file, starts, place, Len(output))
  BY <1>1, <1>3, <1>4 DEF Inv, Working
<1> QED BY <1>5 DEF IInv

LEMMA Unfinished ==
  ASSUME IInv, ~finished
  PROVE  \E file, starts, place : Working(file, starts, place)
<1>1. PICK file, starts, place, n : Inv(file, starts, place, n)
  BY DEF IInv
<1>2. ~LaidOut /\ finished = FALSE
  BY <1>1 DEF Inv, Tabled, Stage, LaidOut
<1>3. n = Len(output)
  BY <1>1 DEF Inv, Overlay
<1>4. Written(file, starts, place, accepted)
  BY <1>1, <1>2 DEF Inv, Contents, Written
<1>5. Layout(disk, output, file, starts)
  BY <1>1, <1>3 DEF Inv, Layout
<1> QED BY <1>1, <1>4, <1>5 DEF Inv, Working

(* A call that changes nothing the invariant speaks of.                    *)
LEMMA Unchanged ==
  ASSUME IInv,
         UNCHANGED <<structure, movie, nextOffset, reserved, placeholder, finished, tables,
                     accepted, output, disk>>
  PROVE  IInv'
<1>1. PICK file, starts, place, n : Inv(file, starts, place, n)
  BY DEF IInv
<1>2. Inv(file, starts, place, n)'
  BY <1>1 DEF Inv, Contents, Spaces, Overlay, Tabled, Stage, Header, LaidOut, Recoverable,
              Fragments, SegmentIndexBytes
<1> QED BY <1>2 DEF IInv

(* A box that is none of moov, moof and mdat.                              *)
LEMMA WorkingMore ==
  ASSUME NEW file, NEW starts, NEW place, Working(file, starts, place), ~finished,
         NEW longer, NEW more, NEW cells, Added(longer, more, file, starts, cells),
         cells[1].box \notin {"moov", "moof", "mdat"}
  PROVE  /\ Holding(longer, place, accepted)
         /\ Written(longer, more, place, accepted)
         /\ Spaces(longer, more)
         /\ ~movie => \A o \in more : TypeIn(longer, o) \notin {"moov", "moof", "mdat"}
<1>1. Holding(longer, place, accepted)
  BY HoldingMore DEF Working
<1>2. Written(longer, more, place, accepted)
  <2>1. CASE Fragments
    BY <2>1, FragmentsMore DEF Working, Written
  <2>2. CASE ~Fragments
    BY <2>2, TablesMore DEF Working, Written
  <2> QED BY <2>1, <2>2
<1>3. /\ more = starts \cup {Len(file)} /\ Len(file) \in Nat
      /\ \A o \in starts : o < Len(file) /\ o \in Nat /\ TypeIn(longer, o) = TypeIn(file, o)
      /\ TypeIn(longer, Len(file)) = cells[1].box
  BY AddedShape
<1>4. Spaces(longer, more)
  <2>1. ASSUME Recoverable, movie, ~LaidOut
        PROVE  /\ FreeAt(longer, more, placeholder, 2 * HeaderBytes)
               /\ \A o \in more : o < placeholder => TypeIn(longer, o) \notin {"moov", "moof", "mdat"}
               /\ \E o \in more : TypeIn(longer, o) = "moov"
    <3>1. /\ FreeAt(file, starts, placeholder, 2 * HeaderBytes)
          /\ \A o \in starts : o < placeholder => TypeIn(file, o) \notin {"moov", "moof", "mdat"}
          /\ \E o \in starts : TypeIn(file, o) = "moov"
      BY <2>1 DEF Working, Spaces
    <3>2. FreeAt(longer, more, placeholder, 2 * HeaderBytes)
      BY <3>1, FreeMore
    <3> QED BY <3>1, <3>2, <1>3
  <2>2. ASSUME reserved # None, ~finished PROVE FreeAt(longer, more, reserved, SegmentIndexBytes)
    <3>1. FreeAt(file, starts, reserved, SegmentIndexBytes)
      BY <2>2 DEF Working, Spaces
    <3> QED BY <3>1, FreeMore
  <2> QED BY <2>1, <2>2 DEF Spaces
<1>5. ~movie => \A o \in more : TypeIn(longer, o) \notin {"moov", "moof", "mdat"}
  BY <1>3 DEF Working, Stage
<1> QED BY <1>1, <1>2, <1>4, <1>5

LEMMA FileTypeKeeps ==
  ASSUME IInv, NEW iso5, HandleFileType(iso5)
  PROVE  IInv'
<1> DEFINE type == IF structure.kind = "Segment" THEN "styp" ELSE "ftyp"
           cells == Plain(type, {})
<1>1. CASE finished \/ fileType \/ nextOffset > 0 \/ (Fragments /\ ~iso5)
  BY <1>1, Unchanged DEF HandleFileType, muxer
<1>2. CASE ~(finished \/ fileType \/ nextOffset > 0 \/ (Fragments /\ ~iso5))
  <2>1. /\ ~finished
        /\ output' = Append(output, At(nextOffset, cells))
        /\ nextOffset' = nextOffset + Len(cells)
        /\ UNCHANGED <<structure, movie, reserved, placeholder, finished, tables, accepted, disk>>
    BY <1>2 DEF HandleFileType
  <2>2. PICK file, starts, place : Working(file, starts, place)
    BY <2>1, Unfinished
  <2>3. OneBox(cells) /\ cells[1].box = type
    BY HeaderBytesType, BoxIs DEF Plain
  <2>4. cells[1].box \notin {"moov", "moof", "mdat"}
    BY <2>3
  <2>5. nextOffset = Len(file) /\ Layout(disk, output, file, starts)
    BY <2>2 DEF Working, Stage
  <2> HIDE DEF cells
  <2>6. PICK longer, more : /\ Layout(disk, Append(output, At(Len(file), cells)), longer, more)
                            /\ Added(longer, more, file, starts, cells)
    BY <2>3, <2>5, LayoutBehind
  <2>7. /\ Holding(longer, place, accepted)
        /\ Written(longer, more, place, accepted)
        /\ Spaces(longer, more)
        /\ ~movie => \A o \in more : TypeIn(longer, o) \notin {"moov", "moof", "mdat"}
        /\ Len(longer) = Len(file) + Len(cells)
    BY <2>1, <2>2, <2>4, <2>6, WorkingMore, AddedShape
  <2>8. Layout(disk, output, longer, more)'
    BY <2>1, <2>5, <2>6
  <2>9. Holding(longer, place, accepted)' /\ Written(longer, more, place, accepted)'
    BY <2>1, <2>7 DEF Written, Fragments
  <2>10. Spaces(longer, more)'
    BY <2>1, <2>2, <2>7 DEF Spaces, LaidOut, Recoverable, SegmentIndexBytes, Working, Tabled
  <2>11. Tabled(place)'
    BY <2>1, <2>2 DEF Working, Tabled, Fragments, Recoverable
  <2>12. Stage(longer, more)'
    BY <2>1, <2>2, <2>4, <2>5, <2>7 DEF Working, Stage
  <2>13. WorkingSuffices'
    BY WorkingIs, PTL
  <2> QED BY <2>1, <2>8, <2>9, <2>10, <2>11, <2>12, <2>13 DEF Working, WorkingSuffices
<1> QED BY <1>1, <1>2
-------------------------------------------------------------------------------
(* THE MOVIE                                                               *)

LEMMA StructureIs ==
  ASSUME structure \in Structures
  PROVE  /\ structure.kind \in Kind
         /\ structure.subsegments \in Nat \cup {None}
         /\ structure.mfra \in BOOLEAN
  BY MuxerAssumption DEF Structure

LEMMA RefusedMovieKeeps ==
  ASSUME IInv, NEW offered, RefuseMovie(offered)
  PROVE  IInv'
  BY Unchanged DEF RefuseMovie, muxer

LEMMA TakenMovieKeeps ==
  ASSUME IInv, NEW offered, TakeMovie(offered)
  PROVE  IInv'
<1>1. /\ ~finished /\ ~movie
      /\ movie' = TRUE
      /\ UNCHANGED <<structure, reserved, finished, tables, accepted, disk>>
  BY DEF TakeMovie
<1>2. PICK file, starts, place : Working(file, starts, place)
  BY <1>1, Unfinished
<1>3. /\ nextOffset = Len(file) /\ Layout(disk, output, file, starts) /\ Len(file) \in Nat
      /\ Sequence(output) /\ Holding(file, place, accepted)
      /\ structure \in Structures
      /\ \A o \in starts : TypeIn(file, o) \notin {"moov", "moof", "mdat"}
  BY <1>1, <1>2, SequenceShape DEF Working, Stage, Layout, Boxed, Queued
<1>4. structure.kind \in Kind
  BY <1>3, StructureIs
<1>5. WorkingSuffices'
  BY WorkingIs, PTL
<1>6. Tabled(place)' /\ ~LaidOut'
  BY <1>1, <1>2 DEF Working, Tabled, LaidOut, Fragments, Recoverable
<1> DEFINE cells == FragmentedMovie
<1>7. /\ OneBox(cells) /\ cells[1].box = "moov" /\ cells[1].holds = {}
      /\ Len(cells) = Len(FragmentedMovie) /\ cells[1].box \notin {"moof", "mdat"}
  BY HeaderBytesType, BoxIs DEF FragmentedMovie, Plain
<1> HIDE DEF cells
<1>8. CASE structure.kind \notin {"Fragmented", "Recoverable"}
  <2>1. /\ output' = output \o <<>> \o <<>>
        /\ nextOffset' = nextOffset + 0 + 0
        /\ ~Recoverable
    BY <1>8 DEF TakeMovie, Recoverable
  <2>2. output' = output /\ nextOffset' = Len(file)
    BY <2>1, <1>3, ConcatFew
  <2>3. Spaces(file, starts)'
    BY <1>1, <1>2, <2>1 DEF Working, Spaces, SegmentIndexBytes, Recoverable
  <2>4. Stage(file, starts)'
    BY <1>1, <1>2, <2>2 DEF Working, Stage
  <2> QED BY <1>1, <1>2, <1>5, <1>6, <2>2, <2>3, <2>4
          DEF Working, Written, Fragments, WorkingSuffices
<1>9. CASE structure.kind = "Fragmented"
  <2>1. /\ output' = output \o <<>> \o <<At(nextOffset + 0, FragmentedMovie)>>
        /\ nextOffset' = nextOffset + 0 + Len(FragmentedMovie)
        /\ ~Recoverable /\ Fragments
    <3>1. <<At(nextOffset + 0, FragmentedMovie)>> # <<>>
      OBVIOUS
    <3> QED BY <1>9, <3>1 DEF TakeMovie, Recoverable, Fragments
  <2>2. output' = Append(output, At(Len(file), cells)) /\ nextOffset' = Len(file) + Len(cells)
    <3>1. nextOffset + 0 = Len(file) /\ nextOffset + 0 + Len(FragmentedMovie) = Len(file) + Len(FragmentedMovie)
      BY <1>3
    <3>2. output \o <<>> = output
      BY <1>3, ConcatFew
    <3> QED BY <2>1, <3>1, <3>2, <1>3, AppendAny DEF cells
  <2>3. PICK longer, more : /\ Layout(disk, Append(output, At(Len(file), cells)), longer, more)
                            /\ Added(longer, more, file, starts, cells)
    BY <1>3, <1>7, LayoutBehind
  <2>4. Layout(disk, output, longer, more)'
    BY <1>1, <2>2, <2>3
  <2>5. Holding(longer, place, accepted)
    BY <1>3, <2>3, HoldingMore
  <2>6. InFragments(longer, more, place, accepted, FALSE)
    BY <1>2, <1>3, <1>7, <2>1, <2>3, FragmentsMore DEF Working, Written
  <2>7. reserved # None => FreeAt(longer, more, reserved, SegmentIndexBytes)
    BY <1>1, <1>2, <2>3, FreeMore DEF Working, Spaces
  <2>8. Spaces(longer, more)'
    BY <1>1, <2>1, <2>7 DEF Spaces, Recoverable, SegmentIndexBytes
  <2>9. Stage(longer, more)'
    BY <1>1, <1>2, <2>2, <2>3 DEF Working, Stage, Added
  <2>10. Written(longer, more, place, accepted)'
    BY <1>1, <2>1, <2>6 DEF Written, Fragments
  <2> QED BY <1>1, <1>5, <1>6, <2>4, <2>5, <2>8, <2>9, <2>10 DEF Working, WorkingSuffices
<1>10. CASE structure.kind = "Recoverable"
  <2> DEFINE free == Free(2 * HeaderBytes)
  <2>1. /\ output' = output \o <<At(nextOffset, Free(2 * HeaderBytes))>>
                            \o <<At(nextOffset + 2 * HeaderBytes, FragmentedMovie)>>
        /\ nextOffset' = nextOffset + 2 * HeaderBytes + Len(FragmentedMovie)
        /\ placeholder' = Len(file)
        /\ Recoverable /\ Fragments
    <3>1. <<At(nextOffset + 2 * HeaderBytes, FragmentedMovie)>> # <<>>
      OBVIOUS
    <3> QED BY <1>3, <1>10, <3>1 DEF TakeMovie, Recoverable, Fragments
  <2>2. /\ OneBox(free) /\ free[1].box = "free" /\ Len(free) = 2 * HeaderBytes
        /\ free[1].box \notin {"moov", "moof", "mdat"}
    BY HeaderBytesType, BoxIs DEF Free
  <2> HIDE DEF free
  <2> DEFINE queue == Append(output, At(Len(file), free))
  <2>3. PICK longer, more : Layout(disk, queue, longer, more) /\ Added(longer, more, file, starts, free)
    BY <1>3, <2>2, LayoutBehind
  <2>4. Len(longer) = Len(file) + 2 * HeaderBytes
    BY <2>2, <2>3 DEF Added
  <2>5. output' = Append(queue, At(Len(longer), cells)) /\ nextOffset' = Len(longer) + Len(cells)
    <3>1. Sequence(queue)
      BY <1>3, AppendAny
    <3>2. output \o <<At(nextOffset, Free(2 * HeaderBytes))>> = queue
      BY <1>3, AppendAny DEF free
    <3> HIDE DEF queue
    <3> QED BY <2>1, <2>4, <3>1, <3>2, <1>3, AppendAny DEF cells
  <2> HIDE DEF queue
  <2>6. PICK whole, all : /\ Layout(disk, Append(queue, At(Len(longer), cells)), whole, all)
                          /\ Added(whole, all, longer, more, cells)
    BY <1>7, <2>3, LayoutBehind
  <2>7. Layout(disk, output, whole, all)'
    BY <1>1, <2>5, <2>6
  <2>8. /\ Holding(longer, place, accepted)
        /\ InFragments(longer, more, place, accepted, FALSE)
        /\ \A o \in more : TypeIn(longer, o) \notin {"moov", "moof", "mdat"}
    BY <1>1, <1>2, <2>1, <2>2, <2>3, WorkingMore DEF Written
  <2>9. Holding(whole, place, accepted) /\ InFragments(whole, all, place, accepted, FALSE)
    BY <1>7, <2>6, <2>8, HoldingMore, FragmentsMore
  <2>10. FreeAt(whole, all, Len(file), 2 * HeaderBytes)
    <3>1. FreeAt(longer, more, Len(file), 2 * HeaderBytes)
      BY <2>3, HeaderBytesType, FreeNew DEF free
    <3> QED BY <2>6, <3>1, FreeMore
  <2>11. reserved # None => FreeAt(whole, all, reserved, SegmentIndexBytes)
    <3>1. reserved # None => FreeAt(longer, more, reserved, SegmentIndexBytes)
      BY <1>1, <1>2, <2>3, FreeMore DEF Working, Spaces
    <3> QED BY <2>6, <3>1, FreeMore
  <2>12. /\ \A o \in all : o < Len(file) => TypeIn(whole, o) \notin {"moov", "moof", "mdat"}
         /\ \E o \in all : TypeIn(whole, o) = "moov"
    <3>1. /\ all = more \cup {Len(longer)}
          /\ \A o \in more : TypeIn(whole, o) = TypeIn(longer, o)
          /\ TypeIn(whole, Len(longer)) = "moov"
      BY <1>7, <2>6, AddedShape
    <3>2. ~(Len(longer) < Len(file))
      BY <2>4, <1>3, HeaderBytesType
    <3> QED BY <2>8, <3>1, <3>2
  <2>13. Spaces(whole, all)'
    BY <1>1, <1>6, <2>1, <2>10, <2>11, <2>12 DEF Spaces, Recoverable, SegmentIndexBytes
  <2>14. Stage(whole, all)'
    BY <1>1, <1>2, <2>5, <2>6 DEF Working, Stage, Added
  <2>15. Written(whole, all, place, accepted)' /\ Holding(whole, place, accepted)'
    BY <1>1, <2>1, <2>9 DEF Written, Fragments
  <2> QED BY <1>1, <1>5, <1>6, <2>7, <2>13, <2>14, <2>15 DEF Working, WorkingSuffices
<1> QED BY <1>4, <1>8, <1>9, <1>10
-------------------------------------------------------------------------------
(* SAMPLES                                                                 *)

LEMMA SpacesMore ==
  ASSUME NEW longer, NEW more, NEW file, NEW starts, NEW cells,
         Added(longer, more, file, starts, cells), Spaces(file, starts)
  PROVE  Spaces(longer, more)
<1>1. /\ more = starts \cup {Len(file)} /\ Len(file) \in Nat
      /\ \A o \in starts : o < Len(file) /\ o \in Nat /\ TypeIn(longer, o) = TypeIn(file, o)
  BY AddedShape
<1>2. ASSUME Recoverable, movie, ~LaidOut
      PROVE  /\ FreeAt(longer, more, placeholder, 2 * HeaderBytes)
             /\ \A o \in more : o < placeholder => TypeIn(longer, o) \notin {"moov", "moof", "mdat"}
             /\ \E o \in more : TypeIn(longer, o) = "moov"
  <2>1. /\ FreeAt(file, starts, placeholder, 2 * HeaderBytes)
        /\ \A o \in starts : o < placeholder => TypeIn(file, o) \notin {"moov", "moof", "mdat"}
        /\ \E o \in starts : TypeIn(file, o) = "moov"
    BY <1>2 DEF Spaces
  <2>2. FreeAt(longer, more, placeholder, 2 * HeaderBytes)
    BY <2>1, FreeMore
  <2>3. placeholder \in starts
    BY <2>1 DEF FreeAt
  <2>4. ~(Len(file) < placeholder)
    BY <1>1, <2>3
  <2> QED BY <2>1, <2>2, <2>4, <1>1
<1>3. reserved # None /\ ~finished => FreeAt(longer, more, reserved, SegmentIndexBytes)
  BY FreeMore DEF Spaces
<1> QED BY <1>2, <1>3 DEF Spaces

LEMMA LocatedIs ==
  ASSUME NEW call \in Seq(Sample), NEW origin
  PROVE  /\ Sequence(Located(call, origin))
         /\ Len(Located(call, origin)) = Len(call)
         /\ \A i \in 1..Len(call) :
              /\ Located(call, origin)[i].sample = accepted + i
              /\ Located(call, origin)[i].start = origin + BytesBefore(call, i)
              /\ Located(call, origin)[i].length = call[i].length
<1> DEFINE located == Located(call, origin)
<1>1. Len(call) \in Nat /\ DOMAIN call = 1..Len(call)
  OBVIOUS
<1>2. \A i \in 1..Len(call) :
         /\ located[i].sample = accepted + i
         /\ located[i].start = origin + BytesBefore(call, i)
         /\ located[i].length = call[i].length
  BY <1>1 DEF Located
<1>3. located = [i \in 1..Len(call) |-> located[i]]
  BY <1>1 DEF Located
<1> HIDE DEF located
<1>4. Sequence(located) /\ Len(located) = Len(call)
  BY <1>1, <1>3, SequenceOfAny
<1> QED BY <1>2, <1>4 DEF located

(* The tables declare n samples, each where it lies.                       *)
Declares(declared, place, n) ==
  /\ Sequence(declared)
  /\ Len(declared) = n
  /\ \A s \in 1..n : /\ declared[s].sample = s
                     /\ declared[s].start = place[s].start
                     /\ declared[s].length = place[s].length

LEMMA DeclaresMore ==
  ASSUME NEW call \in Seq(Sample), NEW declared, NEW place, accepted \in Nat,
         Declares(declared, place, accepted), NEW origin
  PROVE  Declares(declared \o Located(call, origin), Placed(place, accepted, call, origin),
                  accepted + Len(call))
<1> DEFINE located == Located(call, origin)
           placed == Placed(place, accepted, call, origin)
           joined == declared \o located
<1>1. /\ Sequence(located) /\ Len(located) = Len(call)
      /\ \A i \in 1..Len(call) : /\ located[i].sample = accepted + i
                                 /\ located[i].start = origin + BytesBefore(call, i)
                                 /\ located[i].length = call[i].length
  BY LocatedIs
<1>2. /\ \A s \in 1..accepted : placed[s] = place[s]
      /\ \A i \in 1..Len(call) :
           placed[accepted + i] = [start |-> origin + BytesBefore(call, i), length |-> call[i].length]
  BY PlacedIs
<1>3. Sequence(declared) /\ Len(declared) = accepted /\ Len(call) \in Nat
  BY DEF Declares
<1> HIDE DEF located, placed
<1>4. /\ Sequence(joined) /\ Len(joined) = Len(declared) + Len(located)
      /\ \A s \in 1..Len(declared) : joined[s] = declared[s]
      /\ \A i \in 1..Len(located) : joined[Len(declared) + i] = located[i]
  <2>1. Sequence(located) /\ Sequence(declared)
    BY <1>1, <1>3
  <2> QED BY ONLY <2>1, ConcatAny
<1> HIDE DEF joined
<1>5. /\ Sequence(joined) /\ Len(joined) = accepted + Len(call)
      /\ \A s \in 1..accepted : joined[s] = declared[s]
      /\ \A i \in 1..Len(call) : joined[accepted + i] = located[i]
  BY <1>4, <1>1, <1>3
<1>6. ASSUME NEW s \in 1..accepted + Len(call)
      PROVE  joined[s].sample = s /\ joined[s].start = placed[s].start
             /\ joined[s].length = placed[s].length
  <2>1. CASE s <= accepted
    <3>1. s \in 1..accepted
      BY <2>1, <1>3
    <3> QED BY <3>1, <1>2, <1>5 DEF Declares
  <2>2. CASE ~(s <= accepted)
    <3> DEFINE i == s - accepted
    <3>1. i \in 1..Len(call) /\ accepted + i = s
      BY <2>2, <1>3
    <3> HIDE DEF i
    <3>2. placed[s] = [start |-> origin + BytesBefore(call, i), length |-> call[i].length]
      BY <3>1, <1>2
    <3>3. joined[s] = located[i]
      BY <3>1, <1>5
    <3>4. /\ located[i].sample = accepted + i
          /\ located[i].start = origin + BytesBefore(call, i)
          /\ located[i].length = call[i].length
      BY <3>1, <1>1
    <3>5. placed[s].start = origin + BytesBefore(call, i) /\ placed[s].length = call[i].length
      BY <3>2
    <3> QED BY <3>1, <3>3, <3>4, <3>5
  <2> QED BY <2>1, <2>2
<1> QED BY <1>5, <1>6 DEF Declares, joined, placed, located

LEMMA TableSamplesKeep ==
  ASSUME IInv, ~finished, movie, ~Fragments,
         NEW call \in Seq(Sample), call # <<>>, TableSamples(call), UNCHANGED disk
  PROVE  IInv'
<1> DEFINE cells == MediaData(call)
           origin == nextOffset + HeaderLength(DataBytes(call))
<1>1. CASE TablesRefuse(call)
  BY <1>1, Unchanged DEF TableSamples, muxer
<1>2. CASE ~TablesRefuse(call)
  <2>1. /\ tables' = [tables EXCEPT !.declared = @ \o Located(call, origin)]
        /\ output' = Append(output, At(nextOffset, cells))
        /\ nextOffset' = nextOffset + Len(cells)
        /\ accepted' = accepted + Len(call)
        /\ UNCHANGED <<structure, movie, reserved, placeholder, finished>>
    BY <1>2 DEF TableSamples
  <2>2. PICK file, starts, place : Working(file, starts, place)
    BY Unfinished
  <2>3. /\ nextOffset = Len(file) /\ Layout(disk, output, file, starts)
        /\ Holding(file, place, accepted) /\ accepted \in Nat
        /\ ~Recoverable /\ ~Fragments' /\ ~Recoverable'
    BY <2>1, <2>2 DEF Working, Stage, Holding, Recoverable, Fragments
  <2>4. OneBox(cells) /\ cells[1].box = "mdat" /\ cells[1].box \notin {"moov", "moof"}
    BY <2>3, MediaDataIs
  <2>5. PICK longer, more : /\ Layout(disk, Append(output, At(Len(file), cells)), longer, more)
                            /\ Added(longer, more, file, starts, cells)
    <3> HIDE DEF cells
    <3> QED BY <2>3, <2>4, LayoutBehind
  <2> DEFINE placing == Placed(place, accepted, call, origin)
  <2>6. PICK placed : placed = placing
    OBVIOUS
  <2>7. Holding(longer, placed, accepted + Len(call))
    BY <2>3, <2>5, <2>6, HoldingCall
  <2>8. InTables(longer, more, placed, accepted + Len(call), FALSE)
    <3>1. InTables(file, starts, place, accepted, FALSE)
      BY <2>2 DEF Working, Written
    <3> QED BY <3>1, <2>4, <2>5, TablesMore
  <2>9. Spaces(longer, more)
    BY <2>2, <2>5, SpacesMore DEF Working
  <2>10. Declares(tables.declared, place, accepted) /\ tables.state # "laid out"
         /\ tables = [state |-> tables.state, declared |-> tables.declared, held |-> tables.held]
    BY <2>2 DEF Working, Tabled, Declares
  <2>11. Declares(tables.declared \o Located(call, origin), placed, accepted + Len(call))
    <3> HIDE DEF origin
    <3> QED BY <2>3, <2>6, <2>10, DeclaresMore
  <2>12. Tabled(placed)'
    <3>1. tables' = [state |-> tables.state, declared |-> tables.declared \o Located(call, origin),
                     held |-> tables.held]
      BY <2>1, <2>10
    <3>2. /\ tables'.state = tables.state
          /\ tables'.declared = tables.declared \o Located(call, origin)
          /\ tables'.held = tables.held
      BY <3>1
    <3>3. Declares(tables'.declared, placed, accepted')
      BY <3>2, <2>1, <2>11
    <3>4. tables' = [state |-> tables'.state, declared |-> tables'.declared, held |-> tables'.held]
      BY <3>1, <3>2
    <3> QED BY <3>2, <3>3, <3>4, <2>10 DEF Tabled, Declares
  <2> HIDE DEF cells
  <2>13. Layout(disk, output, longer, more)'
    BY <2>1, <2>3, <2>5
  <2>14. Holding(longer, placed, accepted)' /\ Written(longer, more, placed, accepted)'
    BY <2>1, <2>3, <2>7, <2>8 DEF Written
  <2>15. Spaces(longer, more)'
    BY <2>1, <2>3, <2>9 DEF Spaces, SegmentIndexBytes
  <2>16. Stage(longer, more)'
    BY <2>1, <2>2, <2>3, <2>5 DEF Working, Stage, Added
  <2>17. WorkingSuffices'
    BY WorkingIs, PTL
  <2> QED BY <2>1, <2>12, <2>13, <2>14, <2>15, <2>16, <2>17 DEF Working, WorkingSuffices
<1> QED BY <1>1, <1>2
-------------------------------------------------------------------------------
(* The space for a sidx, where it is still to be reserved.                 *)
LEMMA ReservingIs ==
  ASSUME structure \in Structures
  PROVE  /\ Reserving \in Nat
         /\ Reserving > 0 <=> Indexed /\ reserved = None
         /\ Reserving > 0 => Reserving = SegmentIndexBytes
<1>1. structure.subsegments \in Nat \cup {None}
  BY StructureIs
<1>2. Indexed => SegmentIndexBytes \in Nat /\ SegmentIndexBytes > 0
  BY <1>1, HeaderBytesType DEF Indexed, SegmentIndexBytes
<1> HIDE DEF SegmentIndexBytes
<1> QED BY <1>2 DEF Reserving

ReservedAfter == IF Reserving > 0 THEN nextOffset ELSE reserved

QueueAfter ==
  IF Reserving > 0 THEN Append(output, At(nextOffset, Free(Reserving))) ELSE output

LEMMA Reserves ==
  ASSUME NEW file, NEW starts, NEW place, Working(file, starts, place), ~finished
  PROVE  \E longer, more :
           /\ Layout(disk, QueueAfter, longer, more)
           /\ Holding(longer, place, accepted)
           /\ Written(longer, more, place, accepted)
           /\ Spaces(longer, more)
           /\ ReservedAfter # None => FreeAt(longer, more, ReservedAfter, SegmentIndexBytes)
           /\ Len(longer) = nextOffset + Reserving
<1>1. /\ nextOffset = Len(file) /\ Layout(disk, output, file, starts) /\ structure \in Structures
      /\ Spaces(file, starts) /\ Holding(file, place, accepted)
      /\ Written(file, starts, place, accepted) /\ Len(file) \in Nat
  BY SequenceShape DEF Working, Stage, Layout, Boxed
<1>2. Reserving \in Nat /\ (Reserving > 0 => Reserving = SegmentIndexBytes)
  BY <1>1, ReservingIs
<1>3. CASE ~(Reserving > 0)
  <2>1. Reserving = 0
    BY <1>2, <1>3
  <2>2. QueueAfter = output /\ ReservedAfter = reserved
    BY <1>3 DEF QueueAfter, ReservedAfter
  <2>3. ReservedAfter # None => FreeAt(file, starts, ReservedAfter, SegmentIndexBytes)
    BY <1>1, <2>2 DEF Spaces
  <2>4. Len(file) = nextOffset + Reserving
    BY <1>1, <2>1
  <2> QED BY <1>1, <2>2, <2>3, <2>4
<1>4. CASE Reserving > 0
  <2> DEFINE cells == Free(Reserving)
  <2>1. /\ OneBox(cells) /\ cells[1].box = "free" /\ Len(cells) = Reserving
        /\ cells[1].box \notin {"moov", "moof", "mdat"}
    BY <1>2, <1>4, BoxIs DEF Free
  <2> HIDE DEF cells
  <2>2. PICK longer, more : /\ Layout(disk, Append(output, At(Len(file), cells)), longer, more)
                            /\ Added(longer, more, file, starts, cells)
    BY <1>1, <2>1, LayoutBehind
  <2>3. /\ Holding(longer, place, accepted)
        /\ Written(longer, more, place, accepted)
        /\ Spaces(longer, more)
    BY <2>1, <2>2, WorkingMore
  <2>4. QueueAfter = Append(output, At(Len(file), cells)) /\ ReservedAfter = Len(file)
    BY <1>1, <1>4 DEF QueueAfter, ReservedAfter, cells
  <2>5. FreeAt(longer, more, Len(file), Reserving)
    BY <1>2, <1>4, <2>2, FreeNew DEF cells
  <2>6. Len(longer) = nextOffset + Reserving
    BY <1>1, <2>1, <2>2 DEF Added
  <2> QED BY <1>2, <1>4, <2>2, <2>3, <2>4, <2>5, <2>6
<1> QED BY <1>3, <1>4

(* The moof of a call declares its samples behind it.                      *)
LEMMA FragmentBytesIs ==
  ASSUME NEW call \in Seq(Sample)
  PROVE  FragmentBytes(call) \in Nat /\ FragmentBytes(call) > 0
<1>1. RunStarts(call) \subseteq 1..Len(call) /\ Len(call) \in Nat
  BY DEF RunStarts
<1>2. Cardinality(RunStarts(call)) \in Nat
  <2> HIDE DEF RunStarts
  <2> QED BY <1>1, PlacesFinite
<1> QED BY <1>2, HeaderBytesType DEF FragmentBytes

LEMMA FragmentIs ==
  ASSUME NEW call \in Seq(Sample), NEW place, NEW from \in Nat, accepted \in Nat,
         NEW placed,
         placed = Placed(place, accepted, call,
                         from + FragmentBytes(call) + HeaderLength(DataBytes(call)))
  PROVE  /\ OneBox(Fragment(call)) /\ Len(Fragment(call)) = FragmentBytes(call)
         /\ NextDeclared(Fragment(call), from, place, accepted, placed, accepted + Len(call))
<1> DEFINE F == FragmentBytes(call)
           H == HeaderLength(DataBytes(call))
           Held(i) == [sample |-> accepted + i, offset |-> DataOffset(call, i),
                       length |-> call[i].length, track |-> call[i].track, time |-> call[i].time,
                       number |-> sequenceNumber]
           holds == {Held(i) : i \in DOMAIN call}
<1>1. F \in Nat /\ F > 0
  BY FragmentBytesIs
<1>2. H \in Nat
  BY HeaderLengthIs
<1>3. Fragment(call) = Box("moof", F, holds)
  BY DEF Fragment
<1>4. /\ Len(call) \in Nat /\ DOMAIN call = 1..Len(call)
      /\ \A i \in 1..Len(call) + 1 : BytesBefore(call, i) \in Nat
  BY BytesBeforeIs
<1>5. /\ \A s \in 1..accepted : placed[s] = place[s]
      /\ \A i \in 1..Len(call) :
           placed[accepted + i] = [start |-> from + F + H + BytesBefore(call, i), length |-> call[i].length]
  <2> DEFINE origin == from + F + H
  <2>1. placed = Placed(place, accepted, call, origin)
    OBVIOUS
  <2> HIDE DEF origin
  <2>2. /\ \A s \in 1..accepted : placed[s] = place[s]
        /\ \A i \in 1..Len(call) :
             placed[accepted + i] = [start |-> origin + BytesBefore(call, i), length |-> call[i].length]
    BY <2>1, PlacedIs
  <2> QED BY <2>2 DEF origin
<1>6. \A i \in 1..Len(call) : DataOffset(call, i) = F + H + BytesBefore(call, i)
  BY DEF DataOffset
<1> HIDE DEF F, H, holds
<1>7. ASSUME NEW i \in 1..Len(call)
      PROVE  /\ Held(i).sample = accepted + i
             /\ accepted + i \in accepted + 1..accepted + Len(call)
             /\ Held(i).offset \in Nat /\ Held(i).offset >= F
             /\ from + Held(i).offset = placed[accepted + i].start
             /\ Held(i).length = placed[accepted + i].length
  <2>1. i \in 1..Len(call) + 1
    BY <1>4
  <2>2. BytesBefore(call, i) \in Nat
    BY <2>1, <1>4
  <2>3. Held(i).offset = F + H + BytesBefore(call, i)
    BY <1>6
  <2>4. placed[accepted + i] = [start |-> from + F + H + BytesBefore(call, i), length |-> call[i].length]
    BY <1>5
  <2>5. placed[accepted + i].start = from + F + H + BytesBefore(call, i)
        /\ placed[accepted + i].length = call[i].length
    BY <2>4
  <2>6. Held(i).offset \in Nat /\ Held(i).offset >= F
    BY <2>2, <2>3, <1>1, <1>2
  <2>7. from + (F + H + BytesBefore(call, i)) = from + F + H + BytesBefore(call, i)
    BY <2>2, <1>1, <1>2
  <2>8. from + Held(i).offset = placed[accepted + i].start
    BY <2>3, <2>5, <2>7
  <2>9. accepted + i \in accepted + 1..accepted + Len(call)
    BY <1>4
  <2> QED BY <2>5, <2>6, <2>8, <2>9
<1>8. ASSUME NEW held \in holds
      PROVE  /\ held.sample \in accepted + 1..accepted + Len(call)
             /\ held.offset \in Nat /\ held.offset >= F
             /\ from + held.offset = placed[held.sample].start
             /\ held.length = placed[held.sample].length
  <2>1. PICK i \in 1..Len(call) : held = Held(i)
    BY <1>4 DEF holds
  <2> HIDE DEF Held
  <2> QED BY <2>1, <1>7
<1>9. ASSUME NEW s \in accepted + 1..accepted + Len(call)
      PROVE  \E held \in holds : held.sample = s
  <2> DEFINE i == s - accepted
  <2>1. i \in 1..Len(call) /\ accepted + i = s
    BY <1>4
  <2> HIDE DEF i
  <2>2. Held(i) \in holds /\ Held(i).sample = s
    BY <2>1, <1>4 DEF holds
  <2> HIDE DEF Held
  <2> QED BY <2>2
<1>10. /\ OneBox(Fragment(call)) /\ Len(Fragment(call)) = F
       /\ Fragment(call)[1].box = "moof" /\ Fragment(call)[1].holds = holds
  <2>1. /\ OneBox(Box("moof", F, holds)) /\ Len(Box("moof", F, holds)) = F
        /\ Box("moof", F, holds)[1].box = "moof" /\ Box("moof", F, holds)[1].holds = holds
    BY <1>1, BoxIs
  <2> QED BY <2>1, <1>3
<1> QED BY <1>5, <1>8, <1>9, <1>10 DEF F, NextDeclared

LEMMA TablesAre ==
  ASSUME NEW now, NEW word, NEW declared, NEW reached,
         now = [state |-> word, declared |-> declared, held |-> reached]
  PROVE  /\ now.state = word /\ now.declared = declared /\ now.held = reached
         /\ now = [state |-> now.state, declared |-> now.declared, held |-> now.held]
<1>1. now.state = word /\ now.declared = declared /\ now.held = reached
  OBVIOUS
<1> QED BY <1>1

(* What the tables of a recoverable file declare once a call is located.   *)
LEMMA TabledAfter ==
  ASSUME NEW call \in Seq(Sample), NEW place, accepted \in Nat, Tabled(place), ~finished, Fragments,
         NEW origin, NEW placed, placed = Placed(place, accepted, call, origin),
         tables' = TablesAfter(call, Located(call, origin)),
         accepted' = accepted + Len(call), UNCHANGED <<structure, finished>>
  PROVE  Tabled(placed)'
<1>1. /\ tables = [state |-> tables.state, declared |-> tables.declared, held |-> tables.held]
      /\ tables.state # "laid out"
      /\ Recoverable /\ tables.state = "declaring" => Declares(tables.declared, place, accepted)
      /\ Fragments' /\ (Recoverable' <=> Recoverable)
  BY DEF Tabled, Declares, Fragments, Recoverable
<1> DEFINE reached == tables.held + Len(call)
           more == tables.declared \o Located(call, origin)
<1>2. CASE ~Recoverable
  <2>1. tables' = tables
    BY <1>2 DEF TablesAfter
  <2> QED BY <1>1, <1>2, <2>1 DEF Tabled
<1>3. CASE Recoverable /\ tables.state # "declaring"
  <2>1. tables' = [tables EXCEPT !.held = reached]
    BY <1>3 DEF TablesAfter
  <2> HIDE DEF reached
  <2>2. tables' = [state |-> tables.state, declared |-> tables.declared, held |-> reached]
    BY <1>1, <2>1
  <2>3. tables'.state = tables.state /\ tables'.declared = tables.declared /\ tables'.held = reached
    BY <2>2
  <2> QED BY <1>1, <1>3, <2>2, <2>3 DEF Tabled
<1>4. CASE Recoverable /\ tables.state = "declaring" /\ (reached > HeldLocationCount \/ TablesRefuse(call))
  <2>1. \/ tables' = [state |-> "past limit", declared |-> <<>>, held |-> reached]
        \/ tables' = [state |-> "refused", declared |-> <<>>, held |-> reached]
    BY <1>4 DEF TablesAfter
  <2> HIDE DEF reached
  <2>2. PICK word, none : /\ tables' = [state |-> word, declared |-> none, held |-> reached]
                          /\ word \in {"past limit", "refused"}
    <3> PICK none : none = <<>>
      OBVIOUS
    <3> QED BY <2>1
  <2>3. word # "laid out" /\ word # "declaring"
    BY <2>2
  <2>4. /\ tables'.state = word
        /\ tables' = [state |-> tables'.state, declared |-> tables'.declared, held |-> tables'.held]
    BY <2>2, TablesAre, ZenonT(60)
  <2> QED BY <1>1, <2>3, <2>4 DEF Tabled
<1>5. CASE Recoverable /\ tables.state = "declaring" /\ ~(reached > HeldLocationCount \/ TablesRefuse(call))
  <2>1. tables' = [tables EXCEPT !.declared = @ \o Located(call, origin), !.held = reached]
    BY <1>5 DEF TablesAfter
  <2>2. Declares(more, placed, accepted + Len(call))
    BY <1>1, <1>5, DeclaresMore
  <2> HIDE DEF reached
  <2>3. tables' = [state |-> tables.state, declared |-> more, held |-> reached]
    BY <1>1, <2>1
  <2> HIDE DEF more
  <2>4. tables'.state = tables.state /\ tables'.declared = more /\ tables'.held = reached
    BY <2>3
  <2>5. tables' = [state |-> tables'.state, declared |-> tables'.declared, held |-> tables'.held]
    BY <2>3, <2>4
  <2>6. Declares(tables'.declared, placed, accepted')
    BY <2>2, <2>4
  <2> QED BY <1>1, <2>4, <2>5, <2>6 DEF Tabled, Declares
<1> QED BY <1>2, <1>3, <1>4, <1>5

LEMMA WriteFragmentKeeps ==
  ASSUME IInv, ~finished, movie, Fragments,
         NEW call \in Seq(Sample), call # <<>>, WriteFragment(call), UNCHANGED disk
  PROVE  IInv'
<1> DEFINE moof == Fragment(call)
           mdat == MediaData(call)
           F == FragmentBytes(call)
           H == HeaderLength(DataBytes(call))
           m == accepted + Len(call)
<1>1. /\ output' = output
           \o (IF Reserving > 0 THEN <<At(nextOffset, Free(Reserving))>> ELSE <<>>)
           \o <<At(nextOffset + Reserving, moof), At(nextOffset + Reserving + F, mdat)>>
      /\ reserved' = ReservedAfter
      /\ nextOffset' = nextOffset + Reserving + F + Len(mdat)
      /\ tables' = TablesAfter(call, Located(call, nextOffset + Reserving + DataOffset(call, 1)))
      /\ accepted' = m
      /\ UNCHANGED <<structure, movie, placeholder, finished>>
  BY DEF WriteFragment, CountFragment, ReservedAfter
<1>2. PICK initial, places, place : Working(initial, places, place)
  BY Unfinished
<1>3. /\ accepted \in Nat /\ Sequence(output) /\ nextOffset \in Nat /\ structure \in Structures
      /\ Len(call) \in Nat /\ Len(call) > 0
  <2>1. Len(call) \in Nat /\ Len(call) # 0
    BY EmptySeq
  <2>2. Sequence(initial) /\ nextOffset = Len(initial)
    BY <1>2 DEF Working, Layout, Boxed, Stage
  <2> QED BY <1>2, <2>1, <2>2, SequenceShape DEF Working, Holding, Layout, Queued, Stage
<1>4. PICK file, starts :
         /\ Layout(disk, QueueAfter, file, starts)
         /\ Holding(file, place, accepted)
         /\ Written(file, starts, place, accepted)
         /\ Spaces(file, starts)
         /\ ReservedAfter # None => FreeAt(file, starts, ReservedAfter, SegmentIndexBytes)
         /\ Len(file) = nextOffset + Reserving
  BY <1>2, Reserves
<1> DEFINE queue == Append(QueueAfter, At(Len(file), moof))
<1>5. F \in Nat /\ H \in Nat /\ Reserving \in Nat /\ Len(file) \in Nat
  BY <1>3, <1>4, FragmentBytesIs, HeaderLengthIs, ReservingIs
<1>6. output' = Append(queue, At(Len(file) + F, mdat))
  <2>1. output \o (IF Reserving > 0 THEN <<At(nextOffset, Free(Reserving))>> ELSE <<>>) = QueueAfter
    BY <1>3, AppendAny, ConcatFew DEF QueueAfter
  <2>2. Sequence(QueueAfter)
    BY <1>4 DEF Layout, Queued
  <2> HIDE DEF moof, mdat, F
  <2>3. QueueAfter \o <<At(Len(file), moof), At(Len(file) + F, mdat)>>
          = Append(queue, At(Len(file) + F, mdat))
    BY <2>2, ConcatFew
  <2>4. output' = QueueAfter \o <<At(Len(file), moof), At(Len(file) + F, mdat)>>
    BY <1>1, <1>4, <2>1
  <2> QED BY <2>3, <2>4
<1> DEFINE origin == Len(file) + F + H
<1>7. PICK placed : placed = Placed(place, accepted, call, origin)
  OBVIOUS
<1>8. /\ OneBox(moof) /\ Len(moof) = F
      /\ NextDeclared(moof, Len(file), place, accepted, placed, m)
  BY <1>3, <1>5, <1>7, FragmentIs
<1>9. /\ OneBox(mdat) /\ mdat[1].box = "mdat"
  BY <1>3, MediaDataIs
<1> HIDE DEF moof, F
<1>10. PICK longer, more : Layout(disk, queue, longer, more) /\ Added(longer, more, file, starts, moof)
  BY <1>4, <1>8, LayoutBehind
<1> HIDE DEF queue
<1>11. Len(longer) = Len(file) + F
  BY <1>8, <1>10 DEF Added
<1>12. m \in Nat /\ m >= accepted /\ m > 0
  BY <1>3
<1>13. InFragments(longer, more, placed, m, FALSE)
  <2>1. InFragments(file, starts, place, accepted, FALSE)
    BY <1>4 DEF Written
  <2> HIDE DEF m
  <2> QED BY <1>3, <1>8, <1>10, <1>12, <2>1, FragmentsMoof
<1>14. Holding(longer, place, accepted)
  BY <1>4, <1>10, HoldingMore
<1>15. PICK whole, all : /\ Layout(disk, Append(queue, At(Len(longer), mdat)), whole, all)
                         /\ Added(whole, all, longer, more, mdat)
  <2> HIDE DEF mdat
  <2> QED BY <1>9, <1>10, LayoutBehind
<1>16. Holding(whole, placed, m)
  <2>1. Holding(whole, Placed(place, accepted, call, Len(longer) + H), accepted + Len(call))
    BY <1>14, <1>15, HoldingCall
  <2> HIDE DEF H
  <2> QED BY <1>7, <1>11, <2>1
<1> HIDE DEF mdat, H, m
<1>17. InFragments(whole, all, placed, m, FALSE)
  BY <1>9, <1>12, <1>13, <1>15, FragmentsMore
<1>18. /\ Spaces(whole, all)
       /\ ReservedAfter # None => FreeAt(whole, all, ReservedAfter, SegmentIndexBytes)
  <2>1. /\ Spaces(longer, more)
        /\ ReservedAfter # None => FreeAt(longer, more, ReservedAfter, SegmentIndexBytes)
    BY <1>4, <1>10, SpacesMore, FreeMore
  <2> QED BY <1>15, <2>1, SpacesMore, FreeMore
<1>19. Tabled(placed)'
  <2>1. nextOffset + Reserving + DataOffset(call, 1) = origin
    <3>1. DataOffset(call, 1) = F + H + 0
      BY BytesBeforeIs DEF DataOffset, F, H
    <3> QED BY <1>4, <1>5, <3>1
  <2>2. tables' = TablesAfter(call, Located(call, origin))
    BY <1>1, <2>1
  <2>3. accepted' = accepted + Len(call)
    BY <1>1 DEF m
  <2> HIDE DEF origin
  <2> QED BY <1>1, <1>2, <1>3, <1>7, <2>2, <2>3, TabledAfter DEF Working
<1>20. Layout(disk, output, whole, all)'
  BY <1>1, <1>6, <1>11, <1>15
<1>21. Holding(whole, placed, accepted)' /\ Written(whole, all, placed, accepted)'
  BY <1>1, <1>16, <1>17 DEF Written, Fragments
<1>22. Spaces(whole, all)'
  BY <1>1, <1>2, <1>18, <1>19 DEF Spaces, SegmentIndexBytes, LaidOut, Recoverable, Working, Tabled
<1>23. Stage(whole, all)'
  BY <1>1, <1>2, <1>4, <1>5, <1>11, <1>15 DEF Working, Stage, Added
<1>24. WorkingSuffices'
  BY WorkingIs, PTL
<1> QED BY <1>1, <1>19, <1>20, <1>21, <1>22, <1>23, <1>24 DEF Working, WorkingSuffices

(* A moof that does not write loses no free where none is reserved for it. *)
LEMMA LoseFragmentKeeps ==
  ASSUME IInv, Counted, NEW call, LoseFragment(call), lost'.free = 0, UNCHANGED disk
  PROVE  IInv'
<1>1. Reserving \in Nat /\ nextOffset \in Nat /\ lost.free \in Nat
  BY ReservingIs DEF Counted
<1>2. lost'.free = lost.free + (IF Reserving > 0 THEN 1 ELSE 0)
  BY DEF LoseFragment
<1>3. ~(Reserving > 0) /\ Reserving = 0
  BY <1>1, <1>2
<1>4. nextOffset' = nextOffset /\ reserved' = reserved
  BY <1>1, <1>3 DEF LoseFragment, CountFragment
<1> QED BY <1>4, Unchanged DEF LoseFragment
-------------------------------------------------------------------------------
(* THE END OF THE FILE                                                     *)

(* What a finish leaves as it was, whatever it writes.                     *)
Finishes ==
  /\ ~finished /\ movie /\ finished' = TRUE
  /\ UNCHANGED <<structure, movie, reserved, placeholder, accepted, disk>>

FinishedSuffices ==
  \A file, starts, place, n :
    /\ Boxed(file, starts) /\ Queued(disk, output, file, n) /\ Holding(file, place, accepted)
    /\ Contents(file, starts, place) /\ Overlay(file, starts, place, n)
    /\ Spaces(file, starts) /\ Tabled(place) /\ Stage(file, starts)
    => IInv

LEMMA FinishedIs == FinishedSuffices
  BY DEF FinishedSuffices, IInv, Inv

LEMMA FinishedSame ==
  ASSUME IInv, Finishes, UNCHANGED <<nextOffset, output, tables>>
  PROVE  IInv'
<1>1. PICK file, starts, place : Working(file, starts, place)
  BY Unfinished DEF Finishes
<1>2. /\ Boxed(file, starts) /\ Queued(disk, output, file, Len(output))
      /\ Holding(file, place, accepted) /\ Written(file, starts, place, accepted)
      /\ Spaces(file, starts) /\ Tabled(place) /\ Stage(file, starts)
      /\ tables.state # "laid out"
  BY <1>1 DEF Working, Layout, Finishes, Tabled
<1>3. finished' = TRUE /\ ~LaidOut /\ ~LaidOut'
  BY <1>2 DEF Finishes, LaidOut
<1>4. Contents(file, starts, place)'
  BY <1>2, <1>3, FragmentsEnd, TablesEnd DEF Contents, Written, Fragments, Finishes
<1>5. Spaces(file, starts)'
  BY <1>2, <1>3 DEF Spaces, Finishes, Recoverable, SegmentIndexBytes
<1>6. Tabled(place)' /\ Stage(file, starts)'
  BY <1>2, <1>3 DEF Tabled, Stage, Finishes, Recoverable, Fragments
<1>7. Overlay(file, starts, place, Len(output))'
  BY <1>2 DEF Overlay
<1>8. FinishedSuffices'
  BY FinishedIs, PTL
<1>9. Boxed(file, starts)' /\ Queued(disk, output, file, Len(output))' /\ Holding(file, place, accepted)'
  BY <1>2 DEF Finishes
<1> QED BY <1>4, <1>5, <1>6, <1>7, <1>8, <1>9 DEF FinishedSuffices

(* A last box that declares nothing.                                       *)
LEMMA FinishedBox ==
  ASSUME IInv, Finishes, NEW cells, OneBox(cells),
         cells[1].box \notin {"moov", "moof", "mdat"},
         NEW queue, queue = Append(output, At(nextOffset, cells)), output' = queue,
         nextOffset' = nextOffset + Len(cells), UNCHANGED tables
  PROVE  IInv'
<1>1. PICK file, starts, place : Working(file, starts, place)
  BY Unfinished DEF Finishes
<1>2. /\ Layout(disk, output, file, starts) /\ nextOffset = Len(file)
      /\ Tabled(place) /\ Stage(file, starts) /\ tables.state # "laid out"
  BY <1>1 DEF Working, Finishes, Tabled, Stage
<1>3. finished' = TRUE /\ ~LaidOut /\ ~LaidOut' /\ ~finished
  BY <1>2 DEF Finishes, LaidOut
<1>4. PICK longer, more : Layout(disk, queue, longer, more) /\ Added(longer, more, file, starts, cells)
  BY <1>2, LayoutBehind
<1>5. /\ Holding(longer, place, accepted) /\ Written(longer, more, place, accepted)
      /\ Spaces(longer, more) /\ Len(longer) = Len(file) + Len(cells)
  BY <1>1, <1>3, <1>4, WorkingMore, AddedShape
<1>6. Contents(longer, more, place)'
  BY <1>3, <1>5, FragmentsEnd, TablesEnd DEF Contents, Written, Fragments, Finishes
<1>7. Spaces(longer, more)'
  BY <1>3, <1>5 DEF Spaces, Finishes, Recoverable, SegmentIndexBytes
<1>8. Tabled(place)' /\ Stage(longer, more)'
  BY <1>2, <1>3, <1>5 DEF Tabled, Stage, Finishes, Recoverable, Fragments
<1>9. Overlay(longer, more, place, Len(output))'
  BY <1>2 DEF Overlay
<1>10. FinishedSuffices'
  BY FinishedIs, PTL
<1>11. Boxed(longer, more)' /\ Queued(disk, output, longer, Len(output))' /\ Holding(longer, place, accepted)'
  BY <1>4, <1>5 DEF Finishes, Layout
<1> QED BY <1>6, <1>7, <1>8, <1>9, <1>10, <1>11 DEF FinishedSuffices

(* The moov of the tables declares every sample where it lies.             *)
LEMMA TableMovieIs ==
  ASSUME NEW place, Declares(tables.declared, place, accepted)
  PROVE  /\ OneBox(TableMovie) /\ TableMovie[1].box = "moov"
         /\ TableMovie[1].holds = {LocationOf(place, s) : s \in 1..accepted}
<1> DEFINE Told(i) == [sample |-> tables.declared[i].sample, start |-> tables.declared[i].start,
                       length |-> tables.declared[i].length]
           holds == {Told(i) : i \in DOMAIN tables.declared}
<1>1. DOMAIN tables.declared = 1..accepted
  BY SequenceShape DEF Declares
<1>2. \A i \in 1..accepted : Told(i) = LocationOf(place, i)
  BY DEF Declares, LocationOf
<1>3. holds = {LocationOf(place, s) : s \in 1..accepted}
  <2> HIDE DEF Told
  <2> QED BY <1>1, <1>2
<1>4. TableMovie = Plain("moov", holds)
  BY DEF TableMovie
<1> HIDE DEF holds
<1>5. /\ OneBox(Plain("moov", holds)) /\ Plain("moov", holds)[1].box = "moov"
      /\ Plain("moov", holds)[1].holds = holds
  BY HeaderBytesType, BoxIs DEF Plain
<1> QED BY <1>3, <1>4, <1>5

LEMMA FinishTablesKeeps ==
  ASSUME IInv, Finishes, FinishTables
  PROVE  IInv'
<1>1. CASE FailFinish
  BY <1>1, FinishedSame DEF FailFinish
<1>2. CASE ~FailFinish
  <2> DEFINE cells == TableMovie
             queue == Append(output, At(nextOffset, cells))
  <2>1. /\ output' = queue /\ nextOffset' = nextOffset + Len(cells) /\ UNCHANGED tables
        /\ ~Fragments /\ ~Recoverable
    BY <1>2 DEF FinishTables, Fragments, Recoverable
  <2>2. PICK file, starts, place : Working(file, starts, place)
    BY Unfinished DEF Finishes
  <2>3. /\ Layout(disk, output, file, starts) /\ nextOffset = Len(file)
        /\ Tabled(place) /\ Stage(file, starts) /\ tables.state # "laid out"
        /\ Holding(file, place, accepted) /\ InTables(file, starts, place, accepted, FALSE)
    BY <2>1, <2>2 DEF Working, Finishes, Tabled, Stage, Written
  <2>4. Declares(tables.declared, place, accepted)
    BY <2>1, <2>3 DEF Tabled, Declares
  <2>5. OneBox(cells) /\ cells[1].box = "moov"
        /\ cells[1].holds = {LocationOf(place, s) : s \in 1..accepted}
    BY <2>4, TableMovieIs
  <2> HIDE DEF cells
  <2>6. PICK longer, more : Layout(disk, queue, longer, more) /\ Added(longer, more, file, starts, cells)
    BY <2>3, <2>5, LayoutBehind
  <2> HIDE DEF queue
  <2>7. /\ Holding(longer, place, accepted) /\ Len(longer) = Len(file) + Len(cells)
        /\ InTables(longer, more, place, accepted, TRUE)
    <3>1. Holding(longer, place, accepted)
      BY <2>3, <2>6, HoldingMore
    <3>2. InTables(longer, more, place, accepted, TRUE)
      BY <2>3, <2>5, <2>6, TablesMoov
    <3> QED BY <2>6, <3>1, <3>2 DEF Added
  <2>8. finished' = TRUE /\ ~Fragments' /\ ~Recoverable'
    BY <2>1 DEF Finishes, Fragments, Recoverable
  <2>9. Contents(longer, more, place)'
    BY <2>7, <2>8 DEF Contents, LaidOut, Finishes
  <2>10. Spaces(longer, more)'
    BY <2>8 DEF Spaces
  <2>11. Tabled(place)' /\ Stage(longer, more)'
    BY <2>1, <2>3, <2>7, <2>8 DEF Tabled, Stage, Finishes
  <2>12. Overlay(longer, more, place, Len(output))'
    BY <2>8 DEF Overlay
  <2>13. FinishedSuffices'
    BY FinishedIs, PTL
  <2>14. Boxed(longer, more)' /\ Queued(disk, output, longer, Len(output))' /\ Holding(longer, place, accepted)'
    BY <2>1, <2>6, <2>7 DEF Finishes, Layout
  <2> QED BY <2>9, <2>10, <2>11, <2>12, <2>13, <2>14 DEF FinishedSuffices
<1> QED BY <1>1, <1>2

LEMMA FinishFragmentedKeeps ==
  ASSUME IInv, Finishes, FinishFragmented
  PROVE  IInv'
<1> DEFINE cells == Plain("mfra", syncSamples)
<1>1. CASE UNCHANGED <<nextOffset, output, tables>>
  BY <1>1, FinishedSame
<1>2. CASE /\ output' = Append(output, At(nextOffset, cells))
           /\ nextOffset' = nextOffset + Len(cells)
           /\ UNCHANGED tables
  <2>1. OneBox(cells) /\ cells[1].box \notin {"moov", "moof", "mdat"}
    <3>1. HeaderBytes + PayloadBytes \in Nat /\ HeaderBytes + PayloadBytes > 0
      BY HeaderBytesType
    <3>2. OneBox(cells) /\ cells[1].box = "mfra"
      BY <3>1, BoxIs DEF Plain
    <3> QED BY <3>2
  <2>2. PICK box, queue : box = cells /\ queue = Append(output, At(nextOffset, box))
    OBVIOUS
  <2> HIDE DEF cells
  <2> QED BY <1>2, <2>1, <2>2, FinishedBox
<1> QED BY <1>1, <1>2 DEF FinishFragmented, FailFinish

(* An output that goes over the file leaves what comes before it as it was.*)
LEMMA QueuedOver ==
  ASSUME NEW written, NEW outputs, NEW file, Queued(written, outputs, file, Len(outputs)), NEW over
  PROVE  Queued(written, Append(outputs, over), file, Len(outputs))
<1> DEFINE queue == Append(outputs, over)
           N == Len(outputs)
<1>1. Sequence(written) /\ Sequence(outputs)
  BY DEF Queued
<1>2. /\ Sequence(queue) /\ N \in Nat /\ Len(queue) = N + 1
      /\ \A k \in 1..N : queue[k] = outputs[k]
  BY <1>1, AppendAny
<1> HIDE DEF queue
<1>3. ASSUME NEW k \in 1..N
      PROVE  /\ queue[k] = outputs[k]
             /\ k # 1 => queue[k - 1] = outputs[k - 1]
  <2>1. k # 1 => k - 1 \in 1..N
    BY <1>2
  <2> QED BY <2>1, <1>2
<1>4. \A k \in 1..N :
        /\ queue[k] = At(queue[k].offset, queue[k].cells)
        /\ queue[k].offset \in Nat
        /\ Sequence(queue[k].cells)
        /\ Len(queue[k].cells) > 0
        /\ queue[k].offset + Len(queue[k].cells) <= Len(file)
        /\ \A i \in DOMAIN queue[k].cells : queue[k].cells[i] = file[queue[k].offset + i]
        /\ queue[k].offset = IF k = 1 THEN Len(written)
                             ELSE queue[k - 1].offset + Len(queue[k - 1].cells)
  <2> SUFFICES ASSUME NEW k \in 1..N
               PROVE  /\ queue[k] = At(queue[k].offset, queue[k].cells)
                      /\ queue[k].offset \in Nat
                      /\ Sequence(queue[k].cells)
                      /\ Len(queue[k].cells) > 0
                      /\ queue[k].offset + Len(queue[k].cells) <= Len(file)
                      /\ \A i \in DOMAIN queue[k].cells : queue[k].cells[i] = file[queue[k].offset + i]
                      /\ queue[k].offset = IF k = 1 THEN Len(written)
                                           ELSE queue[k - 1].offset + Len(queue[k - 1].cells)
    OBVIOUS
  <2>1. /\ outputs[k] = At(outputs[k].offset, outputs[k].cells)
        /\ outputs[k].offset \in Nat
        /\ Sequence(outputs[k].cells)
        /\ Len(outputs[k].cells) > 0
        /\ outputs[k].offset + Len(outputs[k].cells) <= Len(file)
        /\ \A i \in DOMAIN outputs[k].cells : outputs[k].cells[i] = file[outputs[k].offset + i]
        /\ outputs[k].offset = IF k = 1 THEN Len(written)
                               ELSE outputs[k - 1].offset + Len(outputs[k - 1].cells)
    BY DEF Queued
  <2> QED BY <2>1, <1>3
<1>5. Len(file) = IF N = 0 THEN Len(written) ELSE queue[N].offset + Len(queue[N].cells)
  <2>1. Len(file) = IF N = 0 THEN Len(written) ELSE outputs[N].offset + Len(outputs[N].cells)
    BY DEF Queued
  <2>2. N # 0 => queue[N] = outputs[N]
    BY <1>2
  <2> QED BY <2>1, <2>2
<1>6. /\ Len(written) <= Len(file) /\ N \in 0..Len(queue)
      /\ \A i \in DOMAIN written : written[i] = file[i]
  BY <1>2 DEF Queued
<1>7. Queued(written, queue, file, N)
  BY <1>1, <1>2, <1>4, <1>5, <1>6 DEF Queued
<1> QED BY <1>7 DEF queue

LEMMA FinishRecoverableKeeps ==
  ASSUME IInv, Finishes, FinishRecoverable
  PROVE  IInv'
<1>1. CASE FailFinish
  BY <1>1, FinishedSame DEF FailFinish
<1>2. CASE ~FailFinish
  <2> DEFINE cells == TableMovie
             header == MediaDataHeader(nextOffset - placeholder - 2 * HeaderBytes)
             queue == Append(output, At(nextOffset, cells))
  <2>1. /\ tables.state = "declaring"
        /\ tables' = [tables EXCEPT !.state = "laid out"]
        /\ output' = output \o <<At(nextOffset, cells), At(placeholder, header)>>
        /\ nextOffset' = nextOffset + Len(cells)
        /\ Recoverable /\ Fragments
    BY <1>2 DEF FinishRecoverable, Recoverable, Fragments
  <2>2. PICK file, starts, place : Working(file, starts, place)
    BY Unfinished DEF Finishes
  <2>3. /\ Layout(disk, output, file, starts) /\ nextOffset = Len(file) /\ Len(file) \in Nat
        /\ Tabled(place) /\ Stage(file, starts) /\ Spaces(file, starts)
        /\ Holding(file, place, accepted) /\ InFragments(file, starts, place, accepted, FALSE)
        /\ Sequence(output) /\ Boxed(file, starts)
    BY <2>1, <2>2, SequenceShape
       DEF Working, Finishes, Tabled, Stage, Written, Layout, Boxed, Queued
  <2>4. Declares(tables.declared, place, accepted)
    BY <2>1, <2>3 DEF Tabled, Declares, Finishes
  <2>5. OneBox(cells) /\ cells[1].box = "moov"
        /\ cells[1].holds = {LocationOf(place, s) : s \in 1..accepted}
    BY <2>4, TableMovieIs
  <2> HIDE DEF cells
  <2>6. PICK longer, more : Layout(disk, queue, longer, more) /\ Added(longer, more, file, starts, cells)
    BY <2>3, <2>5, LayoutBehind
  <2>7. Sequence(queue) /\ Len(queue) = Len(output) + 1 /\ Len(output) \in Nat
    BY <2>3, AppendAny
  <2>8. PICK over : over = At(placeholder, header)
    OBVIOUS
  <2>9. output' = Append(queue, over)
    <3> HIDE DEF header
    <3>1. output' = output \o <<At(nextOffset, cells), over>>
      BY <2>1, <2>8
    <3>2. output \o <<At(nextOffset, cells), over>> = queue \o <<over>>
      BY <2>3, <2>7, ConcatFew, AppendAny
    <3> HIDE DEF queue
    <3> QED BY <2>7, <3>1, <3>2, AppendAny
  <2> HIDE DEF queue
  <2>10. PICK n : n = Len(queue)
    OBVIOUS
  <2>11. /\ Sequence(output') /\ Len(output') = n + 1 /\ n \in Nat
         /\ output'[n + 1] = over /\ output' # <<>>
    <3>1. Len(output') # 0
      BY <2>7, <2>9, AppendAny
    <3>2. output' # <<>>
      BY <3>1
    <3> QED BY <2>7, <2>9, <2>10, <3>2, AppendAny
  <2>12. Queued(disk, output, longer, n)'
    <3>1. Queued(disk, Append(queue, over), longer, n)
      BY <2>6, <2>10, QueuedOver DEF Layout
    <3> QED BY <2>9, <3>1 DEF Finishes
  <2>13. tables' = [state |-> "laid out", declared |-> tables.declared, held |-> tables.held]
         /\ tables'.state = "laid out"
    BY <2>1, <2>3 DEF Tabled
  <2>14. ~LaidOut /\ ~LaidOut' /\ Recoverable' /\ Fragments'
    BY <2>1, <2>11, <2>13 DEF LaidOut, Finishes, Recoverable, Fragments
  <2>15. /\ FreeAt(file, starts, placeholder, 2 * HeaderBytes)
         /\ \E o \in starts : TypeIn(file, o) = "moov"
    BY <2>1, <2>3, <2>14 DEF Spaces, Finishes
  <2>16. placeholder + 2 * HeaderBytes <= Len(file)
    BY <2>3, <2>15 DEF FreeAt, Boxed, EndIn, TotalIn
  <2>17. /\ Holding(longer, place, accepted) /\ Len(longer) = Len(file) + Len(cells)
         /\ InFragments(longer, more, place, accepted, TRUE) /\ Spaces(longer, more)
    <3>1. Holding(longer, place, accepted)
      BY <2>3, <2>6, HoldingMore
    <3>2. InFragments(longer, more, place, accepted, TRUE)
      BY <2>3, <2>5, <2>6, <2>15, FragmentsMoov
    <3>3. Spaces(longer, more)
      BY <2>3, <2>6, SpacesMore
    <3> QED BY <2>6, <3>1, <3>2, <3>3 DEF Added
  <2>18. Contents(longer, more, place)'
    BY <2>14, <2>17 DEF Contents, Finishes
  <2>19. Spaces(longer, more)'
    BY <2>14, <2>17, <2>1 DEF Spaces, Finishes
  <2>20. Tabled(place)'
    BY <2>13, <2>14 DEF Tabled, Finishes
  <2>21. Stage(longer, more)'
    BY <2>1, <2>3, <2>17 DEF Stage, Finishes
  <2>22. Header(longer, more, place, over)'
    <3>1. /\ Len(file) \in more /\ TypeIn(longer, Len(file)) = "moov"
          /\ EndIn(longer, Len(file)) = Len(longer)
          /\ HoldsIn(longer, Len(file)) = {LocationOf(place, s) : s \in 1..accepted}
      BY <2>5, <2>6, AddedShape
    <3>2. over.offset = placeholder /\ over.cells = MediaDataHeader(Len(file) - placeholder - 2 * HeaderBytes)
      BY <2>3, <2>8 DEF At
    <3> QED BY <2>13, <2>16, <3>1, <3>2 DEF Header, Finishes
  <2>23. Overlay(longer, more, place, n)'
    <3>1. n # Len(output') /\ n = Len(output') - 1
      BY <2>11
    <3>2. over = At(over.offset, over.cells)
      BY <2>8 DEF At
    <3> QED BY <2>11, <2>14, <2>22, <3>1, <3>2 DEF Overlay, Finishes
  <2>24. FinishedSuffices'
    BY FinishedIs, PTL
  <2>25. Boxed(longer, more)' /\ Holding(longer, place, accepted)'
    BY <2>6, <2>17 DEF Finishes, Layout
  <2> QED BY <2>12, <2>18, <2>19, <2>20, <2>21, <2>23, <2>24, <2>25 DEF FinishedSuffices
<1> QED BY <1>1, <1>2

LEMMA FinishSegmentKeeps ==
  ASSUME IInv, Finishes, FinishSegment
  PROVE  IInv'
<1> DEFINE cells == SegmentIndex
           offset == IF reserved = None THEN nextOffset ELSE reserved
<1>1. CASE UNCHANGED <<nextOffset, output, tables>>
  BY <1>1, FinishedSame
<1>2. CASE /\ Indexed
           /\ output' = Append(output, At(offset, cells))
           /\ nextOffset' = IF reserved = None THEN nextOffset + SegmentIndexBytes ELSE nextOffset
           /\ UNCHANGED tables
  <2>1. PICK file, starts, place : Working(file, starts, place)
    BY Unfinished DEF Finishes
  <2>2. /\ Boxed(file, starts) /\ Queued(disk, output, file, Len(output)) /\ nextOffset = Len(file)
        /\ Tabled(place) /\ Stage(file, starts) /\ Spaces(file, starts)
        /\ Holding(file, place, accepted) /\ Written(file, starts, place, accepted)
        /\ Sequence(output) /\ tables.state # "laid out"
    BY <2>1 DEF Working, Finishes, Tabled, Stage, Layout, Boxed, Queued
  <2>3. SegmentIndexBytes \in Nat /\ SegmentIndexBytes > 0
    <3>1. structure.subsegments \in Nat \cup {None} /\ structure.subsegments # None
      BY <1>2, <2>2, StructureIs DEF Indexed, Stage
    <3> QED BY <3>1, HeaderBytesType DEF SegmentIndexBytes
  <2>4. /\ OneBox(cells) /\ cells[1].box = "sidx" /\ Len(cells) = SegmentIndexBytes
        /\ cells[1].box \notin {"moov", "moof", "mdat"}
    <3> HIDE DEF SegmentIndexBytes
    <3> QED BY <2>3, BoxIs DEF SegmentIndex
  <2> HIDE DEF cells
  <2>5. CASE reserved = None
    <3>1. PICK queue : queue = Append(output, At(nextOffset, cells))
      OBVIOUS
    <3> QED BY <1>2, <2>4, <2>5, <3>1, FinishedBox
  <2>6. CASE reserved # None
    <3>1. PICK over : over = At(reserved, cells)
      OBVIOUS
    <3>2. PICK n : n = Len(output)
      OBVIOUS
    <3>3. output' = Append(output, over) /\ nextOffset' = nextOffset
      BY <1>2, <2>6, <3>1
    <3>4. /\ Len(output') = n + 1 /\ n \in Nat /\ output'[n + 1] = over
      BY <2>2, <3>2, <3>3, AppendAny
    <3>5. Queued(disk, output, file, n)'
      <4>1. Queued(disk, Append(output, over), file, n)
        BY <2>2, <3>2, QueuedOver
      <4> QED BY <3>3, <4>1 DEF Finishes
    <3>6. ~LaidOut /\ ~LaidOut' /\ ~Recoverable' /\ (Fragments' <=> Fragments) /\ Fragments'
      BY <1>2, <2>2 DEF LaidOut, Finishes, Recoverable, Fragments, FinishSegment
    <3>7. Contents(file, starts, place)'
      BY <2>2, <3>6, FragmentsEnd, TablesEnd DEF Contents, Written, Finishes
    <3>8. Spaces(file, starts)'
      BY <3>6 DEF Spaces, Finishes
    <3>9. Tabled(place)' /\ Stage(file, starts)'
      BY <1>2, <2>2, <3>3, <3>6 DEF Tabled, Stage, Finishes
    <3>10. Overlay(file, starts, place, n)'
      <4>1. FreeAt(file, starts, reserved, SegmentIndexBytes)
        BY <2>2, <2>6 DEF Spaces, Finishes
      <4>2. over = At(over.offset, over.cells) /\ over.offset = reserved /\ over.cells = cells
        BY <3>1 DEF At
      <4>3. Index(file, starts, over)
        BY <2>4, <4>1, <4>2 DEF Index
      <4>4. n # Len(output') /\ n = Len(output') - 1
        BY <3>4
      <4> QED BY <3>4, <3>6, <4>2, <4>3, <4>4 DEF Overlay, Finishes
    <3>11. FinishedSuffices'
      BY FinishedIs, PTL
    <3>12. Boxed(file, starts)' /\ Holding(file, place, accepted)'
      BY <2>2 DEF Finishes
    <3> QED BY <3>5, <3>7, <3>8, <3>9, <3>10, <3>11, <3>12 DEF FinishedSuffices
  <2> QED BY <2>5, <2>6
<1> QED BY <1>1, <1>2 DEF FinishSegment, FailFinish

LEMMA FinishKeeps ==
  ASSUME IInv, Finish
  PROVE  IInv'
<1>1. CASE RefuseFinish
  BY <1>1, Unchanged DEF RefuseFinish, Finish, muxer
<1>2. CASE ~RefuseFinish
  <2>1. Finishes /\ (FinishTables \/ FinishRecoverable \/ FinishFragmented \/ FinishSegment)
    BY <1>2 DEF Finish, Finishes
  <2> QED BY <2>1, FinishTablesKeeps, FinishRecoverableKeeps, FinishFragmentedKeeps, FinishSegmentKeeps
<1> QED BY <1>1, <1>2
-------------------------------------------------------------------------------
(* THE SINK                                                                *)

Longest(n, a, b) == n \in {a, b} /\ n >= a /\ n >= b

LEMMA LongestIs ==
  ASSUME NEW n \in Nat, NEW a \in Nat, NEW b \in Nat, Longest(n, a, b)
  PROVE  Max({a, b}) = n
<1>1. n \in {a, b} /\ \A z \in {a, b} : n >= z
  BY DEF Longest
<1>2. \A w \in {a, b} : (\A z \in {a, b} : w >= z) => w = n
  BY DEF Longest
<1> QED BY <1>1, <1>2 DEF Max

LEMMA OverlaidIs ==
  ASSUME NEW cells, Sequence(cells), Sequence(disk), NEW offset \in Nat, offset <= Len(disk),
         NEW longest \in Nat,
         Longest(longest, Len(disk), offset + Len(cells))
  PROVE  /\ Sequence(Overlaid(cells, offset)) /\ Len(Overlaid(cells, offset)) = longest
         /\ \A i \in 1..Len(cells) : Overlaid(cells, offset)[offset + i] = cells[i]
         /\ \A i \in 1..Len(disk) : ~(offset < i /\ i <= offset + Len(cells)) =>
              Overlaid(cells, offset)[i] = disk[i]
<1> DEFINE over == Overlaid(cells, offset)
           Cell(i) == IF i - offset \in DOMAIN cells THEN cells[i - offset]
                      ELSE IF i \in DOMAIN disk THEN disk[i] ELSE Hole
<1>1. /\ Len(cells) \in Nat /\ Len(disk) \in Nat
      /\ DOMAIN cells = 1..Len(cells) /\ DOMAIN disk = 1..Len(disk)
  BY SequenceShape
<1>2. Max({Len(disk), offset + Len(cells)}) = longest
  <2>1. offset + Len(cells) \in Nat
    BY <1>1
  <2> QED BY <1>1, <2>1, LongestIs
<1>3. over = [i \in 1..longest |-> Cell(i)]
  BY <1>2 DEF Overlaid
<1>4. Sequence(over) /\ Len(over) = longest /\ \A i \in 1..longest : over[i] = Cell(i)
  <2>1. over = [i \in 1..longest |-> over[i]] /\ \A i \in 1..longest : over[i] = Cell(i)
    <3> HIDE DEF Cell
    <3> QED BY <1>3
  <2> HIDE DEF over
  <2> QED BY <2>1, SequenceOfAny
<1> HIDE DEF over
<1>5. longest >= offset + Len(cells) /\ longest >= Len(disk)
  BY DEF Longest
<1>6. ASSUME NEW i \in 1..Len(cells) PROVE over[offset + i] = cells[i]
  <2>1. offset + i \in 1..longest /\ offset + i - offset = i
    BY <1>1, <1>5
  <2>2. over[offset + i] = Cell(offset + i)
    BY <1>4, <2>1
  <2>3. offset + i - offset \in DOMAIN cells
    BY <2>1, <1>1
  <2>4. Cell(offset + i) = cells[offset + i - offset]
    BY <2>3
  <2> QED BY <2>1, <2>2, <2>4
<1>7. ASSUME NEW i \in 1..Len(disk), ~(offset < i /\ i <= offset + Len(cells))
      PROVE  over[i] = disk[i]
  <2>1. i \in 1..longest /\ i - offset \notin 1..Len(cells)
    BY <1>1, <1>5, <1>7
  <2>2. over[i] = Cell(i)
    BY <1>4, <2>1
  <2>3. Cell(i) = disk[i]
    BY <2>1, <1>1
  <2> QED BY <2>2, <2>3
<1> QED BY <1>4, <1>6, <1>7 DEF over

(* A byte behind what is on disk.                                          *)
LEMMA WriteBehind ==
  ASSUME NEW cells, Sequence(cells), Len(cells) > 0, Sequence(disk)
  PROVE  /\ Sequence(Overlaid(SubSeq(cells, 1, 1), Len(disk)))
         /\ Len(Overlaid(SubSeq(cells, 1, 1), Len(disk))) = Len(disk) + 1
         /\ Overlaid(SubSeq(cells, 1, 1), Len(disk))[Len(disk) + 1] = cells[1]
         /\ \A i \in 1..Len(disk) : Overlaid(SubSeq(cells, 1, 1), Len(disk))[i] = disk[i]
<1> DEFINE first == SubSeq(cells, 1, 1)
           N == Len(disk)
<1>1. Len(cells) \in Nat /\ N \in Nat
  BY SequenceShape
<1>2. Sequence(first) /\ Len(first) = 1 /\ first[1] = cells[1]
  <2>1. Sequence(first) /\ Len(first) = 1 - 1 + 1 /\ \A i \in 1..1 - 1 + 1 : first[i] = cells[1 + i - 1]
    <3>1. 1 <= 1 + 1 /\ 1 <= Len(cells)
      BY <1>1
    <3> QED BY <3>1, SubSeqAny
  <2> HIDE DEF first
  <2> QED BY <2>1
<1> HIDE DEF first
<1>3. Longest(N + 1, Len(disk), N + Len(first)) /\ N <= Len(disk)
  BY <1>1, <1>2 DEF Longest
<1>4. /\ Sequence(Overlaid(first, N)) /\ Len(Overlaid(first, N)) = N + 1
      /\ \A i \in 1..Len(first) : Overlaid(first, N)[N + i] = first[i]
      /\ \A i \in 1..Len(disk) : ~(N < i /\ i <= N + Len(first)) => Overlaid(first, N)[i] = disk[i]
  <2>1. N + 1 \in Nat
    BY <1>1
  <2>2. PICK longest \in Nat : longest = N + 1
    BY <2>1
  <2> HIDE DEF N
  <2>3. /\ Sequence(Overlaid(first, N)) /\ Len(Overlaid(first, N)) = longest
        /\ \A i \in 1..Len(first) : Overlaid(first, N)[N + i] = first[i]
        /\ \A i \in 1..Len(disk) : ~(N < i /\ i <= N + Len(first)) => Overlaid(first, N)[i] = disk[i]
    BY <1>1, <1>2, <1>3, <2>2, OverlaidIs
  <2> QED BY <2>2, <2>3
<1>5. \A i \in 1..Len(disk) : ~(N < i)
  BY <1>1
<1> QED BY <1>1, <1>2, <1>4, <1>5 DEF first

Longer(after, written, cell) ==
  /\ Sequence(after) /\ Len(after) = Len(written) + 1
  /\ after[Len(written) + 1] = cell
  /\ \A i \in 1..Len(written) : after[i] = written[i]

(* The sink takes the first cell of the first output.                      *)
LEMMA AfterIs ==
  ASSUME NEW written, NEW outputs, NEW file, NEW n, Queued(written, outputs, file, n), n > 0,
         NEW after, Longer(after, written, outputs[1].cells[1])
  PROVE  /\ Len(after) <= Len(file) /\ Len(written) \in Nat /\ Len(file) \in Nat
         /\ \A i \in DOMAIN after : after[i] = file[i]
         /\ 1 \in 1..n /\ n \in Nat /\ n <= Len(outputs) /\ Len(outputs) \in Nat
         /\ outputs[1].offset = Len(written)
         /\ Sequence(outputs[1].cells)
         /\ Len(outputs[1].cells) \in Nat /\ Len(outputs[1].cells) > 0
         /\ Len(written) + Len(outputs[1].cells) <= Len(file)
         /\ \A i \in 1..Len(outputs[1].cells) : outputs[1].cells[i] = file[Len(written) + i]
<1> DEFINE first == outputs[1]
<1>1. /\ Sequence(written) /\ Sequence(outputs) /\ n \in 0..Len(outputs)
      /\ \A i \in DOMAIN written : written[i] = file[i]
  BY DEF Queued
<1>10. /\ Sequence(after) /\ Len(after) = Len(written) + 1
       /\ after[Len(written) + 1] = outputs[1].cells[1]
       /\ \A i \in 1..Len(written) : after[i] = written[i]
  BY DEF Longer
<1>2. /\ Len(written) \in Nat /\ DOMAIN written = 1..Len(written) /\ Len(outputs) \in Nat
      /\ DOMAIN after = 1..Len(written) + 1
  BY <1>1, <1>10, SequenceShape
<1>3. 1 \in 1..n /\ n \in Nat /\ n <= Len(outputs)
  BY <1>1, <1>2
<1>4. /\ first.offset = Len(written) /\ Sequence(first.cells) /\ Len(first.cells) > 0
      /\ first.offset + Len(first.cells) <= Len(file)
      /\ \A i \in DOMAIN first.cells : first.cells[i] = file[first.offset + i]
  BY <1>3 DEF Queued
<1>5. Len(first.cells) \in Nat /\ DOMAIN first.cells = 1..Len(first.cells)
  BY <1>4, SequenceShape
<1>6. Len(file) \in Nat
  <2>1. CASE n = 0
    BY <1>3, <2>1
  <2>2. CASE n # 0
    <3>1. /\ n \in 1..n /\ Len(file) = outputs[n].offset + Len(outputs[n].cells)
          /\ outputs[n].offset \in Nat /\ Sequence(outputs[n].cells)
      BY <1>3, <2>2 DEF Queued
    <3> QED BY <3>1, SequenceShape
  <2> QED BY <2>1, <2>2
<1> HIDE DEF first
<1>7. Len(after) <= Len(file) /\ Len(written) + Len(first.cells) <= Len(file)
  BY <1>2, <1>4, <1>5, <1>6, <1>10
<1>8. \A i \in 1..Len(first.cells) : first.cells[i] = file[Len(written) + i]
  BY <1>4, <1>5
<1>9. ASSUME NEW i \in DOMAIN after PROVE after[i] = file[i]
  <2>1. CASE i = Len(written) + 1
    <3>1. 1 \in 1..Len(first.cells)
      BY <1>4, <1>5
    <3>2. first.cells[1] = file[Len(written) + 1]
      BY <3>1, <1>8
    <3> QED BY <2>1, <3>2, <1>10 DEF first
  <2>2. CASE i # Len(written) + 1
    <3>1. i \in 1..Len(written)
      BY <1>2, <2>2
    <3> QED BY <3>1, <1>1, <1>2, <1>10
  <2> QED BY <2>1, <2>2
<1> QED BY <1>2, <1>3, <1>4, <1>5, <1>6, <1>7, <1>8, <1>9 DEF first

LEMMA QueuedTail ==
  ASSUME NEW written, NEW outputs, NEW file, NEW n, Queued(written, outputs, file, n), n > 0,
         NEW after, Longer(after, written, outputs[1].cells[1]),
         Len(outputs[1].cells) = 1
  PROVE  Queued(after, Tail(outputs), file, n - 1)
<1> DEFINE queue == Tail(outputs)
<1>1. /\ Len(after) <= Len(file) /\ Len(written) \in Nat
      /\ \A i \in DOMAIN after : after[i] = file[i]
      /\ 1 \in 1..n /\ n \in Nat /\ n <= Len(outputs) /\ Len(outputs) \in Nat
      /\ outputs[1].offset = Len(written)
  BY AfterIs
<1>2. Sequence(outputs) /\ Len(outputs) > 0
  BY <1>1 DEF Queued
<1>8. Sequence(after) /\ Len(after) = Len(written) + 1
  BY DEF Longer
<1>3. /\ Sequence(queue) /\ Len(queue) = Len(outputs) - 1
      /\ \A k \in 1..Len(outputs) - 1 : queue[k] = outputs[k + 1]
  BY <1>2, TailAny
<1> HIDE DEF queue
<1>4. n - 1 \in 0..Len(queue)
  BY <1>1, <1>3
<1>5. ASSUME NEW k \in 1..n - 1
      PROVE  /\ queue[k] = At(queue[k].offset, queue[k].cells)
             /\ queue[k].offset \in Nat
             /\ Sequence(queue[k].cells)
             /\ Len(queue[k].cells) > 0
             /\ queue[k].offset + Len(queue[k].cells) <= Len(file)
             /\ \A i \in DOMAIN queue[k].cells : queue[k].cells[i] = file[queue[k].offset + i]
             /\ queue[k].offset = IF k = 1 THEN Len(after)
                                  ELSE queue[k - 1].offset + Len(queue[k - 1].cells)
  <2>1. k + 1 \in 1..n /\ k + 1 # 1 /\ k + 1 - 1 = k /\ k \in 1..Len(outputs) - 1
    BY <1>1
  <2>2. queue[k] = outputs[k + 1]
    BY <2>1, <1>3
  <2> DEFINE q == outputs[k + 1]
  <2>3. /\ q = At(q.offset, q.cells)
        /\ q.offset \in Nat /\ Sequence(q.cells) /\ Len(q.cells) > 0
        /\ q.offset + Len(q.cells) <= Len(file)
        /\ \A i \in DOMAIN q.cells : q.cells[i] = file[q.offset + i]
        /\ q.offset = outputs[k].offset + Len(outputs[k].cells)
    BY <2>1 DEF Queued
  <2>4. CASE k = 1
    <3>1. q.offset = Len(after)
      BY <2>3, <2>4, <1>1, <1>8
    <3> HIDE DEF q
    <3> QED BY <2>2, <2>3, <2>4, <3>1 DEF q
  <2>5. CASE k # 1
    <3>1. queue[k - 1] = outputs[k]
      <4>1. k - 1 \in 1..Len(outputs) - 1 /\ k - 1 + 1 = k
        BY <2>1, <2>5
      <4> QED BY <4>1, <1>3
    <3> HIDE DEF q
    <3> QED BY <2>2, <2>3, <2>5, <3>1 DEF q
  <2> QED BY <2>4, <2>5
<1>6. Len(file) = IF n - 1 = 0 THEN Len(after)
                  ELSE queue[n - 1].offset + Len(queue[n - 1].cells)
  <2>1. Len(file) = outputs[n].offset + Len(outputs[n].cells)
    BY <1>1 DEF Queued
  <2>2. n - 1 # 0 => queue[n - 1] = outputs[n]
    <3>1. n - 1 # 0 => n - 1 \in 1..Len(outputs) - 1 /\ n - 1 + 1 = n
      BY <1>1
    <3> QED BY <3>1, <1>3
  <2>3. n - 1 = 0 => n = 1
    BY <1>1
  <2> QED BY <2>1, <2>2, <2>3, <1>1, <1>8
<1>7. Queued(after, queue, file, n - 1)
  BY <1>1, <1>3, <1>4, <1>5, <1>6, <1>8 DEF Queued
<1> QED BY <1>7 DEF queue

(* The cells behind the first.                                             *)
Remains(cells, all) ==
  /\ Sequence(cells) /\ Len(cells) = Len(all) - 1
  /\ \A i \in 1..Len(all) - 1 : cells[i] = all[i + 1]

LEMMA RemainsIs ==
  ASSUME NEW all, Sequence(all), Len(all) > 0
  PROVE  Remains(SubSeq(all, 2, Len(all)), all)
<1>1. Len(all) \in Nat
  BY SequenceShape
<1>2. PICK n \in Nat : n = Len(all)
  BY <1>1
<1>3. 2 \in Nat /\ 2 >= 1 /\ 2 <= n + 1 /\ n <= Len(all)
  BY <1>2
<1> DEFINE cells == SubSeq(all, 2, n)
<1>4. /\ Sequence(cells) /\ Len(cells) = n - 2 + 1
      /\ \A i \in 1..n - 2 + 1 : cells[i] = all[2 + i - 1]
  BY <1>3, SubSeqAny
<1> HIDE DEF cells
<1>5. n - 2 + 1 = n - 1
  OBVIOUS
<1>6. \A i \in 1..n - 1 : 2 + i - 1 = i + 1
  OBVIOUS
<1>7. Len(cells) = n - 1 /\ \A i \in 1..n - 1 : cells[i] = all[i + 1]
  BY <1>4, <1>5, <1>6
<1>8. Remains(cells, all)
  BY <1>2, <1>4, <1>7 DEF Remains
<1> QED BY <1>2, <1>8 DEF cells

(* The sink has taken the first cell of an output of several.              *)
Shortened(after, queue, written, outputs) ==
  /\ Longer(after, written, outputs[1].cells[1])
  /\ Len(outputs[1].cells) # 1
  /\ Sequence(queue) /\ Len(queue) = Len(outputs)
  /\ \A k \in 2..Len(outputs) : queue[k] = outputs[k]
  /\ queue[1] = At(queue[1].offset, queue[1].cells)
  /\ queue[1].offset = Len(written) + 1
  /\ Remains(queue[1].cells, outputs[1].cells)

LEMMA QueuedShorter ==
  ASSUME NEW written, NEW outputs, NEW file, NEW n, Queued(written, outputs, file, n), n > 0,
         NEW after, NEW queue, Shortened(after, queue, written, outputs)
  PROVE  Queued(after, queue, file, n)
<1>1. /\ Len(after) <= Len(file) /\ Len(written) \in Nat /\ Len(file) \in Nat
      /\ \A i \in DOMAIN after : after[i] = file[i]
      /\ 1 \in 1..n /\ n \in Nat /\ n <= Len(outputs) /\ Len(outputs) \in Nat
      /\ outputs[1].offset = Len(written) /\ Sequence(outputs[1].cells)
      /\ Len(outputs[1].cells) \in Nat /\ Len(outputs[1].cells) > 0
      /\ Len(written) + Len(outputs[1].cells) <= Len(file)
      /\ \A i \in 1..Len(outputs[1].cells) : outputs[1].cells[i] = file[Len(written) + i]
  <2>1. Longer(after, written, outputs[1].cells[1])
    BY DEF Shortened
  <2> QED BY <2>1, AfterIs
<1>2. PICK W \in Nat : W = Len(written)
  BY <1>1
<1>3. PICK L \in Nat : L = Len(outputs[1].cells)
  BY <1>1
<1>4. PICK F \in Nat : F = Len(file)
  BY <1>1
<1>5. PICK cells : cells = queue[1].cells
  OBVIOUS
<1>6. Remains(cells, outputs[1].cells)
  BY <1>5 DEF Shortened
<1>7. /\ Sequence(cells)
      /\ \A i \in 1..L - 1 : cells[i] = outputs[1].cells[i + 1]
  BY <1>3, <1>6 DEF Remains
<1>8. Len(cells) = L - 1
  BY <1>3, <1>6 DEF Remains
<1>9. L > 1 /\ W + L <= F
  <2>1. L # 1
    BY <1>3 DEF Shortened
  <2>2. L > 0 /\ W + L <= F
    BY <1>1, <1>2, <1>3, <1>4
  <2> QED BY <2>1, <2>2
<1>10. DOMAIN cells = 1..L - 1
  BY <1>7, <1>8, SequenceShape
<1>11. queue[1].offset = W + 1
  BY <1>2 DEF Shortened
<1>12. Len(after) = W + 1
  BY <1>2 DEF Shortened, Longer
<1>13. queue[1] = At(queue[1].offset, queue[1].cells)
  BY DEF Shortened
<1>14. \A i \in 1..L : outputs[1].cells[i] = file[W + i]
  BY <1>1, <1>2, <1>3
<1>15. \A k \in 1..n : k # 1 => queue[k] = outputs[k]
  <2>1. \A k \in 1..n : k # 1 => k \in 2..Len(outputs)
    BY <1>1
  <2> QED BY <2>1 DEF Shortened
<1>16. ASSUME NEW k \in 1..n
      PROVE  /\ queue[k] = At(queue[k].offset, queue[k].cells)
             /\ queue[k].offset \in Nat
             /\ Sequence(queue[k].cells)
             /\ Len(queue[k].cells) > 0
             /\ queue[k].offset + Len(queue[k].cells) <= Len(file)
             /\ \A i \in DOMAIN queue[k].cells : queue[k].cells[i] = file[queue[k].offset + i]
             /\ queue[k].offset = IF k = 1 THEN Len(after)
                                  ELSE queue[k - 1].offset + Len(queue[k - 1].cells)
  <2>1. CASE k = 1
    <3>1. queue[k] = At(queue[k].offset, queue[k].cells)
      BY <1>13, <2>1
    <3>2. queue[k].offset = W + 1 /\ queue[k].offset \in Nat
      BY <1>11, <2>1
    <3>3. Sequence(queue[k].cells)
      BY <1>5, <1>7, <2>1
    <3>4. Len(queue[k].cells) = L - 1
      BY <1>5, <1>8, <2>1
    <3>5. Len(queue[k].cells) > 0
      BY <3>4, <1>9
    <3>6. queue[k].offset + Len(queue[k].cells) <= Len(file)
      <4>1. W + 1 + (L - 1) <= F
        BY <1>9
      <4> QED BY <4>1, <3>2, <3>4, <1>4
    <3>7. ASSUME NEW i \in DOMAIN queue[k].cells
          PROVE  queue[k].cells[i] = file[queue[k].offset + i]
      <4>1. i \in 1..L - 1
        BY <3>7, <1>5, <1>10, <2>1
      <4>2. i + 1 \in 1..L /\ W + (i + 1) = W + 1 + i
        BY <4>1
      <4>3. cells[i] = outputs[1].cells[i + 1]
        BY <4>1, <1>7
      <4>4. outputs[1].cells[i + 1] = file[W + (i + 1)]
        BY <4>2, <1>14
      <4>5. queue[k].cells[i] = cells[i]
        BY <1>5, <2>1
      <4> QED BY <4>2, <4>3, <4>4, <4>5, <3>2
    <3>8. queue[k].offset = Len(after)
      BY <3>2, <1>12
    <3> QED BY <2>1, <3>1, <3>2, <3>3, <3>5, <3>6, <3>7, <3>8
  <2>2. CASE k # 1
    <3> DEFINE q == outputs[k]
    <3>1. /\ q = At(q.offset, q.cells)
          /\ q.offset \in Nat /\ Sequence(q.cells) /\ Len(q.cells) > 0
          /\ q.offset + Len(q.cells) <= Len(file)
          /\ \A i \in DOMAIN q.cells : q.cells[i] = file[q.offset + i]
      BY DEF Queued
    <3>2. q.offset = outputs[k - 1].offset + Len(outputs[k - 1].cells)
      BY <2>2 DEF Queued
    <3>3. queue[k] = q
      BY <1>15, <2>2
    <3> HIDE DEF q
    <3>4. q.offset = queue[k - 1].offset + Len(queue[k - 1].cells)
      <4>1. CASE k = 2
        <5>1. k - 1 = 1
          BY <4>1
        <5>2. q.offset = W + L
          BY <3>2, <5>1, <1>1, <1>2, <1>3
        <5>3. queue[k - 1].offset = W + 1
          BY <5>1, <1>11
        <5>4. Len(queue[k - 1].cells) = L - 1
          BY <5>1, <1>5, <1>8
        <5>5. W + L = W + 1 + (L - 1)
          OBVIOUS
        <5> QED BY <5>2, <5>3, <5>4, <5>5
      <4>2. CASE k # 2
        <5>1. k - 1 \in 1..n /\ k - 1 # 1
          BY <2>2, <4>2, <1>1
        <5>2. queue[k - 1] = outputs[k - 1]
          BY <5>1, <1>15
        <5> QED BY <3>2, <5>2
      <4> QED BY <4>1, <4>2
    <3> QED BY <2>2, <3>1, <3>3, <3>4
  <2> QED BY <2>1, <2>2
<1>17. Len(file) = queue[n].offset + Len(queue[n].cells)
  <2>1. Len(file) = outputs[n].offset + Len(outputs[n].cells)
    BY <1>1 DEF Queued
  <2>2. CASE n = 1
    <3>1. F = W + L
      BY <2>1, <2>2, <1>1, <1>2, <1>3, <1>4
    <3>2. queue[n].offset = W + 1
      BY <2>2, <1>11
    <3>3. Len(queue[n].cells) = L - 1
      BY <2>2, <1>5, <1>8
    <3>4. W + L = W + 1 + (L - 1)
      OBVIOUS
    <3> QED BY <3>1, <3>2, <3>3, <3>4, <1>4
  <2>3. CASE n # 1
    <3>1. n \in 1..n
      BY <1>1
    <3> QED BY <3>1, <2>1, <2>3, <1>15
  <2> QED BY <2>2, <2>3
<1>18. n # 0 /\ n \in 0..Len(queue)
  <2>1. n # 0 /\ n \in 0..Len(outputs)
    BY <1>1
  <2>2. Len(queue) = Len(outputs)
    BY DEF Shortened
  <2> QED BY <2>1, <2>2
<1>19. Sequence(after) /\ Sequence(queue)
  BY DEF Shortened, Longer
<1> QED BY <1>1, <1>16, <1>17, <1>18, <1>19 DEF Queued
(* The outputs left as the sink writes behind what is on disk.             *)
Left(queue, m, outputs, n) ==
  /\ (m = Len(queue) <=> n = Len(outputs))
  /\ n = Len(outputs) - 1 => m = Len(queue) - 1 /\ queue # <<>>
  /\ n # Len(outputs) => queue[m + 1] = outputs[n + 1]

LEMMA LeftKeeps ==
  ASSUME NEW file, NEW starts, NEW place, NEW n, Inv(file, starts, place, n), output # <<>>, n > 0,
         NEW m, NEW queue, output' = queue, Left(queue, m, output, n),
         Queued(disk', queue, file, m), UNCHANGED muxer
  PROVE  Inv(file, starts, place, m)'
<1>1. ~(Recoverable /\ tables.state = "laid out" /\ n = Len(output))
  BY DEF Inv, Overlay
<1>2. n # Len(output) => n = Len(output) - 1
  BY DEF Inv, Overlay
<1>3. ~LaidOut /\ (Recoverable /\ tables.state = "laid out" => queue # <<>>)
  BY <1>1, <1>2 DEF LaidOut, Left
<1>4. /\ UNCHANGED <<structure, movie, nextOffset, reserved, placeholder, finished, tables, accepted>>
  BY DEF muxer
<1>5. ~LaidOut'
  BY <1>3, <1>4 DEF LaidOut, Recoverable
<1>6. Queued(disk, output, file, m)'
  OBVIOUS
<1>7. Contents(file, starts, place)'
  BY <1>3, <1>4, <1>5 DEF Inv, Contents, Fragments
<1>8. Spaces(file, starts)'
  BY <1>3, <1>4, <1>5 DEF Inv, Spaces, Recoverable, SegmentIndexBytes
<1>9. Tabled(place)' /\ Stage(file, starts)' /\ Holding(file, place, accepted)'
  BY <1>4 DEF Inv, Tabled, Stage, Fragments, Recoverable
<1>10. Overlay(file, starts, place, m)'
  <2>1. (Recoverable /\ tables.state = "laid out" /\ m = Len(queue))' => FALSE
    BY <1>1, <1>4 DEF Left, Recoverable
  <2>2. ASSUME m # Len(queue)
        PROVE  /\ finished' /\ Fragments'
               /\ m = Len(queue) - 1
               /\ queue[m + 1] = At(queue[m + 1].offset, queue[m + 1].cells)
               /\ IF Recoverable' THEN Header(file, starts, place, queue[m + 1])'
                                  ELSE Index(file, starts, queue[m + 1])'
    <3>1. n # Len(output) /\ m = Len(queue) - 1 /\ queue[m + 1] = output[n + 1]
      BY <2>2, <1>2 DEF Left
    <3>2. PICK over : over = output[n + 1]
      OBVIOUS
    <3>3. /\ finished /\ Fragments /\ over = At(over.offset, over.cells)
          /\ IF Recoverable THEN Header(file, starts, place, over) ELSE Index(file, starts, over)
      BY <3>1, <3>2 DEF Inv, Overlay
    <3>4. IF Recoverable' THEN Header(file, starts, place, over)' ELSE Index(file, starts, over)'
      BY <3>3, <1>4 DEF Header, Index, Recoverable
    <3>5. Fragments'
      BY <3>3, <1>4 DEF Fragments
    <3> QED BY <3>1, <3>2, <3>3, <3>4, <3>5, <1>4
  <2> QED BY <2>1, <2>2 DEF Overlay
<1>11. Boxed(file, starts)
  BY DEF Inv
<1> QED BY <1>6, <1>7, <1>8, <1>9, <1>10, <1>11 DEF Inv

(* A byte written behind what is on disk.                                  *)
LEMMA WriteBehindKeeps ==
  ASSUME NEW file, NEW starts, NEW place, NEW n, Inv(file, starts, place, n), n > 0, Write
  PROVE  /\ \E m : Inv(file, starts, place, m)'
         /\ \A i \in 1..Len(disk) : disk'[i] = disk[i]
         /\ Len(disk') = Len(disk) + 1
<1>1. Queued(disk, output, file, n)
  BY DEF Inv
<1>2. Sequence(output) /\ Sequence(disk) /\ n \in 0..Len(output)
  BY <1>1 DEF Queued
<1>3. Len(output) \in Nat /\ Len(disk) \in Nat
  BY <1>2, SequenceShape
<1>4. PICK N \in Nat : N = Len(output)
  BY <1>3
<1>5. n \in 1..N /\ n \in Nat /\ N > 0
  BY <1>2, <1>4
<1>6. /\ output[1].offset = Len(disk) /\ Sequence(output[1].cells)
      /\ Len(output[1].cells) > 0
  <2>1. 1 \in 1..n
    BY <1>5
  <2> QED BY <2>1, <1>1 DEF Queued
<1>7. output # <<>> /\ UNCHANGED muxer
  BY DEF Write
<1>8. PICK cells, offset : cells = output[1].cells /\ offset = output[1].offset
  OBVIOUS
<1>9. PICK L \in Nat : L = Len(cells)
  BY <1>6, <1>8, SequenceShape
<1>10. L > 0
  BY <1>6, <1>8, <1>9
<1>11. Head(output) = output[1]
  OBVIOUS
<1>12. ~(offset < Len(disk))
  BY <1>3, <1>6, <1>8
<1>13. disk' = Overlaid(SubSeq(cells, 1, 1), Len(disk))
  BY <1>6, <1>8, <1>11, <1>12 DEF Write
<1>14. Longer(disk', disk, output[1].cells[1])
  BY <1>2, <1>6, <1>8, <1>13, WriteBehind DEF Longer
<1>15. PICK tail : tail = Tail(output)
  OBVIOUS
<1>16. Sequence(tail) /\ Len(tail) = N - 1 /\ \A k \in 1..N - 1 : tail[k] = output[k + 1]
  BY <1>2, <1>4, <1>5, <1>15, TailAny
<1>17. ASSUME L = 1 PROVE \E m : Inv(file, starts, place, m)'
  <2>1. output' = tail
    BY <1>6, <1>8, <1>9, <1>11, <1>12, <1>15, <1>17 DEF Write
  <2>2. Queued(disk', tail, file, n - 1)
    BY <1>1, <1>5, <1>8, <1>9, <1>14, <1>15, <1>17, QueuedTail
  <2>3. Left(tail, n - 1, output, n)
    <3>1. n - 1 = Len(tail) <=> n = N
      BY <1>5, <1>16
    <3>2. n = N - 1 => n - 1 = Len(tail) - 1
      BY <1>5, <1>16
    <3>3. n = N - 1 => tail # <<>>
      <4>1. n = N - 1 => N - 1 > 0
        BY <1>5
      <4>2. tail = <<>> => Len(tail) = 0
        OBVIOUS
      <4> QED BY <4>1, <4>2, <1>16
    <3>4. n # N => tail[n - 1 + 1] = output[n + 1]
      <4>1. n # N => n \in 1..N - 1
        BY <1>5
      <4>2. n - 1 + 1 = n
        BY <1>5
      <4> QED BY <4>1, <4>2, <1>16
    <3> QED BY <3>1, <3>2, <3>3, <3>4, <1>4 DEF Left
  <2> QED BY <2>1, <2>2, <2>3, <1>5, <1>7, LeftKeeps
<1>18. ASSUME L # 1 PROVE \E m : Inv(file, starts, place, m)'
  <2> DEFINE next == At(offset + 1, SubSeq(cells, 2, L))
  <2>1. PICK queue : queue = <<next>> \o tail
    OBVIOUS
  <2>2. output' = queue
    <3>1. PICK first : first = Head(output)
      OBVIOUS
    <3>2. ~(first.offset < Len(disk)) /\ 1 # Len(first.cells)
      BY <3>1, <1>8, <1>9, <1>11, <1>12, <1>18
    <3>3. output' = <<At(first.offset + 1, SubSeq(first.cells, 1 + 1, Len(first.cells)))>>
                      \o Tail(output)
      BY <3>1, <3>2 DEF Write
    <3>4. 1 + 1 = 2 /\ first.offset = offset /\ first.cells = cells /\ Len(first.cells) = L
      BY <3>1, <1>8, <1>9, <1>11
    <3> QED BY <3>3, <3>4, <2>1, <1>15
  <2>3. next = At(next.offset, next.cells) /\ next.offset = offset + 1
        /\ next.cells = SubSeq(cells, 2, L)
    BY DEF At
  <2>4. Remains(next.cells, cells)
    BY <2>3, <1>6, <1>8, <1>9, RemainsIs
  <2> HIDE DEF next
  <2>5. Sequence(<<next>>) /\ Len(<<next>>) = 1 /\ <<next>>[1] = next
    BY OneElement
  <2>6. PICK one : one = <<next>>
    OBVIOUS
  <2>7. /\ Sequence(queue) /\ Len(queue) = 1 + (N - 1)
        /\ queue[1] = next
        /\ \A k \in 1..N - 1 : queue[1 + k] = tail[k]
    <3>1. /\ Sequence(one \o tail) /\ Len(one \o tail) = Len(one) + Len(tail)
          /\ \A k \in 1..Len(one) : (one \o tail)[k] = one[k]
          /\ \A k \in 1..Len(tail) : (one \o tail)[Len(one) + k] = tail[k]
      BY <2>5, <2>6, <1>16, ConcatAny
    <3>2. Len(one) = 1 /\ one[1] = next
      BY <2>5, <2>6
    <3>3. queue = one \o tail
      BY <2>1, <2>6
    <3>4. 1 \in 1..1
      OBVIOUS
    <3> QED BY <3>1, <3>2, <3>3, <3>4, <1>16
  <2>8. Len(queue) = N
    BY <2>7
  <2>9. ASSUME NEW k \in 2..N PROVE queue[k] = output[k]
    <3>1. k - 1 \in 1..N - 1 /\ 1 + (k - 1) = k /\ k - 1 + 1 = k
      OBVIOUS
    <3> QED BY <3>1, <2>7, <1>16
  <2>10. Shortened(disk', queue, disk, output)
    BY <2>3, <2>4, <2>7, <2>8, <2>9, <1>4, <1>6, <1>8, <1>9, <1>14, <1>18 DEF Shortened
  <2>11. Queued(disk', queue, file, n)
    BY <2>10, <1>1, QueuedShorter
  <2>12. Left(queue, n, output, n)
    <3>1. queue # <<>>
      <4>1. queue = <<>> => Len(queue) = 0
        OBVIOUS
      <4> QED BY <4>1, <2>8, <1>5
    <3>2. n # N => n + 1 \in 2..N
      BY <1>5
    <3> QED BY <3>1, <3>2, <2>8, <2>9, <1>4 DEF Left
  <2> QED BY <2>2, <2>11, <2>12, <1>5, <1>7, LeftKeeps
<1> QED BY <1>14, <1>17, <1>18 DEF Longer
-------------------------------------------------------------------------------
(* WHAT IS WRITTEN OVER A FREE BOX                                         *)

(* The cells of `file` from p on are `cells`, and all others as they were. *)
Overwritten(over, file, p, cells) ==
  /\ Sequence(over) /\ Len(over) = Len(file)
  /\ \A i \in 1..Len(cells) : over[p + i] = cells[i]
  /\ \A i \in 1..Len(file) : ~(p < i /\ i <= p + Len(cells)) => over[i] = file[i]

(* The bytes of samples do not lie in a free box.                          *)
LEMMA HoldingOver ==
  ASSUME NEW file, NEW starts, Boxed(file, starts), NEW place, NEW m, Holding(file, place, m),
         NEW p, NEW cells, FreeAt(file, starts, p, Len(cells)), Len(cells) \in Nat,
         NEW over, Overwritten(over, file, p, cells)
  PROVE  Holding(over, place, m)
<1>1. p \in Nat /\ IsBox(file[p + 1]) /\ Len(file) \in Nat
  BY SequenceShape DEF Boxed, FreeAt
<1>2. PICK L \in Nat : L = Len(cells)
  OBVIOUS
<1>3. \A i \in 2..L : file[p + i] = Rest
  BY <1>2 DEF FreeAt
<1>4. /\ Len(over) = Len(file)
      /\ \A i \in 1..Len(file) : ~(p < i /\ i <= p + L) => over[i] = file[i]
  BY <1>2 DEF Overwritten
<1>5. ASSUME NEW s \in 1..m, NEW k \in 1..place[s].length
      PROVE  over[place[s].start + k] = [sample |-> s, byte |-> k]
  <2>1. /\ place[s].start \in Nat /\ place[s].length \in Nat
        /\ EndOf(place[s]) <= Len(file)
        /\ file[place[s].start + k] = [sample |-> s, byte |-> k]
    BY DEF Holding
  <2>2. PICK i \in Nat : i = place[s].start + k
    BY <2>1
  <2>3. i \in 1..Len(file)
    <3>1. place[s].start + place[s].length <= Len(file)
      BY <2>1 DEF EndOf
    <3>2. i = place[s].start + k /\ place[s].start \in Nat /\ place[s].length \in Nat
      BY <2>1, <2>2
    <3>3. k \in Nat /\ 1 <= k /\ k <= place[s].length /\ Len(file) \in Nat /\ i \in Nat
      BY <3>2, <1>1
    <3> QED BY ONLY <3>1, <3>2, <3>3
  <2>4. file[i] = [sample |-> s, byte |-> k]
    BY <2>1, <2>2
  <2>5. ~IsBox(file[i]) /\ file[i] # Rest
    BY <2>4, CellsDiffer
  <2>6. ~(p < i /\ i <= p + L)
    <3>1. i # p + 1
      BY <2>5, <1>1
    <3>2. p < i /\ i <= p + L /\ i # p + 1 => i - p \in 2..L /\ p + (i - p) = i
      BY <1>1
    <3> QED BY <3>1, <3>2, <2>5, <1>3
  <2> QED BY <2>2, <2>3, <2>4, <2>6, <1>4
<1>6. /\ m \in Nat
      /\ \A s \in 1..m :
           /\ place[s].start \in Nat /\ place[s].length \in Nat
           /\ EndOf(place[s]) <= Len(over)
           /\ \A t \in 1..m : s < t => EndOf(place[s]) <= place[t].start
  BY <1>4 DEF Holding
<1> QED BY <1>5, <1>6 DEF Holding

(* The boxes that lie from p to o now, the free box at p among what was    *)
(* there.                                                                  *)
NewBoxes(over, news, p, o) ==
  /\ p \in news
  /\ \A q \in news : /\ q \in Nat /\ p <= q /\ q < o
                     /\ IsBox(over[q + 1])
                     /\ EndIn(over, q) <= o
                     /\ EndIn(over, q) = o \/ EndIn(over, q) \in news
                     /\ \A r \in news : q < r => EndIn(over, q) <= r

Relaid(over, more, file, starts, news, p, o) ==
  /\ Len(over) = Len(file)
  /\ news \subseteq more
  /\ \A q \in starts : q < p \/ q >= o =>
       /\ q \in more
       /\ TypeIn(over, q) = TypeIn(file, q) /\ HoldsIn(over, q) = HoldsIn(file, q)
       /\ TotalIn(over, q) = TotalIn(file, q) /\ EndIn(over, q) = EndIn(file, q)
  /\ \A q \in more : q \in news \/ (q \in starts /\ (q < p \/ q >= o))

LEMMA RelaidIs ==
  ASSUME NEW file, NEW starts, Boxed(file, starts),
         NEW p, NEW cells, FreeAt(file, starts, p, Len(cells)),
         Sequence(cells),
         \A i \in 1..Len(cells) : cells[i] # Hole /\ (IsBox(cells[i]) => cells[i].total \in Nat \ {0}),
         NEW over, Overwritten(over, file, p, cells),
         NEW o \in Nat, p + Len(cells) <= o, o \in starts \/ o = Len(file),
         NEW news, NewBoxes(over, news, p, o)
  PROVE  \E more : Boxed(over, more) /\ Relaid(over, more, file, starts, news, p, o)
<1> DEFINE before == {q \in starts : q < p}
           behind == {q \in starts : q >= o}
           more == before \cup news \cup behind
<1>1. p \in Nat /\ p \in starts /\ Len(file) \in Nat /\ Len(cells) \in Nat
  BY SequenceShape DEF Boxed, FreeAt
<1>2. PICK L \in Nat : L = Len(cells)
  BY <1>1
<1>3. PICK F \in Nat : F = Len(file)
  BY <1>1
<1>4. p + L <= o
  BY <1>2
<1>5. o <= F
  BY <1>3 DEF Boxed
<1>6. \A q \in starts : /\ q \in Nat /\ q < F /\ IsBox(file[q + 1])
                        /\ EndIn(file, q) <= F
                        /\ EndIn(file, q) = F \/ EndIn(file, q) \in starts
                        /\ \A r \in starts : q < r => EndIn(file, q) <= r
  BY <1>3 DEF Boxed
<1>7. /\ Sequence(over) /\ Len(over) = F
      /\ \A i \in 1..L : over[p + i] = cells[i]
      /\ \A i \in 1..F : ~(p < i /\ i <= p + L) => over[i] = file[i]
  BY <1>2, <1>3 DEF Overwritten
<1>8. ASSUME NEW q \in starts, q < p \/ q >= o
      PROVE  over[q + 1] = file[q + 1]
  <2>1. q \in Nat /\ q < F
    BY <1>6
  <2>2. q + 1 \in 1..F /\ ~(p < q + 1 /\ q + 1 <= p + L)
    BY <2>1, <1>4, <1>8, <1>1
  <2> QED BY <2>2, <1>7
<1>9. \A q \in starts : q < p \/ q >= o =>
        /\ TypeIn(over, q) = TypeIn(file, q) /\ HoldsIn(over, q) = HoldsIn(file, q)
        /\ TotalIn(over, q) = TotalIn(file, q) /\ EndIn(over, q) = EndIn(file, q)
  BY <1>8 DEF TypeIn, HoldsIn, TotalIn, EndIn
<1>10. ASSUME NEW i \in DOMAIN over
       PROVE  over[i] # Hole /\ (IsBox(over[i]) => over[i].total \in Nat \ {0})
  <2>1. i \in 1..F
    BY <1>7, SequenceShape
  <2>2. CASE p < i /\ i <= p + L
    <3>1. i - p \in 1..L /\ p + (i - p) = i
      BY <2>1, <2>2, <1>1
    <3>2. over[i] = cells[i - p]
      BY <3>1, <1>7
    <3> QED BY <3>1, <3>2, <1>2
  <2>3. CASE ~(p < i /\ i <= p + L)
    <3>1. over[i] = file[i] /\ i \in DOMAIN file
      BY <2>1, <2>3, <1>3, <1>7, SequenceShape DEF Boxed
    <3> QED BY <3>1 DEF Boxed
  <2> QED BY <2>2, <2>3
<1>11. \A q \in news : /\ q \in Nat /\ p <= q /\ q < o
                       /\ IsBox(over[q + 1])
                       /\ EndIn(over, q) <= o
                       /\ EndIn(over, q) = o \/ EndIn(over, q) \in news
                       /\ \A r \in news : q < r => EndIn(over, q) <= r
  BY DEF NewBoxes
<1>12. p \in news
  BY DEF NewBoxes
<1>13. o = F \/ o \in behind
  BY <1>3
<1>14. \A q \in more : EndIn(over, q) \in Nat
  <2>1. \A q \in more : q \in Nat /\ q + 1 \in 1..F /\ IsBox(over[q + 1])
    BY <1>5, <1>6, <1>8, <1>11
  <2>2. DOMAIN over = 1..F
    BY <1>7, SequenceShape
  <2> QED BY <2>1, <2>2, <1>10 DEF EndIn
<1>15. ASSUME NEW q \in before
       PROVE  /\ q < F /\ IsBox(over[q + 1])
              /\ EndIn(over, q) <= F
              /\ EndIn(over, q) = F \/ EndIn(over, q) \in more
              /\ \A r \in more : q < r => EndIn(over, q) <= r
  <2>1. EndIn(over, q) = EndIn(file, q) /\ EndIn(file, q) <= p /\ over[q + 1] = file[q + 1]
    BY <1>1, <1>6, <1>8, <1>9
  <2>2. EndIn(file, q) = F \/ EndIn(file, q) \in before \/ EndIn(file, q) = p
    <3>1. EndIn(file, q) \in Nat
      BY <2>1, <1>14
    <3>2. EndIn(file, q) = F \/ EndIn(file, q) \in starts
      BY <1>6
    <3>3. EndIn(file, q) < p \/ EndIn(file, q) = p
      BY <3>1, <2>1, <1>1
    <3> QED BY <3>2, <3>3
  <2>3. \A r \in before : q < r => EndIn(file, q) <= r
    BY <1>6
  <2>4. \A r \in news \cup behind : EndIn(file, q) <= r
    <3>0. p <= o
      BY <1>1, <1>2, <1>4
    <3>1. \A r \in news \cup behind : r \in Nat /\ p <= r
      <4>1. \A r \in news : r \in Nat /\ p <= r
        BY <1>11
      <4>2. \A r \in behind : r \in Nat /\ o <= r
        BY <1>6
      <4>3. ASSUME NEW r \in behind PROVE p <= r
        <5>1. r \in Nat /\ o <= r
          BY <4>2
        <5> QED BY <5>1, <3>0, <1>1
      <4> HIDE DEF behind
      <4> QED BY <4>1, <4>2, <4>3
    <3>2. EndIn(file, q) \in Nat
      BY <2>1, <1>14
    <3> QED BY <3>1, <3>2, <2>1, <1>1
  <2> QED BY <2>1, <2>2, <2>3, <2>4, <1>6, <1>12
<1>16. ASSUME NEW q \in news
       PROVE  /\ q < F /\ IsBox(over[q + 1])
              /\ EndIn(over, q) <= F
              /\ EndIn(over, q) = F \/ EndIn(over, q) \in more
              /\ \A r \in more : q < r => EndIn(over, q) <= r
  <2>1. EndIn(over, q) \in Nat /\ q \in Nat /\ p <= q
    BY <1>11, <1>14
  <2>2. EndIn(over, q) <= F /\ q < F
    BY <2>1, <1>5, <1>11
  <2>3. EndIn(over, q) = F \/ EndIn(over, q) \in more
    BY <1>11, <1>13
  <2>4. \A r \in before : ~(q < r)
    BY <2>1, <1>1, <1>6
  <2>5. \A r \in behind : EndIn(over, q) <= r
    <3>1. \A r \in behind : r \in Nat /\ o <= r
      BY <1>6
    <3>2. EndIn(over, q) <= o
      BY <1>11
    <3> QED BY <3>1, <3>2, <2>1
  <2> QED BY <2>2, <2>3, <2>4, <2>5, <1>11
<1>17. ASSUME NEW q \in behind
       PROVE  /\ q < F /\ IsBox(over[q + 1])
              /\ EndIn(over, q) <= F
              /\ EndIn(over, q) = F \/ EndIn(over, q) \in more
              /\ \A r \in more : q < r => EndIn(over, q) <= r
  <2>1. /\ EndIn(over, q) = EndIn(file, q) /\ over[q + 1] = file[q + 1] /\ q \in Nat /\ q >= o
        /\ EndIn(over, q) \in Nat
    BY <1>6, <1>8, <1>9, <1>14
  <2>2. q < EndIn(over, q)
    <3>1. TotalIn(over, q) \in Nat \ {0}
      <4>1. q + 1 \in DOMAIN over /\ IsBox(over[q + 1])
        BY <2>1, <1>6, <1>7, SequenceShape
      <4> QED BY <4>1, <1>10 DEF TotalIn
    <3> QED BY <3>1, <2>1 DEF TotalIn, EndIn
  <2>3. EndIn(file, q) = F \/ EndIn(file, q) \in behind
    <3>1. EndIn(file, q) = F \/ EndIn(file, q) \in starts
      BY <1>6
    <3> QED BY <3>1, <2>1, <2>2
  <2>4. \A r \in before \cup news : ~(q < r)
    <3>1. \A r \in before \cup news : r \in Nat /\ r < o
      BY <1>1, <1>4, <1>6, <1>11
    <3> QED BY <3>1, <2>1
  <2> QED BY <2>1, <2>3, <2>4, <1>6
<1>18. more \subseteq Nat /\ (Len(over) > 0 => 0 \in more)
  <2>1. more \subseteq Nat
    BY <1>6, <1>11
  <2>2. Len(over) > 0 => 0 \in starts
    BY <1>3, <1>7 DEF Boxed
  <2>3. 0 \in starts => 0 \in before \/ 0 = p
    BY <1>1
  <2> QED BY <2>1, <2>2, <2>3, <1>12
<1>19. \A q \in more : /\ q < Len(over) /\ IsBox(over[q + 1])
                       /\ EndIn(over, q) <= Len(over)
                       /\ EndIn(over, q) = Len(over) \/ EndIn(over, q) \in more
                       /\ \A r \in more : q < r => EndIn(over, q) <= r
  BY <1>7, <1>15, <1>16, <1>17
<1>20. news \subseteq more /\ \A q \in starts : q < p \/ q >= o => q \in more
  OBVIOUS
<1>21. \A q \in more : q \in news \/ (q \in starts /\ (q < p \/ q >= o))
  OBVIOUS
<1> HIDE DEF more
<1>22. Boxed(over, more)
  BY <1>7, <1>10, <1>18, <1>19 DEF Boxed
<1>23. Relaid(over, more, file, starts, news, p, o)
  BY <1>3, <1>7, <1>9, <1>20, <1>21 DEF Relaid
<1> QED BY <1>22, <1>23

(* What takes the place of two headers: an mdat up to `o`, or a free box   *)
(* and then the mdat.                                                      *)
Heads(over, news, p, o) ==
  /\ NewBoxes(over, news, p, o)
  /\ \A q \in news : TypeIn(over, q) \in {"free", "mdat"}
  /\ \E q \in news : TypeIn(over, q) = "mdat"

LEMMA CompactHeader ==
  ASSUME NEW payload \in Nat, HeaderLength(payload) = HeaderBytes
  PROVE  /\ Sequence(MediaDataHeader(payload)) /\ Len(MediaDataHeader(payload)) = 2 * HeaderBytes
         /\ MediaDataHeader(payload)[1] = [box |-> "free", total |-> HeaderBytes, holds |-> {}]
         /\ MediaDataHeader(payload)[HeaderBytes + 1]
              = [box |-> "mdat", total |-> HeaderBytes + payload, holds |-> {}]
         /\ \A i \in 1..2 * HeaderBytes : i # 1 /\ i # HeaderBytes + 1 =>
              MediaDataHeader(payload)[i] = Rest
<1> DEFINE H == HeaderBytes
           free == Free(H)
           head == [box |-> "mdat", total |-> H + payload, holds |-> {}]
           one == <<head>>
           rests == Rests(H - 1)
           start == free \o one
           cells == start \o rests
<1>1. H \in Nat /\ H > 0 /\ H - 1 \in Nat
  BY HeaderBytesType
<1>2. MediaDataHeader(payload) = cells
  BY DEF MediaDataHeader
<1>3. /\ Sequence(free) /\ Len(free) = H
      /\ free[1].box = "free" /\ free[1].total = H /\ free[1].holds = {}
      /\ \A i \in 2..H : free[i] = Rest
  <2> HIDE DEF H
  <2> QED BY <1>1, BoxIs DEF Free, OneBox
<1>4. free[1] = [box |-> "free", total |-> H, holds |-> {}]
  <2>1. /\ Sequence(<<[box |-> "free", total |-> H, holds |-> {}]>>)
        /\ Len(<<[box |-> "free", total |-> H, holds |-> {}]>>) = 1
        /\ <<[box |-> "free", total |-> H, holds |-> {}]>>[1]
             = [box |-> "free", total |-> H, holds |-> {}]
    BY OneElement
  <2>2. PICK first : first = <<[box |-> "free", total |-> H, holds |-> {}]>>
    OBVIOUS
  <2>3. Sequence(rests)
    BY <1>1, RestsAre
  <2>4. free = first \o rests
    BY <2>2 DEF Free, Box
  <2> HIDE DEF free, rests, H
  <2>5. \A i \in 1..Len(first) : (first \o rests)[i] = first[i]
    BY <2>1, <2>2, <2>3, ConcatAny
  <2>6. 1 \in 1..Len(first)
    BY <2>1, <2>2
  <2> QED BY <2>1, <2>2, <2>4, <2>5, <2>6
<1>5. Sequence(one) /\ Len(one) = 1 /\ one[1] = head
  BY OneElement
<1>6. Sequence(rests) /\ Len(rests) = H - 1 /\ \A i \in 1..H - 1 : rests[i] = Rest
  BY <1>1, RestsAre
<1> HIDE DEF free, rests, H, one, head
<1>17. Sequence(free) /\ Sequence(one)
  BY <1>3, <1>5
<1>7. /\ Sequence(start) /\ Len(start) = Len(free) + Len(one)
      /\ \A i \in 1..Len(free) : start[i] = free[i]
      /\ \A i \in 1..Len(one) : start[Len(free) + i] = one[i]
  BY <1>17, ConcatAny
<1>8. /\ Len(start) = H + 1
      /\ \A i \in 1..H : start[i] = free[i]
      /\ start[H + 1] = head
  <2>1. 1 \in 1..1
    OBVIOUS
  <2> HIDE DEF start
  <2> QED BY <2>1, <1>3, <1>5, <1>7
<1> HIDE DEF start
<1>9. /\ Sequence(cells) /\ Len(cells) = Len(start) + Len(rests)
      /\ \A i \in 1..Len(start) : cells[i] = start[i]
      /\ \A i \in 1..Len(rests) : cells[Len(start) + i] = rests[i]
  BY <1>6, <1>7, ConcatAny
<1> HIDE DEF cells
<1>10. /\ Len(cells) = H + 1 + (H - 1)
       /\ \A i \in 1..H + 1 : cells[i] = start[i]
       /\ \A i \in 1..H - 1 : cells[H + 1 + i] = rests[i]
  BY <1>6, <1>8, <1>9
<1>11. H + 1 + (H - 1) = 2 * H
  BY <1>1
<1>12. cells[1] = [box |-> "free", total |-> H, holds |-> {}]
  <2>1. 1 \in 1..H + 1 /\ 1 \in 1..H
    BY <1>1
  <2> QED BY <2>1, <1>4, <1>8, <1>10
<1>13. cells[H + 1] = head
  <2>1. H + 1 \in 1..H + 1
    BY <1>1
  <2> QED BY <2>1, <1>8, <1>10
<1>14. ASSUME NEW i \in 1..2 * H, i # 1, i # H + 1 PROVE cells[i] = Rest
  <2>1. CASE i <= H
    <3>1. i \in 2..H /\ i \in 1..H /\ i \in 1..H + 1
      BY <1>1, <1>14, <2>1
    <3> QED BY <3>1, <1>3, <1>8, <1>10
  <2>2. CASE ~(i <= H)
    <3>1. i - (H + 1) \in 1..H - 1 /\ H + 1 + (i - (H + 1)) = i
      BY <1>1, <1>14, <2>2
    <3> QED BY <3>1, <1>6, <1>10
  <2> QED BY <2>1, <2>2
<1> QED BY <1>2, <1>9, <1>10, <1>11, <1>12, <1>13, <1>14 DEF H, head

LEMMA LargeHeader ==
  ASSUME NEW payload \in Nat, HeaderLength(payload) # HeaderBytes
  PROVE  /\ Sequence(MediaDataHeader(payload)) /\ Len(MediaDataHeader(payload)) = 2 * HeaderBytes
         /\ MediaDataHeader(payload)[1]
              = [box |-> "mdat", total |-> 2 * HeaderBytes + payload, holds |-> {}]
         /\ \A i \in 1..2 * HeaderBytes : i # 1 => MediaDataHeader(payload)[i] = Rest
<1> DEFINE H == HeaderBytes
           head == [box |-> "mdat", total |-> 2 * H + payload, holds |-> {}]
           one == <<head>>
           rests == Rests(2 * H - 1)
           cells == one \o rests
<1>1. H \in Nat /\ H > 0 /\ 2 * H - 1 \in Nat
  BY HeaderBytesType
<1>2. MediaDataHeader(payload) = cells
  BY DEF MediaDataHeader
<1>3. Sequence(one) /\ Len(one) = 1 /\ one[1] = head
  BY OneElement
<1>4. Sequence(rests) /\ Len(rests) = 2 * H - 1 /\ \A i \in 1..2 * H - 1 : rests[i] = Rest
  BY <1>1, RestsAre
<1> HIDE DEF rests, H, one, head
<1>17. Sequence(one) /\ Sequence(rests)
  BY <1>3, <1>4
<1>5. /\ Sequence(cells) /\ Len(cells) = Len(one) + Len(rests)
      /\ \A i \in 1..Len(one) : cells[i] = one[i]
      /\ \A i \in 1..Len(rests) : cells[Len(one) + i] = rests[i]
  BY <1>17, ConcatAny
<1> HIDE DEF cells
<1>6. Len(cells) = 1 + (2 * H - 1) /\ \A i \in 1..2 * H - 1 : cells[1 + i] = rests[i]
  BY <1>3, <1>4, <1>5
<1>7. cells[1] = head
  <2>1. 1 \in 1..1
    OBVIOUS
  <2> QED BY <2>1, <1>3, <1>5
<1>8. 1 + (2 * H - 1) = 2 * H
  BY <1>1
<1>9. ASSUME NEW i \in 1..2 * H, i # 1 PROVE cells[i] = Rest
  <2>1. i - 1 \in 1..2 * H - 1 /\ 1 + (i - 1) = i
    BY <1>1, <1>9
  <2> QED BY <2>1, <1>4, <1>6
<1> QED BY <1>2, <1>5, <1>6, <1>7, <1>8, <1>9 DEF H, head

(* The header behind the placeholder of a recoverable file.                *)
Sound(cells) ==
  \A i \in 1..Len(cells) : cells[i] # Hole /\ (IsBox(cells[i]) => cells[i].total \in Nat \ {0})

Headed(over, p, cells) == \A i \in 1..2 * HeaderBytes : over[p + i] = cells[i]

LEMMA HeaderBoxes ==
  ASSUME NEW payload \in Nat, NEW p \in Nat, NEW over,
         NEW cells, cells = MediaDataHeader(payload),
         Headed(over, p, cells)
  PROVE  /\ Sequence(cells) /\ Len(cells) = 2 * HeaderBytes
         /\ Sound(cells)
         /\ \E news : Heads(over, news, p, p + 2 * HeaderBytes + payload)
<1> DEFINE H == HeaderBytes
           o == p + 2 * H + payload
<1>1. H \in Nat /\ H > 0
  BY HeaderBytesType
<1>2. ~IsBox(Rest) /\ Rest # Hole
  BY CellsDiffer
<1>3. CASE HeaderLength(payload) = H
  <2> DEFINE free == [box |-> "free", total |-> H, holds |-> {}]
             head == [box |-> "mdat", total |-> H + payload, holds |-> {}]
             news == {p, p + H}
  <2>1. /\ Sequence(cells) /\ Len(cells) = 2 * H /\ cells[1] = free /\ cells[H + 1] = head
        /\ \A i \in 1..2 * H : i # 1 /\ i # H + 1 => cells[i] = Rest
    BY <1>3, CompactHeader
  <2>2. /\ IsBox(free) /\ free # Hole /\ IsBox(head) /\ head # Hole
        /\ free.total = H /\ free.box = "free" /\ head.total = H + payload /\ head.box = "mdat"
    BY CellsDiffer
  <2>3. \A i \in 1..2 * H : cells[i] # Hole /\ (IsBox(cells[i]) => cells[i].total \in Nat \ {0})
    <3> SUFFICES ASSUME NEW i \in 1..2 * H
                 PROVE  cells[i] # Hole /\ (IsBox(cells[i]) => cells[i].total \in Nat \ {0})
      OBVIOUS
    <3> HIDE DEF free, head, H
    <3>1. free.total \in Nat \ {0} /\ head.total \in Nat \ {0}
      BY <2>2, <1>1
    <3>2. cells[i] \in {free, head, Rest}
      BY <2>1
    <3> QED BY <3>1, <3>2, <2>2, <1>2
  <2>4. over[p + 1] = free /\ over[p + H + 1] = head
    <3>1. 1 \in 1..2 * H /\ H + 1 \in 1..2 * H /\ p + (H + 1) = p + H + 1
      BY <1>1
    <3> HIDE DEF free, head, H
    <3> QED BY <3>1, <2>1 DEF H, Headed
  <2> HIDE DEF free, head
  <2>5. /\ EndIn(over, p) = p + H /\ EndIn(over, p + H) = p + H + (H + payload)
        /\ TypeIn(over, p) = "free" /\ TypeIn(over, p + H) = "mdat"
        /\ IsBox(over[p + 1]) /\ IsBox(over[p + H + 1])
    BY <2>2, <2>4 DEF EndIn, TypeIn
  <2>6. p + H + (H + payload) = o /\ p + H \in Nat /\ p < p + H /\ p + H < o /\ p < o /\ p + H <= o /\ o \in Nat
    BY <1>1
  <2> HIDE DEF o, H
  <2>7. NewBoxes(over, news, p, o)
    <3>1. /\ p \in Nat /\ p <= p /\ p < o /\ IsBox(over[p + 1])
          /\ EndIn(over, p) <= o /\ EndIn(over, p) \in news
          /\ \A r \in news : p < r => EndIn(over, p) <= r
      BY <2>5, <2>6
    <3>2. /\ p + H \in Nat /\ p <= p + H /\ p + H < o /\ IsBox(over[p + H + 1])
          /\ EndIn(over, p + H) <= o /\ EndIn(over, p + H) = o
          /\ \A r \in news : ~(p + H < r)
      BY <2>5, <2>6
    <3> QED BY <3>1, <3>2 DEF NewBoxes
  <2>8. Heads(over, news, p, o)
    BY <2>5, <2>7 DEF Heads
  <2> QED BY <2>1, <2>3, <2>8 DEF o, H, Sound
<1>4. CASE HeaderLength(payload) # H
  <2> DEFINE head == [box |-> "mdat", total |-> 2 * H + payload, holds |-> {}]
             news == {p}
  <2>1. /\ Sequence(cells) /\ Len(cells) = 2 * H /\ cells[1] = head
        /\ \A i \in 1..2 * H : i # 1 => cells[i] = Rest
    BY <1>4, LargeHeader
  <2>2. /\ IsBox(head) /\ head # Hole /\ head.total = 2 * H + payload /\ head.box = "mdat"
    BY CellsDiffer
  <2>3. \A i \in 1..2 * H : cells[i] # Hole /\ (IsBox(cells[i]) => cells[i].total \in Nat \ {0})
    <3> SUFFICES ASSUME NEW i \in 1..2 * H
                 PROVE  cells[i] # Hole /\ (IsBox(cells[i]) => cells[i].total \in Nat \ {0})
      OBVIOUS
    <3> HIDE DEF head, H
    <3>1. head.total \in Nat \ {0}
      BY <2>2, <1>1
    <3>2. cells[i] \in {head, Rest}
      BY <2>1
    <3> QED BY <3>1, <3>2, <2>2, <1>2
  <2>4. over[p + 1] = head
    <3>1. 1 \in 1..2 * H
      BY <1>1
    <3> HIDE DEF head, H
    <3> QED BY <3>1, <2>1 DEF H, Headed
  <2> HIDE DEF head
  <2>5. EndIn(over, p) = p + (2 * H + payload) /\ TypeIn(over, p) = "mdat" /\ IsBox(over[p + 1])
    BY <2>2, <2>4 DEF EndIn, TypeIn
  <2>6. p + (2 * H + payload) = o /\ p < o /\ o \in Nat
    BY <1>1
  <2> HIDE DEF o, H
  <2>7. NewBoxes(over, news, p, o)
    BY <2>5, <2>6 DEF NewBoxes
  <2>8. Heads(over, news, p, o)
    BY <2>5, <2>7 DEF Heads
  <2> QED BY <2>1, <2>3, <2>8 DEF o, H, Sound
<1> QED BY <1>3, <1>4

(* Once all that goes behind is on disk, the disk is the file, and what is *)
(* left goes over a free box of it.                                        *)
LEMMA OverIs ==
  ASSUME NEW file, NEW starts, NEW place, NEW n, Inv(file, starts, place, n), ~(n > 0),
         output # <<>>
  PROVE  /\ disk = file /\ finished /\ n = 0 /\ Sequence(file)
         /\ Sequence(output) /\ Len(output) = 1
         /\ IF Recoverable THEN Header(file, starts, place, output[1])
                           ELSE Index(file, starts, output[1])
<1>1. /\ Sequence(disk) /\ Sequence(output) /\ Sequence(file) /\ n \in 0..Len(output)
      /\ \A i \in DOMAIN disk : disk[i] = file[i]
  BY DEF Inv, Queued, Boxed
<1>2. Len(output) \in Nat
  BY <1>1, SequenceShape
<1>3. n = 0
  BY <1>1, <1>2
<1>4. Len(file) = Len(disk)
  BY <1>3 DEF Inv, Queued
<1>5. disk = file
  <2>1. /\ disk = [i \in 1..Len(disk) |-> disk[i]] /\ file = [i \in 1..Len(disk) |-> file[i]]
        /\ DOMAIN disk = 1..Len(disk)
    BY <1>1, <1>4, SequenceShape
  <2> QED BY <2>1, <1>1
<1>6. Len(output) # 0
  BY <1>1, SequenceShape
<1>7. /\ finished /\ n = Len(output) - 1
      /\ IF Recoverable THEN Header(file, starts, place, output[n + 1])
                        ELSE Index(file, starts, output[n + 1])
  BY <1>3, <1>6 DEF Inv, Overlay
<1>8. n + 1 = 1 /\ Len(output) = 1
  BY <1>2, <1>3, <1>7
<1> QED BY <1>1, <1>3, <1>5, <1>7, <1>8

LEMMA AllOf ==
  ASSUME NEW all, Sequence(all), NEW n \in Nat, n = Len(all)
  PROVE  LET same == SubSeq(all, 1, n)
         IN  Sequence(same) /\ Len(same) = n /\ \A i \in 1..n : same[i] = all[i]
<1> DEFINE same == SubSeq(all, 1, n)
<1>1. 1 \in Nat /\ 1 >= 1 /\ 1 <= n + 1 /\ n <= Len(all)
  OBVIOUS
<1>2. Sequence(same) /\ Len(same) = n - 1 + 1 /\ \A i \in 1..n - 1 + 1 : same[i] = all[1 + i - 1]
  BY <1>1, SubSeqAny
<1> HIDE DEF same
<1>3. n - 1 + 1 = n /\ \A i \in 1..n : 1 + i - 1 = i
  OBVIOUS
<1>4. Sequence(same) /\ Len(same) = n /\ \A i \in 1..n : same[i] = all[i]
  BY <1>2, <1>3
<1> QED BY <1>4 DEF same

LEMMA TailOfOne ==
  ASSUME NEW s, Sequence(s), Len(s) = 1
  PROVE  Tail(s) = <<>>
<1>1. PICK tail : tail = Tail(s)
  OBVIOUS
<1>2. Len(s) > 0
  OBVIOUS
<1>3. Sequence(tail) /\ Len(tail) = Len(s) - 1
  BY <1>1, <1>2, TailAny
<1>4. Len(tail) = 0
  BY <1>3
<1>5. tail = [i \in 1..0 |-> tail[i]]
  BY <1>3, <1>4, SequenceShape
<1> QED BY <1>1, <1>5

LEMMA WriteOver ==
  ASSUME NEW cells, Sequence(cells), Len(cells) > 0, Sequence(disk), NEW p \in Nat,
         p + Len(cells) <= Len(disk),
         Sequence(output), Len(output) = 1, output[1].offset = p, output[1].cells = cells, Write
  PROVE  Overwritten(disk', disk, p, cells) /\ output' = <<>> /\ UNCHANGED muxer
<1>1. Len(cells) \in Nat /\ Len(disk) \in Nat
  BY SequenceShape
<1>2. PICK L \in Nat : L = Len(cells)
  BY <1>1
<1>3. PICK F \in Nat : F = Len(disk)
  BY <1>1
<1>4. L > 0 /\ p + L <= F
  BY <1>2, <1>3
<1>5. PICK first : first = Head(output)
  OBVIOUS
<1>6. first.offset = p /\ first.cells = cells /\ Len(first.cells) = L
  BY <1>2, <1>5
<1>7. first.offset < Len(disk)
  BY <1>3, <1>4, <1>6
<1>8. PICK all : all = SubSeq(cells, 1, L)
  OBVIOUS
<1>11. Sequence(all) /\ Len(all) = L /\ \A i \in 1..L : all[i] = cells[i]
  BY <1>2, <1>8, AllOf
<1>12. disk' = Overlaid(all, p)
  BY <1>5, <1>6, <1>7, <1>8 DEF Write
<1>13. Longest(F, Len(disk), p + Len(all))
  BY <1>3, <1>4, <1>11 DEF Longest
<1>14. p <= Len(disk)
  BY <1>3, <1>4
<1>15. /\ Sequence(disk') /\ Len(disk') = F
       /\ \A i \in 1..Len(all) : disk'[p + i] = all[i]
       /\ \A i \in 1..Len(disk) : ~(p < i /\ i <= p + Len(all)) => disk'[i] = disk[i]
  BY <1>11, <1>12, <1>13, <1>14, OverlaidIs
<1>16. Overwritten(disk', disk, p, cells)
  BY <1>2, <1>3, <1>11, <1>15 DEF Overwritten
<1>17. output' = Tail(output)
  BY <1>5, <1>6, <1>7 DEF Write
<1>18. Tail(output) = <<>>
  BY TailOfOne
<1> QED BY <1>16, <1>17, <1>18 DEF Write

LEMMA EmptySequence == Sequence(<<>>) /\ Len(<<>>) = 0 /\ DOMAIN <<>> = {}
<1>1. <<>> \in Seq({}) /\ Len(<<>>) = 0
  OBVIOUS
<1>2. Sequence(<<>>)
  BY <1>1, SequenceOf
<1> QED BY <1>1, <1>2

LEMMA QueuedNone ==
  ASSUME NEW file, Sequence(file)
  PROVE  Queued(file, <<>>, file, 0)
<1>1. Len(file) \in Nat
  BY SequenceShape
<1>2. PICK none : none = <<>>
  OBVIOUS
<1>3. Sequence(none) /\ Len(none) = 0
  BY <1>2, EmptySequence
<1>4. 0 \in 0..0 /\ \A k \in 1..0 : FALSE
  OBVIOUS
<1>5. Len(file) <= Len(file)
  BY <1>1
<1>6. Queued(file, none, file, 0)
  BY <1>3, <1>4, <1>5 DEF Queued
<1> QED BY <1>2, <1>6

(* What holds once an output over the file is written, whatever it lays    *)
(* out.                                                                    *)
LEMMA OverSuffices ==
  ASSUME NEW file, NEW starts, NEW place, NEW n, Inv(file, starts, place, n), finished,
         NEW over, NEW more, disk' = over, output' = <<>>, UNCHANGED muxer,
         Boxed(over, more), Len(file) = Len(over), Holding(over, place, accepted),
         IF ~Fragments \/ (Recoverable /\ tables.state = "laid out")
         THEN InTables(over, more, place, accepted, TRUE)
         ELSE InFragments(over, more, place, accepted, TRUE),
         Recoverable => /\ tables.state = "laid out"
                        /\ \E q \in more : TypeIn(over, q) = "mdat"
                        /\ \E q \in more : TypeIn(over, q) = "moov"
  PROVE  Inv(over, more, place, 0)'
<1>1. UNCHANGED <<structure, movie, nextOffset, reserved, placeholder, finished, tables, accepted>>
  BY DEF muxer
<1>2. Queued(over, <<>>, over, 0)
  BY QueuedNone DEF Boxed
<1>3. Queued(disk, output, over, 0)'
  BY <1>2
<1>4. LaidOut' <=> Recoverable /\ tables.state = "laid out"
  BY <1>1 DEF LaidOut, Recoverable
<1>5. finished = TRUE /\ finished' = TRUE
  BY <1>1 DEF Inv, Stage
<1>6. Contents(over, more, place)'
  BY <1>1, <1>4, <1>5 DEF Contents, Fragments
<1>7. Spaces(over, more)'
  BY <1>1, <1>4, <1>5 DEF Spaces, Recoverable
<1>8. Overlay(over, more, place, 0)'
  <2>1. Len(<<>>) = 0
    OBVIOUS
  <2> QED BY <2>1 DEF Overlay
<1>9. Tabled(place)' /\ Holding(over, place, accepted)'
  BY <1>1 DEF Inv, Tabled, Fragments, Recoverable
<1>10. Stage(over, more)'
  BY <1>1, <1>5 DEF Inv, Stage
<1> QED BY <1>3, <1>6, <1>7, <1>8, <1>9, <1>10 DEF Inv

LEMMA IndexKeeps ==
  ASSUME NEW file, NEW starts, NEW place, NEW n, Inv(file, starts, place, n), ~(n > 0),
         output # <<>>, ~Recoverable, Write
  PROVE  /\ \E over, more : Inv(over, more, place, 0)'
         /\ \E p, cells : FreeAt(file, starts, p, Len(cells)) /\ Overwritten(disk', file, p, cells)
<1>1. /\ disk = file /\ finished /\ n = 0 /\ Sequence(file)
      /\ Sequence(output) /\ Len(output) = 1
      /\ Index(file, starts, output[1])
  BY OverIs
<1>2. PICK cells, p : cells = output[1].cells /\ p = output[1].offset
  OBVIOUS
<1>3. OneBox(cells) /\ cells[1].box = "sidx" /\ FreeAt(file, starts, p, Len(cells))
  BY <1>1, <1>2 DEF Index
<1>4. /\ Sequence(cells) /\ Len(cells) > 0 /\ Len(cells) \in Nat
      /\ IsBox(cells[1]) /\ cells[1].total = Len(cells) /\ cells[1] # Hole
      /\ \A i \in 2..Len(cells) : ~IsBox(cells[i]) /\ cells[i] # Hole
  BY <1>3, SequenceShape DEF OneBox
<1>5. Boxed(file, starts) /\ Holding(file, place, accepted)
  BY DEF Inv
<1>6. /\ p \in starts /\ TypeIn(file, p) = "free" /\ TotalIn(file, p) = Len(cells)
  BY <1>3 DEF FreeAt
<1>7. /\ p \in Nat /\ p + Len(cells) <= Len(file)
      /\ p + Len(cells) = Len(file) \/ p + Len(cells) \in starts
      /\ \A q \in starts : p < q => p + Len(cells) <= q
  <2>1. EndIn(file, p) = p + Len(cells)
    BY <1>6 DEF EndIn, TotalIn
  <2> QED BY <2>1, <1>5, <1>6 DEF Boxed
<1>8. Overwritten(disk', file, p, cells) /\ output' = <<>> /\ UNCHANGED muxer
  BY <1>1, <1>2, <1>4, <1>7, WriteOver
<1>9. PICK over : over = disk'
  OBVIOUS
<1>10. Overwritten(over, file, p, cells)
  BY <1>8, <1>9
<1>11. PICK o \in Nat : o = p + Len(cells)
  BY <1>4, <1>7
<1>12. over[p + 1] = cells[1]
  <2>1. 1 \in 1..Len(cells)
    BY <1>4
  <2> QED BY <2>1, <1>10 DEF Overwritten
<1>13. NewBoxes(over, {p}, p, o)
  <2>1. EndIn(over, p) = o
    BY <1>4, <1>11, <1>12 DEF EndIn
  <2>2. p < o /\ p <= p /\ o <= o
    BY <1>4, <1>7, <1>11
  <2> QED BY <2>1, <2>2, <1>4, <1>7, <1>12 DEF NewBoxes
<1>14. \A i \in 1..Len(cells) : cells[i] # Hole /\ (IsBox(cells[i]) => cells[i].total \in Nat \ {0})
  <2>1. \A i \in 1..Len(cells) : i = 1 \/ i \in 2..Len(cells)
    BY <1>4
  <2> QED BY <2>1, <1>4
<1>15. p + Len(cells) <= o /\ (o \in starts \/ o = Len(file))
  BY <1>7, <1>11
<1>16. PICK more : Boxed(over, more) /\ Relaid(over, more, file, starts, {p}, p, o)
  BY <1>3, <1>4, <1>5, <1>10, <1>13, <1>14, <1>15, RelaidIs
<1>17. Holding(over, place, accepted)
  BY <1>3, <1>4, <1>5, <1>10, HoldingOver
<1>18. Len(over) = Len(file)
  BY <1>16 DEF Relaid
<1>19. /\ \A q \in starts : q # p =>
            /\ q \in more
            /\ TypeIn(over, q) = TypeIn(file, q) /\ HoldsIn(over, q) = HoldsIn(file, q)
            /\ TotalIn(over, q) = TotalIn(file, q) /\ EndIn(over, q) = EndIn(file, q)
       /\ \A q \in more : q = p \/ (q \in starts /\ q # p)
       /\ TypeIn(over, p) = "sidx" /\ TypeIn(file, p) = "free"
  <2>1. \A q \in starts : q # p => q < p \/ q >= o
    <3>1. \A q \in starts : q \in Nat
      BY <1>5 DEF Boxed
    <3> QED BY <3>1, <1>7, <1>11
  <2>2. \A q : q < p \/ q >= o => q # p
    BY <1>4, <1>7, <1>11
  <2>3. TypeIn(over, p) = "sidx"
    BY <1>3, <1>12 DEF TypeIn
  <2> QED BY <2>1, <2>2, <2>3, <1>6, <1>16 DEF Relaid
<1>20. ~LaidOut /\ finished = TRUE
  BY <1>1 DEF LaidOut, Inv, Stage
<1>21. Fragments
  <2>1. n # Len(output)
    BY <1>1
  <2> QED BY <2>1 DEF Inv, Overlay
<1>22. \E longer, all : Inv(longer, all, place, 0)'
  <2>1. InFragments(file, starts, place, accepted, TRUE)
    BY <1>20, <1>21 DEF Inv, Contents
  <2>2. \A q \in more : TypeIn(over, q) # "sidx" =>
          /\ q \in starts /\ q # p
          /\ TypeIn(over, q) = TypeIn(file, q) /\ HoldsIn(over, q) = HoldsIn(file, q)
          /\ TotalIn(over, q) = TotalIn(file, q) /\ EndIn(over, q) = EndIn(file, q)
    BY <1>19
  <2>3. \A q \in starts : TypeIn(file, q) # "free" =>
          /\ q \in more
          /\ TypeIn(over, q) = TypeIn(file, q) /\ HoldsIn(over, q) = HoldsIn(file, q)
    BY <1>19
  <2>4. ASSUME NEW q \in more, TypeIn(over, q) = "moof", NEW held \in HoldsIn(over, q)
        PROVE  /\ held.sample \in 1..accepted
               /\ held.offset \in Nat /\ held.offset >= TotalIn(over, q)
               /\ q + held.offset = place[held.sample].start
               /\ held.length = place[held.sample].length
    <3>1. /\ q \in starts /\ TypeIn(file, q) = "moof" /\ held \in HoldsIn(file, q)
          /\ TotalIn(over, q) = TotalIn(file, q)
      BY <2>2, <2>4
    <3> QED BY <3>1, <2>1 DEF InFragments
  <2>5. ASSUME NEW s \in 1..accepted
        PROVE  \E q \in more : TypeIn(over, q) = "moof" /\ \E held \in HoldsIn(over, q) : held.sample = s
    <3>1. PICK q \in starts : TypeIn(file, q) = "moof" /\ \E held \in HoldsIn(file, q) : held.sample = s
      BY <2>1 DEF InFragments
    <3> QED BY <3>1, <2>3
  <2>6. ASSUME NEW q \in more, TypeIn(over, q) = "moov"
        PROVE  /\ \/ HoldsIn(over, q) = {}
                  \/ TRUE /\ \E r \in more : r < q /\ TypeIn(over, r) = "moov"
               /\ \A r \in more : r < q /\ TypeIn(over, r) = "moov" => TRUE /\ EndIn(over, q) = Len(over)
    <3>1. /\ q \in starts /\ TypeIn(file, q) = "moov" /\ HoldsIn(over, q) = HoldsIn(file, q)
          /\ EndIn(over, q) = EndIn(file, q)
      BY <2>2, <2>6
    <3>2. /\ \/ HoldsIn(file, q) = {}
             \/ \E r \in starts : r < q /\ TypeIn(file, r) = "moov"
          /\ \A r \in starts : r < q /\ TypeIn(file, r) = "moov" => EndIn(file, q) = Len(file)
      BY <3>1, <2>1 DEF InFragments
    <3> QED BY <3>1, <3>2, <2>2, <2>3, <1>18
  <2>7. \A q \in more : TypeIn(over, q) = "mdat" => accepted > 0
    BY <2>1, <2>2 DEF InFragments
  <2>8. InFragments(over, more, place, accepted, TRUE)
    BY <2>4, <2>5, <2>6, <2>7 DEF InFragments
  <2> QED BY <2>8, <1>1, <1>8, <1>9, <1>16, <1>17, <1>18, <1>21, OverSuffices
<1> QED BY <1>3, <1>8, <1>22

(* The header of the mdat makes a file that its last moov declares.        *)
LEMMA HeaderKeeps ==
  ASSUME NEW file, NEW starts, NEW place, NEW n, Inv(file, starts, place, n), ~(n > 0),
         output # <<>>, Recoverable, Write
  PROVE  /\ \E over, more : Inv(over, more, place, 0)'
         /\ \E p, cells : FreeAt(file, starts, p, Len(cells)) /\ Overwritten(disk', file, p, cells)
<1>1. /\ disk = file /\ finished /\ n = 0 /\ Sequence(file)
      /\ Sequence(output) /\ Len(output) = 1
      /\ Header(file, starts, place, output[1])
  BY OverIs
<1>2. PICK cells, p : cells = output[1].cells /\ p = output[1].offset
  OBVIOUS
<1>3. PICK H \in Nat : H = 2 * HeaderBytes /\ H > 0
  BY HeaderBytesType
<1>4. PICK o \in starts : /\ TypeIn(file, o) = "moov"
                          /\ EndIn(file, o) = Len(file)
                          /\ HoldsIn(file, o) = {LocationOf(place, s) : s \in 1..accepted}
                          /\ p + H <= o
                          /\ cells = MediaDataHeader(o - p - H)
  BY <1>1, <1>2, <1>3 DEF Header
<1>5. tables.state = "laid out" /\ p = placeholder
  BY <1>1, <1>2 DEF Header
<1>6. Boxed(file, starts) /\ Holding(file, place, accepted)
  BY DEF Inv
<1>7. ~LaidOut /\ finished = TRUE /\ movie
  BY <1>1 DEF LaidOut, Inv, Stage
<1>8. /\ FreeAt(file, starts, p, H)
      /\ \A q \in starts : q < p => TypeIn(file, q) \notin {"moov", "moof", "mdat"}
  BY <1>3, <1>5, <1>7 DEF Inv, Spaces
<1>9. p \in Nat /\ o \in Nat /\ o < Len(file) /\ Len(file) \in Nat
  BY <1>6, <1>8, SequenceShape DEF FreeAt, Boxed
<1>10. PICK payload \in Nat : payload = o - p - H
  BY <1>4, <1>9
<1>11. cells = MediaDataHeader(payload) /\ p + H + payload = o
  BY <1>4, <1>9, <1>10
<1>12. Sequence(cells) /\ Len(cells) = H
  <2>1. CASE HeaderLength(payload) = HeaderBytes
    BY <2>1, <1>3, <1>11, CompactHeader
  <2>2. CASE HeaderLength(payload) # HeaderBytes
    BY <2>2, <1>3, <1>11, LargeHeader
  <2> QED BY <2>1, <2>2
<1>13. p + Len(cells) <= Len(disk)
  BY <1>1, <1>4, <1>9, <1>12
<1>14. Overwritten(disk', file, p, cells) /\ output' = <<>> /\ UNCHANGED muxer
  BY <1>1, <1>2, <1>3, <1>9, <1>12, <1>13, WriteOver
<1>15. PICK over : over = disk'
  OBVIOUS
<1>16. Overwritten(over, file, p, cells)
  BY <1>14, <1>15
<1>17. \A i \in 1..H : over[p + i] = cells[i]
  BY <1>12, <1>16 DEF Overwritten
<1>18. Sound(cells) /\ \E news : Heads(over, news, p, p + H + payload)
  <2>1. Headed(over, p, cells)
    BY <1>3, <1>17 DEF Headed
  <2>2. cells = MediaDataHeader(payload)
    BY <1>11
  <2>3. Sound(cells) /\ \E news : Heads(over, news, p, p + 2 * HeaderBytes + payload)
    BY <2>1, <2>2, <1>9, <1>10, HeaderBoxes
  <2> QED BY <2>3, <1>3
<1>19. PICK news : Heads(over, news, p, o)
  BY <1>11, <1>18
<1>20. NewBoxes(over, news, p, o)
  BY <1>19 DEF Heads
<1>21. FreeAt(file, starts, p, Len(cells)) /\ p + Len(cells) <= o
  BY <1>4, <1>8, <1>12
<1>22. \A i \in 1..Len(cells) : cells[i] # Hole /\ (IsBox(cells[i]) => cells[i].total \in Nat \ {0})
  BY <1>18 DEF Sound
<1>23. PICK more : Boxed(over, more) /\ Relaid(over, more, file, starts, news, p, o)
  BY <1>6, <1>9, <1>12, <1>16, <1>20, <1>21, <1>22, RelaidIs
<1>24. Holding(over, place, accepted)
  BY <1>6, <1>12, <1>16, <1>21, HoldingOver
<1>25. Len(file) = Len(over)
  BY <1>23 DEF Relaid
<1>26. \A q \in starts : q >= o => q = o
  <2>1. \A q \in starts : q \in Nat /\ q < Len(file) /\ (o < q => EndIn(file, o) <= q)
    BY <1>6 DEF Boxed
  <2> QED BY <2>1, <1>4, <1>9
<1>27. /\ o \in more /\ TypeIn(over, o) = TypeIn(file, o) /\ HoldsIn(over, o) = HoldsIn(file, o)
       /\ EndIn(over, o) = EndIn(file, o)
  <2>1. o >= o
    BY <1>9
  <2> QED BY <2>1, <1>23 DEF Relaid
<1>28. ASSUME NEW q \in more
       PROVE  \/ TypeIn(over, q) \in {"free", "mdat"}
              \/ TypeIn(over, q) \notin {"moov", "moof", "mdat"}
              \/ q = o
  <2>1. CASE q \in news
    BY <2>1, <1>19 DEF Heads
  <2>2. CASE q \in starts /\ q < p
    BY <2>2, <1>8, <1>23 DEF Relaid
  <2>3. CASE q \in starts /\ q >= o
    BY <2>3, <1>26
  <2> QED BY <2>1, <2>2, <2>3, <1>23 DEF Relaid
<1>29. InTables(over, more, place, accepted, TRUE)
  BY <1>4, <1>25, <1>27, <1>28 DEF InTables
<1>30. \E q \in more : TypeIn(over, q) = "mdat"
  <2>1. PICK q \in news : TypeIn(over, q) = "mdat"
    BY <1>19 DEF Heads
  <2>2. q \in more
    BY <2>1, <1>23 DEF Relaid
  <2> QED BY <2>1, <2>2
<1>31. \E longer, all : Inv(longer, all, place, 0)'
  BY <1>1, <1>4, <1>5, <1>14, <1>15, <1>23, <1>24, <1>25, <1>27, <1>29, <1>30, OverSuffices
<1> QED BY <1>14, <1>21, <1>31

LEMMA WriteKeeps ==
  ASSUME IInv, Write
  PROVE  IInv'
<1>1. PICK file, starts, place, n : Inv(file, starts, place, n)
  BY DEF IInv
<1>2. output # <<>>
  BY DEF Write
<1>3. CASE n > 0
  BY <1>1, <1>3, WriteBehindKeeps DEF IInv
<1>4. CASE ~(n > 0) /\ Recoverable
  BY <1>1, <1>2, <1>4, HeaderKeeps DEF IInv
<1>5. CASE ~(n > 0) /\ ~Recoverable
  BY <1>1, <1>2, <1>5, IndexKeeps DEF IInv
<1> QED BY <1>3, <1>4, <1>5
-------------------------------------------------------------------------------
(* THE INVARIANT HOLDS                                                     *)

LEMMA InitHolds ==
  ASSUME Init
  PROVE  IInv
<1>1. /\ structure \in Structures /\ movie = FALSE /\ finished = FALSE /\ nextOffset = 0
      /\ output = <<>> /\ disk = <<>> /\ reserved = None /\ accepted = 0
      /\ tables = [state |-> "declaring", declared |-> <<>>, held |-> 0]
  BY DEF Init
<1>2. PICK none : none = <<>>
  OBVIOUS
<1>3. Sequence(none) /\ Len(none) = 0 /\ DOMAIN none = {}
  BY <1>2, EmptySequence
<1>4. Boxed(none, {})
  BY <1>3 DEF Boxed
<1>5. Layout(disk, output, none, {})
  <2>1. Queued(none, <<>>, none, 0)
    BY <1>3, QueuedNone
  <2>2. disk = none /\ output = <<>> /\ Len(<<>>) = 0
    BY <1>1, <1>2
  <2> QED BY <2>1, <2>2, <1>4 DEF Layout
<1>6. Holding(none, none, accepted) /\ Written(none, {}, none, accepted)
  <2>1. accepted = 0 /\ 0 \in Nat /\ \A s \in 1..0 : FALSE
    BY <1>1
  <2> QED BY <2>1 DEF Holding, Written, InFragments, InTables
<1>7. Spaces(none, {})
  BY <1>1 DEF Spaces
<1>8. Tabled(none)
  <2>1. PICK declared : declared = <<>>
    OBVIOUS
  <2>2. Sequence(declared) /\ Len(declared) = 0
    BY <2>1, EmptySequence
  <2>3. /\ tables.state = "declaring" /\ tables.declared = declared
        /\ tables = [state |-> tables.state, declared |-> tables.declared, held |-> tables.held]
    BY <1>1, <2>1, TablesAre
  <2>4. accepted = 0 /\ \A s \in 1..0 : FALSE
    BY <1>1
  <2> QED BY <2>2, <2>3, <2>4 DEF Tabled
<1>9. Stage(none, {})
  BY <1>1, <1>3 DEF Stage
<1>10. ~finished
  BY <1>1
<1> QED BY <1>5, <1>6, <1>7, <1>8, <1>9, <1>10, WorkingIs DEF Working, WorkingSuffices

LEMMA SamplesKeep ==
  ASSUME IInv, Counted, NEW call \in Calls[structure], HandleSamples(call), lost'.free = 0
  PROVE  IInv'
<1>1. call \in Seq(Sample)
  BY MuxerAssumption DEF Counted
<1>2. CASE UNCHANGED <<muxer, output, disk>>
  BY <1>2, Unchanged DEF muxer
<1>3. CASE ~UNCHANGED <<muxer, output, disk>>
  <2>1. /\ ~finished /\ movie /\ call # <<>> /\ UNCHANGED disk
        /\ IF Fragments THEN FragmentSamples(call) ELSE TableSamples(call)
    BY <1>3 DEF HandleSamples
  <2>2. CASE ~Fragments
    BY <2>1, <2>2, <1>1, TableSamplesKeep
  <2>3. CASE Fragments
    <3>1. WriteFragment(call) \/ LoseFragment(call)
      BY <1>3, <2>1, <2>3 DEF FragmentSamples
    <3> QED BY <2>1, <2>3, <3>1, <1>1, WriteFragmentKeeps, LoseFragmentKeeps
  <2> QED BY <2>2, <2>3
<1> QED BY <1>2, <1>3

(* What is lost stays lost.                                                *)
LosesNothingBack == lost.free <= lost'.free /\ lost.moof <= lost'.moof

LEMMA ReferencesAre ==
  ASSUME NEW call, Sequence(references)
  PROVE  Sequence(ReferencesWith(call)) /\ Len(ReferencesWith(call)) = Len(references) + 1
<1>1. PICK n : n = Len(references)
  OBVIOUS
<1>2. n \in Nat /\ DOMAIN references = 1..n
  BY <1>1, SequenceShape
<1>3. PICK patched : patched = IF Presented(call) # {} /\ lastPresented # None
                               THEN [references EXCEPT ![lastPresented.index].ticks =
                                                         Min(Presented(call)) - lastPresented.start]
                               ELSE references
  OBVIOUS
<1>4. Sequence(patched) /\ Len(patched) = n
  <2>1. CASE patched = references
    BY <1>1, <2>1
  <2>2. CASE \E x, y : patched = [references EXCEPT ![x].ticks = y]
    <3>1. PICK x, y : patched = [references EXCEPT ![x].ticks = y]
      BY <2>2
    <3>2. patched = [i \in 1..n |-> patched[i]]
      BY <1>2, <3>1
    <3> QED BY <1>2, <3>2, SequenceOfAny
  <2> QED BY <1>3, <2>1, <2>2
<1>5. PICK last : ReferencesWith(call) = Append(patched, last)
  BY <1>3 DEF ReferencesWith
<1> QED BY <1>1, <1>4, <1>5, AppendAny

LEMMA PlainIs ==
  ASSUME NEW type, NEW holds
  PROVE  Len(Plain(type, holds)) \in Nat
<1>1. HeaderBytes + PayloadBytes \in Nat /\ HeaderBytes + PayloadBytes > 0
  BY HeaderBytesType
<1> QED BY <1>1, BoxIs DEF Plain

LEMMA SamplesCounted ==
  ASSUME Counted, NEW call \in Calls[structure], HandleSamples(call)
  PROVE  Counted' /\ LosesNothingBack
<1>1. /\ structure \in Structures /\ call \in Seq(Sample) /\ nextOffset \in Nat /\ accepted \in Nat
      /\ lost \in [free : Nat, moof : Nat] /\ lost.free \in Nat /\ lost.moof \in Nat
      /\ Len(call) \in Nat
  BY MuxerAssumption DEF Counted
<1>2. CASE UNCHANGED <<muxer, lost>>
  BY <1>1, <1>2 DEF Counted, LosesNothingBack, muxer
<1>3. CASE ~UNCHANGED <<muxer, lost>>
  <2>1. call # <<>> /\ IF Fragments THEN FragmentSamples(call) ELSE TableSamples(call)
    BY <1>3 DEF HandleSamples
  <2>2. Len(MediaData(call)) \in Nat /\ FragmentBytes(call) \in Nat /\ Reserving \in Nat
    <3>1. /\ Len(MediaData(call)) = HeaderLength(DataBytes(call)) + DataBytes(call)
          /\ DataBytes(call) \in Nat
      BY <1>1, <2>1, MediaDataIs
    <3>2. HeaderLength(DataBytes(call)) \in Nat
      BY HeaderLengthIs
    <3>3. FragmentBytes(call) \in Nat /\ Reserving \in Nat
      BY <1>1, FragmentBytesIs, ReservingIs
    <3> QED BY <3>1, <3>2, <3>3
  <2>3. CASE TableSamples(call)
    <3>1. /\ nextOffset' = nextOffset + Len(MediaData(call))
          /\ accepted' = accepted + Len(call)
          /\ UNCHANGED <<structure, references, lost>>
      BY <1>3, <2>3 DEF TableSamples
    <3> QED BY <1>1, <2>2, <3>1 DEF Counted, LosesNothingBack
  <2>4. ASSUME CountFragment(call), UNCHANGED structure PROVE Sequence(references')
    BY <2>4, ReferencesAre DEF CountFragment, Counted
  <2>5. CASE WriteFragment(call)
    <3>1. /\ nextOffset' = nextOffset + Reserving + FragmentBytes(call) + Len(MediaData(call))
          /\ accepted' = accepted + Len(call)
          /\ UNCHANGED <<structure, lost>> /\ CountFragment(call)
      BY <2>5 DEF WriteFragment
    <3>2. nextOffset' \in Nat /\ accepted' \in Nat
      BY <1>1, <2>2, <3>1
    <3> QED BY <1>1, <2>4, <3>1, <3>2 DEF Counted, LosesNothingBack
  <2>6. CASE LoseFragment(call)
    <3>1. /\ nextOffset' = nextOffset + Reserving
          /\ lost' = [free |-> lost.free + (IF Reserving > 0 THEN 1 ELSE 0), moof |-> lost.moof + 1]
          /\ UNCHANGED <<structure, accepted>> /\ CountFragment(call)
      BY <2>6 DEF LoseFragment
    <3>2. nextOffset' \in Nat
      BY <1>1, <2>2, <3>1
    <3> QED BY <1>1, <2>4, <3>1, <3>2 DEF Counted, LosesNothingBack
  <2> QED BY <1>3, <2>1, <2>3, <2>5, <2>6 DEF FragmentSamples
<1> QED BY <1>2, <1>3

LEMMA MovieCounted ==
  ASSUME Counted, NEW offered, HandleMovie(offered)
  PROVE  Counted' /\ LosesNothingBack
<1>1. /\ nextOffset \in Nat /\ HeaderBytes \in Nat /\ lost \in [free : Nat, moof : Nat]
      /\ lost.free \in Nat /\ lost.moof \in Nat
  BY HeaderBytesType DEF Counted
<1>2. CASE RefuseMovie(offered)
  <2>1. UNCHANGED <<structure, nextOffset, accepted, references, lost>>
    BY <1>2 DEF RefuseMovie, muxer
  <2> QED BY <1>1, <2>1 DEF Counted, LosesNothingBack
<1>3. CASE LoseMovie(offered)
  <2>1. /\ nextOffset' = nextOffset + 2 * HeaderBytes
        /\ lost' = [lost EXCEPT !.free = @ + 1]
        /\ UNCHANGED <<structure, accepted, references>>
    BY <1>3 DEF LoseMovie
  <2>2. nextOffset' \in Nat /\ lost' \in [free : Nat, moof : Nat]
        /\ lost'.free = lost.free + 1 /\ lost'.moof = lost.moof
    BY <1>1, <2>1
  <2> QED BY <1>1, <2>1, <2>2 DEF Counted, LosesNothingBack
<1>4. CASE TakeMovie(offered)
  <2>1. PICK bytes : /\ nextOffset' = nextOffset + (IF Recoverable THEN 2 * HeaderBytes ELSE 0) + bytes
                     /\ bytes \in {0, Len(FragmentedMovie)}
    BY <1>4 DEF TakeMovie
  <2>2. Len(FragmentedMovie) \in Nat
    BY PlainIs DEF FragmentedMovie
  <2>3. nextOffset' \in Nat
    <3>1. PICK free : free = IF Recoverable THEN 2 * HeaderBytes ELSE 0
      OBVIOUS
    <3>2. free \in Nat /\ bytes \in Nat
      BY <1>1, <2>1, <2>2, <3>1
    <3>3. nextOffset' = nextOffset + free + bytes
      BY <2>1, <3>1
    <3> QED BY <1>1, <3>2, <3>3
  <2>4. UNCHANGED <<structure, accepted, references, lost>>
    BY <1>4 DEF TakeMovie
  <2> QED BY <1>1, <2>3, <2>4 DEF Counted, LosesNothingBack
<1> QED BY <1>2, <1>3, <1>4 DEF HandleMovie

LEMMA FinishCounted ==
  ASSUME Counted, Finish
  PROVE  Counted' /\ LosesNothingBack
<1>1. nextOffset \in Nat /\ lost.free \in Nat /\ lost.moof \in Nat /\ structure \in Structures
  BY DEF Counted
<1>2. UNCHANGED <<structure, accepted, lost>>
  BY DEF Finish, RefuseFinish, muxer
<1>3. UNCHANGED references
  BY DEF Finish, RefuseFinish, FinishTables, FinishRecoverable, FinishFragmented, FinishSegment,
         FailFinish, muxer
<1>4. nextOffset' \in Nat
  <2>1. CASE UNCHANGED nextOffset
    BY <1>1, <2>1
  <2>2. CASE FinishTables \/ FinishRecoverable
    <3>1. PICK bytes : bytes = Len(TableMovie)
      OBVIOUS
    <3>2. bytes \in Nat
      BY <3>1, PlainIs DEF TableMovie
    <3>3. nextOffset' = nextOffset \/ nextOffset' = nextOffset + bytes
      BY <2>2, <3>1 DEF FinishTables, FinishRecoverable, FailFinish
    <3> QED BY <1>1, <3>2, <3>3
  <2>3. CASE FinishFragmented
    <3>1. PICK bytes : bytes = Len(Plain("mfra", syncSamples))
      OBVIOUS
    <3>2. bytes \in Nat
      BY <3>1, PlainIs
    <3>3. nextOffset' = nextOffset \/ nextOffset' = nextOffset + bytes
      BY <2>3, <3>1 DEF FinishFragmented, FailFinish
    <3> QED BY <1>1, <3>2, <3>3
  <2>4. CASE FinishSegment
    <3>1. Indexed => SegmentIndexBytes \in Nat
      BY <1>1, StructureIs, HeaderBytesType DEF Indexed, SegmentIndexBytes
    <3> HIDE DEF SegmentIndexBytes
    <3> QED BY <1>1, <2>4, <3>1 DEF FinishSegment, FailFinish
  <2> QED BY <2>1, <2>2, <2>3, <2>4 DEF Finish, RefuseFinish, muxer
<1> QED BY <1>1, <1>2, <1>3, <1>4 DEF Counted, LosesNothingBack

LEMMA CountedKeeps ==
  ASSUME Counted, [Next]_vars
  PROVE  Counted' /\ LosesNothingBack
<1>1. /\ lost.free \in Nat /\ lost.moof \in Nat /\ nextOffset \in Nat
      /\ lost \in [free : Nat, moof : Nat]
  BY DEF Counted
<1>2. CASE UNCHANGED <<structure, nextOffset, accepted, references, lost>>
  BY <1>1, <1>2 DEF Counted, LosesNothingBack
<1>3. ASSUME NEW iso5, HandleFileType(iso5) PROVE Counted' /\ LosesNothingBack
  <2>1. PICK bytes \in Nat : nextOffset' = nextOffset \/ nextOffset' = nextOffset + bytes
    BY <1>3, PlainIs DEF HandleFileType, muxer
  <2>2. UNCHANGED <<structure, accepted, references, lost>>
    BY <1>3 DEF HandleFileType, muxer
  <2> QED BY <1>1, <2>1, <2>2 DEF Counted, LosesNothingBack
<1>4. CASE Call
  BY <1>3, <1>4, MovieCounted, SamplesCounted, FinishCounted DEF Call
<1> QED BY <1>2, <1>4 DEF Next, Write, vars, muxer

LEMMA NextKeeps ==
  ASSUME IInv, Counted, [Next]_vars, lost'.free = 0
  PROVE  IInv'
<1>1. CASE UNCHANGED vars
  BY <1>1, Unchanged DEF vars, muxer
<1>2. CASE \E iso5 \in BOOLEAN : HandleFileType(iso5)
  BY <1>2, FileTypeKeeps
<1>3. CASE \E offered \in Movie : HandleMovie(offered)
  <2>1. ASSUME NEW offered, LoseMovie(offered) PROVE FALSE
    <3>1. lost.free \in Nat /\ lost'.free = lost.free + 1
      BY <2>1 DEF LoseMovie, Counted
    <3> QED BY <3>1
  <2> QED BY <1>3, <2>1, RefusedMovieKeeps, TakenMovieKeeps DEF HandleMovie
<1>4. CASE \E call \in Calls[structure] : HandleSamples(call)
  BY <1>4, SamplesKeep
<1>5. CASE Finish
  BY <1>5, FinishKeeps
<1>6. CASE Write
  BY <1>6, WriteKeeps
<1> QED BY <1>1, <1>2, <1>3, <1>4, <1>5, <1>6 DEF Next, Call

(* Wherever the sink stops, the disk is what one file of boxes starts with,*)
(* and the outputs are what is left of it, unless a refused call has lost  *)
(* a free: muxer.rs, BoxWriter, and the writers it composes.               *)
THEOREM InvariantHolds == Spec => []UnlessLost
<1>1. Init => UnlessLost
  <2>1. ASSUME Init PROVE Counted
    <3>1. Sequence(references)
      BY <2>1, EmptySequence DEF Init
    <3> QED BY <2>1, <3>1 DEF Init, Counted
  <2> QED BY <2>1, InitHolds DEF UnlessLost
<1>2. UnlessLost /\ [Next]_vars => UnlessLost'
  <2>1. SUFFICES ASSUME UnlessLost, [Next]_vars PROVE UnlessLost'
    OBVIOUS
  <2>2. Counted /\ Counted' /\ LosesNothingBack
    BY <2>1, CountedKeeps DEF UnlessLost
  <2>3. ASSUME lost'.free = 0 PROVE IInv'
    <3>1. lost.free = 0
      BY <2>2, <2>3 DEF Counted, LosesNothingBack
    <3> QED BY <2>1, <2>2, <2>3, <3>1, NextKeeps DEF UnlessLost
  <2> QED BY <2>2, <2>3 DEF UnlessLost
<1> QED BY <1>1, <1>2, PTL DEF Spec
-------------------------------------------------------------------------------
(* WHAT A READER FINDS                                                     *)

LEMMA OnDisk ==
  ASSUME NEW file, NEW starts, NEW place, NEW n, Inv(file, starts, place, n)
  PROVE  /\ Sequence(disk) /\ Len(disk) \in Nat /\ DOMAIN disk = 1..Len(disk)
         /\ Len(file) \in Nat /\ Len(disk) <= Len(file)
         /\ \A i \in 1..Len(disk) : disk[i] = file[i] /\ i \in DOMAIN file
         /\ \A o \in starts : /\ o \in Nat
                              /\ EndIn(file, o) \in Nat /\ o < EndIn(file, o)
                              /\ EndIn(file, o) <= Len(file)
                              /\ EndIn(file, o) = Len(file) \/ EndIn(file, o) \in starts
                              /\ \A p \in starts : o < p => EndIn(file, o) <= p
                              /\ o < Len(disk) => /\ disk[o + 1] = file[o + 1]
                                                  /\ IsBox(disk[o + 1])
                                                  /\ o + Total(o) = EndIn(file, o)
         /\ Len(disk) > 0 => 0 \in starts
<1>1. /\ Sequence(disk) /\ Len(disk) <= Len(file) /\ Sequence(file)
      /\ \A i \in DOMAIN disk : disk[i] = file[i]
  BY DEF Inv, Queued, Boxed
<1>2. /\ Len(disk) \in Nat /\ DOMAIN disk = 1..Len(disk)
      /\ Len(file) \in Nat /\ DOMAIN file = 1..Len(file)
  BY <1>1, SequenceShape
<1>3. Boxed(file, starts)
  BY DEF Inv
<1>4. Len(disk) > 0 => 0 \in starts
  BY <1>1, <1>2, <1>3 DEF Boxed
<1>5. ASSUME NEW o \in starts
      PROVE  /\ o \in Nat
             /\ EndIn(file, o) \in Nat /\ o < EndIn(file, o)
             /\ EndIn(file, o) <= Len(file)
             /\ EndIn(file, o) = Len(file) \/ EndIn(file, o) \in starts
             /\ \A p \in starts : o < p => EndIn(file, o) <= p
             /\ o < Len(disk) => /\ disk[o + 1] = file[o + 1]
                                 /\ IsBox(disk[o + 1])
                                 /\ o + Total(o) = EndIn(file, o)
  <2>1. /\ o \in Nat /\ o < Len(file) /\ IsBox(file[o + 1])
        /\ EndIn(file, o) <= Len(file)
        /\ EndIn(file, o) = Len(file) \/ EndIn(file, o) \in starts
        /\ \A p \in starts : o < p => EndIn(file, o) <= p
    BY <1>3 DEF Boxed
  <2>2. o + 1 \in DOMAIN file
    BY <2>1, <1>2
  <2>3. file[o + 1].total \in Nat \ {0}
    BY <2>1, <2>2, <1>3 DEF Boxed
  <2>4. EndIn(file, o) \in Nat /\ o < EndIn(file, o)
    BY <2>1, <2>3 DEF EndIn
  <2>5. o < Len(disk) => disk[o + 1] = file[o + 1]
    <3>1. o < Len(disk) => o + 1 \in DOMAIN disk
      BY <2>1, <1>2
    <3> QED BY <3>1, <1>1
  <2> QED BY <2>1, <2>4, <2>5 DEF EndIn, Total
<1>6. \A i \in 1..Len(disk) : i \in DOMAIN file
  BY <1>1, <1>2
<1> QED BY <1>1, <1>2, <1>4, <1>5, <1>6

TopStep(f) ==
  [o \in 0..Len(disk) |->
     IF o = Len(disk) \/ ~IsBox(disk[o + 1]) THEN {}
     ELSE {o} \cup IF o + disk[o + 1].total < Len(disk) THEN f[o + disk[o + 1].total] ELSE {}]

LEMMA TopLevelStep ==
  TopLevel = (CHOOSE f : f = TopStep(f))[0]
  BY Zenon DEF TopLevel, TopStep

(* The boxes a reader walks through are those of the file that start       *)
(* before what is on disk ends.                                            *)
LEMMA TopLevelIs ==
  ASSUME NEW file, NEW starts, NEW place, NEW n, Inv(file, starts, place, n)
  PROVE  TopLevel = {o \in starts : o < Len(disk)}
<1>1. PICK N \in Nat : N = Len(disk)
  BY OnDisk
<1> DEFINE stops == {o \in 0..N : o = N \/ ~IsBox(disk[o + 1])}
           own == [o \in 0..N |-> {o}]
           next == [o \in 0..N |-> o + disk[o + 1].total]
           lasts == {o \in 0..N : ~(o + disk[o + 1].total < N)}
           visited == {o \in starts : o < N}
<1>2. \A o \in 0..N : o \notin stops => disk[o + 1].total \in Nat \ {0}
  <2> SUFFICES ASSUME NEW o \in 0..N, o \notin stops
               PROVE  disk[o + 1].total \in Nat \ {0}
    OBVIOUS
  <2>1. o + 1 \in 1..Len(disk) /\ IsBox(disk[o + 1])
    BY <1>1
  <2>2. disk[o + 1] = file[o + 1] /\ o + 1 \in DOMAIN file
    BY <2>1, OnDisk
  <2> QED BY <2>1, <2>2 DEF Inv, Boxed
<1>3. Onward(N, stops, lasts, next)
  <2> SUFFICES ASSUME NEW o \in 0..N, o \notin stops, o \notin lasts
               PROVE  next[o] \in 0..N /\ next[o] > o
    BY DEF Onward
  <2>1. next[o] = o + disk[o + 1].total /\ next[o] < N
    OBVIOUS
  <2>2. disk[o + 1].total \in Nat \ {0}
    BY <1>2
  <2> HIDE DEF next
  <2> QED BY <2>1, <2>2
<1>4. \A f : TopStep(f) = [o \in 0..N |-> IF o \in stops THEN {}
                                          ELSE own[o] \cup (IF o \in lasts THEN {} ELSE f[next[o]])]
  <2> SUFFICES ASSUME NEW f
               PROVE  \A o \in 0..N :
                        (IF o = N \/ ~IsBox(disk[o + 1]) THEN {}
                         ELSE {o} \cup IF o + disk[o + 1].total < N
                                       THEN f[o + disk[o + 1].total] ELSE {})
                        = (IF o \in stops THEN {}
                           ELSE own[o] \cup (IF o \in lasts THEN {} ELSE f[next[o]]))
    BY <1>1 DEF TopStep
  <2> QED OBVIOUS
<1> HIDE DEF stops, own, next, lasts
<1>5. \A f : f = TopStep(f) <=> Walk(f, N, stops, lasts, own, next)
  BY <1>4 DEF Walk
<1>6. \E f : f = TopStep(f)
  BY <1>3, <1>5, WalkExists
<1>7. PICK first : first = CHOOSE f : f = TopStep(f)
  OBVIOUS
<1>8. Walk(first, N, stops, lasts, own, next)
  BY <1>5, <1>6, <1>7
<1>9. ASSUME NEW o \in visited
      PROVE  /\ o \in 0..N
             /\ o \notin stops
             /\ o \in lasts \/ next[o] \in stops => \A p \in visited : p <= o
             /\ o \notin lasts /\ next[o] \notin stops =>
                  next[o] \in visited /\ \A p \in visited : p > o => p >= next[o]
  <2>1. /\ o \in Nat /\ o < N
        /\ EndIn(file, o) \in Nat /\ o < EndIn(file, o)
        /\ EndIn(file, o) = Len(file) \/ EndIn(file, o) \in starts
        /\ \A p \in starts : o < p => EndIn(file, o) <= p
        /\ IsBox(disk[o + 1])
        /\ o + Total(o) = EndIn(file, o)
    BY <1>1, OnDisk
  <2>2. o \in 0..N /\ o \notin stops
    BY <2>1 DEF stops
  <2>3. /\ next[o] = EndIn(file, o)
        /\ o \in lasts <=> ~(EndIn(file, o) < N)
    BY <2>1, <2>2 DEF next, lasts, Total
  <2>4. \A p \in visited : p \in Nat /\ p < N /\ p \in starts
    BY <1>1, OnDisk
  <2>5. o \in lasts => \A p \in visited : p <= o
    BY <2>1, <2>3, <2>4
  <2>6. o \notin lasts => next[o] \in visited
    <3>1. N <= Len(file) /\ Len(file) \in Nat
      BY <1>1, OnDisk
    <3> QED BY <2>1, <2>3, <3>1
  <2>7. o \notin lasts => next[o] \notin stops
    <3>1. o \notin lasts => IsBox(disk[next[o] + 1]) /\ next[o] # N
      BY <2>1, <2>3, <2>6, <1>1, OnDisk
    <3> QED BY <3>1 DEF stops
  <2>8. \A p \in visited : p > o => p >= next[o]
    BY <2>1, <2>3, <2>4
  <2> QED BY <2>2, <2>5, <2>6, <2>7, <2>8
<1>10. \A o \in visited : first[o] = UNION {own[p] : p \in {p \in visited : p >= o}}
  <2>1. visited \subseteq 0..N
    BY <1>9
  <2>2. Visits(N, stops, lasts, next, visited)
    BY <2>1, <1>9 DEF Visits
  <2> HIDE DEF visited
  <2> QED BY <1>3, <1>8, <2>2, WalkCollects
<1>11. TopLevel = first[0]
  BY <1>7, TopLevelStep
<1>12. CASE N = 0
  <2>1. 0 \in stops /\ 0 \in 0..N
    BY <1>12 DEF stops
  <2>2. first[0] = {}
    BY <2>1, <1>8 DEF Walk
  <2>3. \A o \in starts : ~(o < N)
    BY <1>12, OnDisk, SMTT(60)
  <2> QED BY <1>1, <1>11, <2>2, <2>3
<1>13. CASE N # 0
  <2>1. 0 \in visited
    BY <1>1, <1>13, OnDisk
  <2>2. first[0] = UNION {own[p] : p \in {p \in visited : p >= 0}}
    BY <2>1, <1>10
  <2>3. \A p \in visited : p >= 0 /\ own[p] = {p}
    BY <1>9 DEF own
  <2>4. UNION {own[p] : p \in {p \in visited : p >= 0}} = visited
    <3> HIDE DEF visited
    <3> QED BY <2>3
  <2> QED BY <1>1, <1>11, <2>2, <2>4
<1> QED BY <1>12, <1>13

LEMMA OfTypeIs ==
  ASSUME NEW file, NEW starts, NEW place, NEW n, Inv(file, starts, place, n), NEW type
  PROVE  OfType(type) = {o \in starts : EndIn(file, o) <= Len(disk) /\ TypeIn(file, o) = type}
<1>1. TopLevel = {o \in starts : o < Len(disk)}
  BY TopLevelIs
<1>2. ASSUME NEW o \in starts
      PROVE  (o < Len(disk) /\ disk[o + 1].box = type /\ Whole(o))
             <=> EndIn(file, o) <= Len(disk) /\ TypeIn(file, o) = type
  <2>1. /\ o \in Nat /\ EndIn(file, o) \in Nat /\ o < EndIn(file, o) /\ Len(disk) \in Nat
        /\ o < Len(disk) => disk[o + 1] = file[o + 1] /\ o + Total(o) = EndIn(file, o)
    BY OnDisk
  <2>2. EndIn(file, o) <= Len(disk) => o < Len(disk)
    BY <2>1
  <2> QED BY <2>1, <2>2 DEF Whole, TypeIn
<1> QED BY <1>1, <1>2 DEF OfType

LEMMA LyingEndToEnd ==
  ASSUME IInv
  PROVE  LiesEndToEnd
<1>1. PICK file, starts, place, n : Inv(file, starts, place, n)
  BY DEF IInv
<1>2. TopLevel = {o \in starts : o < Len(disk)}
  BY <1>1, TopLevelIs
<1>3. Len(disk) \in Nat /\ DOMAIN disk = 1..Len(disk) /\ Len(file) \in Nat /\ Len(disk) <= Len(file)
  BY <1>1, OnDisk
<1>4. ASSUME disk # <<>> PROVE 0 \in TopLevel
  <2>1. Len(disk) # 0
    <3>1. disk = [i \in 1..Len(disk) |-> disk[i]]
      BY <1>1, OnDisk, SequenceShape
    <3> QED BY <3>1, <1>4
  <2> QED BY <2>1, <1>1, <1>2, <1>3, OnDisk
<1>5. ASSUME NEW o \in TopLevel
      PROVE  o + Total(o) >= Len(disk) \/ o + Total(o) \in TopLevel
  <2>1. /\ o + Total(o) = EndIn(file, o) /\ EndIn(file, o) \in Nat
        /\ EndIn(file, o) = Len(file) \/ EndIn(file, o) \in starts
    BY <1>1, <1>2, OnDisk
  <2> QED BY <2>1, <1>2, <1>3
<1>6. \A i \in DOMAIN disk : disk[i] # Hole
  BY <1>1, <1>3, OnDisk DEF Inv, Boxed
<1> QED BY <1>4, <1>5, <1>6 DEF LiesEndToEnd

(* The boxes written lie end to end, without a hole, wherever the sink     *)
(* stops and whatever calls are refused, until one of them loses a free it *)
(* had counted (Muxer::poll_output).                                       *)
THEOREM EndToEndHolds == Spec => []EndToEnd
<1>1. UnlessLost => EndToEnd
  BY LyingEndToEnd DEF UnlessLost, EndToEnd
<1> QED BY <1>1, InvariantHolds, PTL
-------------------------------------------------------------------------------
(* WHAT A STEP NEVER DOES                                                  *)

FreeWritten ==
  \A i \in DOMAIN disk :
    disk'[i] # disk[i] => \E o \in OfType("free") : i \in o + 1..o + Total(o)

LEMMA WritesOverFree ==
  ASSUME IInv, Write
  PROVE  FreeWritten
<1>1. PICK file, starts, place, n : Inv(file, starts, place, n)
  BY DEF IInv
<1>2. output # <<>>
  BY DEF Write
<1>3. DOMAIN disk = 1..Len(disk) /\ Len(disk) \in Nat
  BY <1>1, OnDisk
<1>4. CASE n > 0
  BY <1>1, <1>3, <1>4, WriteBehindKeeps DEF FreeWritten
<1>5. CASE ~(n > 0)
  <2>1. disk = file
    BY <1>1, <1>2, <1>5, OverIs
  <2>2. PICK p, cells : FreeAt(file, starts, p, Len(cells)) /\ Overwritten(disk', file, p, cells)
    BY <1>1, <1>2, <1>5, HeaderKeeps, IndexKeeps
  <2>3. /\ p \in starts /\ TypeIn(file, p) = "free" /\ TotalIn(file, p) = Len(cells)
    BY <2>2 DEF FreeAt
  <2>4. /\ p \in Nat /\ EndIn(file, p) <= Len(file) /\ EndIn(file, p) \in Nat /\ p < EndIn(file, p)
        /\ p < Len(disk) => p + Total(p) = EndIn(file, p)
    BY <1>1, <2>3, OnDisk
  <2>5. EndIn(file, p) <= Len(disk) /\ p < Len(disk)
    BY <2>1, <2>4, <1>3
  <2>6. p \in OfType("free") /\ p + Total(p) = p + Len(cells)
    BY <1>1, <2>3, <2>4, <2>5, OfTypeIs DEF EndIn, TotalIn
  <2>7. ASSUME NEW i \in DOMAIN disk, disk'[i] # disk[i] PROVE i \in p + 1..p + Total(p)
    <3>1. i \in 1..Len(file)
      BY <2>1, <1>3
    <3>2. p < i /\ i <= p + Len(cells)
      BY <3>1, <2>1, <2>2, <2>7 DEF Overwritten
    <3>3. p + Len(cells) \in Nat
      BY <2>4, <2>5, <2>6
    <3> QED BY <3>1, <3>2, <3>3, <2>4, <2>6
  <2> QED BY <2>6, <2>7 DEF FreeWritten
<1> QED BY <1>4, <1>5

LEMMA CallsKeepDisk ==
  ASSUME Call
  PROVE  UNCHANGED disk
<1>1. ASSUME NEW iso5, HandleFileType(iso5) PROVE UNCHANGED disk
  BY <1>1 DEF HandleFileType
<1>2. ASSUME NEW offered, HandleMovie(offered) PROVE UNCHANGED disk
  BY <1>2 DEF HandleMovie, RefuseMovie, LoseMovie, TakeMovie
<1>3. ASSUME NEW call, HandleSamples(call) PROVE UNCHANGED disk
  BY <1>3 DEF HandleSamples
<1>4. ASSUME Finish PROVE UNCHANGED disk
  BY <1>4 DEF Finish
<1> QED BY <1>1, <1>2, <1>3, <1>4 DEF Call

(* What is on disk is written over only where it is a free box, until a    *)
(* refused call loses a free it had counted.                               *)
THEOREM OverwritesFreeHolds == Spec => OverwritesFree
<1> DEFINE A == lost.free = 0 => FreeWritten
<1>1. UnlessLost /\ [Next]_vars => [A]_vars
  <2>1. ASSUME UnlessLost, Write PROVE A
    BY <2>1, WritesOverFree DEF UnlessLost
  <2>2. ASSUME Call PROVE A
    BY <2>2, CallsKeepDisk DEF FreeWritten
  <2> QED BY <2>1, <2>2 DEF Next
<1>2. Spec => [][A]_vars
  BY <1>1, InvariantHolds, PTL DEF Spec
<1>3. A => \A i \in DOMAIN disk :
             lost.free = 0 /\ disk'[i] # disk[i] =>
               \E o \in OfType("free") : i \in o + 1..o + Total(o)
  BY DEF FreeWritten
<1> QED BY <1>2, <1>3, PTL DEF OverwritesFree

(* What a refused call changes, and what a call that loses a box does.     *)
OnlyLoses ==
  result' = "refused" =>
    /\ UNCHANGED <<structure, movie, output, placeholder, fileType, finished, tables, accepted>>
    /\ lost' = lost => UNCHANGED muxer
    /\ nextOffset' - nextOffset = IF lost'.free = lost.free THEN 0
                                  ELSE IF movie THEN SegmentIndexBytes ELSE 2 * HeaderBytes
    /\ lost'.moof # lost.moof /\ Indexed => Len(references') = Len(references) + 1

LEMMA UnchangedOnlyLoses ==
  ASSUME Counted, result' = "refused" => UNCHANGED <<muxer, output, lost>>
  PROVE  OnlyLoses
<1>1. nextOffset \in Nat
  BY DEF Counted
<1> QED BY <1>1 DEF OnlyLoses, muxer

LEMMA LoseMovieOnlyLoses ==
  ASSUME Counted, NEW offered, LoseMovie(offered)
  PROVE  OnlyLoses
<1>1. /\ nextOffset \in Nat /\ HeaderBytes \in Nat /\ lost \in [free : Nat, moof : Nat]
      /\ lost.free \in Nat
  BY HeaderBytesType DEF Counted
<1>2. nextOffset' = nextOffset + 2 * HeaderBytes /\ ~movie
  BY DEF LoseMovie
<1>3. lost'.free = lost.free + 1 /\ lost'.moof = lost.moof
  BY <1>1 DEF LoseMovie
<1>4. lost'.free # lost.free /\ lost' # lost
  BY <1>1, <1>3
<1>5. nextOffset' - nextOffset = 2 * HeaderBytes
  BY ONLY <1>1, <1>2
<1> QED BY <1>2, <1>3, <1>4, <1>5 DEF LoseMovie, OnlyLoses

LEMMA LoseFragmentOnlyLoses ==
  ASSUME Counted, movie, NEW call, LoseFragment(call)
  PROVE  OnlyLoses
<1>1. /\ nextOffset \in Nat /\ structure \in Structures /\ lost.free \in Nat /\ lost.moof \in Nat
      /\ Sequence(references)
  BY DEF Counted
<1>2. Reserving \in Nat /\ (Reserving > 0 => Reserving = SegmentIndexBytes)
  BY <1>1, ReservingIs
<1>3. /\ nextOffset' = nextOffset + Reserving
      /\ lost' = [free |-> lost.free + (IF Reserving > 0 THEN 1 ELSE 0), moof |-> lost.moof + 1]
      /\ Indexed => references' = ReferencesWith(call)
  BY DEF LoseFragment, CountFragment
<1>4. /\ lost'.free = lost.free + (IF Reserving > 0 THEN 1 ELSE 0)
      /\ lost'.moof = lost.moof + 1
  BY <1>3
<1>5. lost' # lost
  BY <1>1, <1>4
<1>6. nextOffset' - nextOffset = IF lost'.free = lost.free THEN 0 ELSE SegmentIndexBytes
  <2> HIDE DEF Reserving, SegmentIndexBytes
  <2>1. CASE Reserving > 0
    BY ONLY <1>1, <1>2, <1>3, <1>4, <2>1
  <2>2. CASE ~(Reserving > 0)
    BY ONLY <1>1, <1>2, <1>3, <1>4, <2>2
  <2> QED BY <2>1, <2>2
<1>7. Indexed => Len(references') = Len(references) + 1
  BY <1>1, <1>3, ReferencesAre
<1> QED BY <1>5, <1>6, <1>7 DEF LoseFragment, OnlyLoses

LEMMA CallsRefuse ==
  ASSUME Counted, Call
  PROVE  OnlyLoses
<1>1. ASSUME NEW iso5, HandleFileType(iso5) PROVE OnlyLoses
  BY <1>1, UnchangedOnlyLoses DEF HandleFileType
<1>2. ASSUME NEW offered, HandleMovie(offered) PROVE OnlyLoses
  <2>1. CASE RefuseMovie(offered)
    BY <2>1, UnchangedOnlyLoses DEF RefuseMovie
  <2>2. CASE LoseMovie(offered)
    BY <2>2, LoseMovieOnlyLoses
  <2>3. CASE TakeMovie(offered)
    BY <2>3, UnchangedOnlyLoses DEF TakeMovie
  <2> QED BY <1>2, <2>1, <2>2, <2>3 DEF HandleMovie
<1>3. ASSUME NEW call, HandleSamples(call) PROVE OnlyLoses
  <2>1. CASE movie /\ LoseFragment(call)
    BY <2>1, LoseFragmentOnlyLoses
  <2>2. CASE ~(movie /\ LoseFragment(call))
    <3>1. WriteFragment(call) \/ TableSamples(call) => (result' = "refused" => UNCHANGED <<muxer, output, lost>>)
      BY DEF WriteFragment, TableSamples
    <3>2. result' = "refused" => UNCHANGED <<muxer, output, lost>>
      BY <1>3, <2>2, <3>1 DEF HandleSamples, FragmentSamples
    <3> QED BY <3>2, UnchangedOnlyLoses
  <2> QED BY <2>1, <2>2
<1>4. ASSUME Finish PROVE OnlyLoses
  <2>1. result' = "refused" => UNCHANGED <<muxer, output, lost>>
    BY <1>4 DEF Finish, RefuseFinish, FinishTables, FinishRecoverable, FinishFragmented,
                FinishSegment, FailFinish
  <2> QED BY <2>1, UnchangedOnlyLoses
<1> QED BY <1>1, <1>2, <1>3, <1>4 DEF Call

(* A refused call takes no sample and puts nothing out, and changes the    *)
(* muxer only where it loses a box: by the length of the placeholder of a  *)
(* recoverable file or of the space for a sidx, and by a subsegment        *)
(* referenced that is not there (Muxer::handle_movie and handle_samples).  *)
THEOREM RefusedOnlyLosesHolds == Spec => RefusedOnlyLoses
<1>1. UnlessLost /\ [Next]_vars => [OnlyLoses]_vars
  <2>1. ASSUME UnlessLost, Call PROVE OnlyLoses
    BY <2>1, CallsRefuse DEF UnlessLost
  <2>2. ASSUME Write PROVE OnlyLoses
    BY <2>2 DEF Write, OnlyLoses
  <2> QED BY <2>1, <2>2 DEF Next
<1>2. Spec => [][OnlyLoses]_vars
  BY <1>1, InvariantHolds, PTL DEF Spec
<1> QED BY <1>2 DEF RefusedOnlyLoses, OnlyLoses
-------------------------------------------------------------------------------
(* WHAT THE BOXES DECLARE TO A READER                                      *)

EndsAt(o) == o = Len(disk) \/ ~IsBox(disk[o + 1]) \/ ~Whole(o)

IsMoov(o) == disk[o + 1].box = "moov"

BehindStep(f) ==
  [o \in 0..Len(disk) |-> IF EndsAt(o) \/ IsMoov(o) THEN {} ELSE DeclaredAt(o) \cup f[o + Total(o)]]

FromStep(behind, f) ==
  [o \in 0..Len(disk) |->
     IF EndsAt(o) THEN {}
     ELSE DeclaredAt(o) \cup IF IsMoov(o) THEN behind[o + Total(o)] ELSE f[o + Total(o)]]

LEMMA DeclaredStep ==
  Declared = (CHOOSE f : f = FromStep(CHOOSE behind : behind = BehindStep(behind), f))[0]
  BY Zenon DEF Declared, FromStep, BehindStep, EndsAt, IsMoov

(* A moov behind another is the last box.                                  *)
Sole(file, starts) ==
  \A o \in starts, p \in starts :
    p < o /\ TypeIn(file, o) = "moov" /\ TypeIn(file, p) = "moov" => EndIn(file, o) = Len(file)

(* A reader reads every whole box but a second moov.                       *)
Read(file, starts) ==
  {o \in starts : /\ EndIn(file, o) <= Len(disk)
                  /\ TypeIn(file, o) = "moov" => \A p \in starts : p < o => TypeIn(file, p) # "moov"}

(* Where a reader goes on.                                                 *)
LEMMA ReadsOn ==
  ASSUME NEW file, NEW starts, NEW place, NEW n, Inv(file, starts, place, n),
         NEW N \in Nat, N = Len(disk)
  PROVE  /\ \A o \in 0..N : ~EndsAt(o) => o + Total(o) \in 0..N /\ o + Total(o) > o
         /\ \A o \in starts :
              EndIn(file, o) <= N =>
                /\ o \in 0..N /\ ~EndsAt(o) /\ o + Total(o) = EndIn(file, o)
                /\ o < EndIn(file, o) /\ EndIn(file, o) \in 0..N
                /\ IsMoov(o) <=> TypeIn(file, o) = "moov"
                /\ EndIn(file, o) = N \/ EndIn(file, o) \in starts
                /\ \A p \in starts : o < p => EndIn(file, o) <= p
         /\ \A o \in starts : o < N /\ ~(EndIn(file, o) <= N) => EndsAt(o)
<1>1. ASSUME NEW o \in 0..N, ~EndsAt(o) PROVE o + Total(o) \in 0..N /\ o + Total(o) > o
  <2>1. o + 1 \in 1..Len(disk) /\ IsBox(disk[o + 1]) /\ o + Total(o) <= N
    BY <1>1 DEF EndsAt, Whole
  <2>2. disk[o + 1] = file[o + 1] /\ o + 1 \in DOMAIN file
    BY <2>1, OnDisk
  <2>3. Total(o) \in Nat \ {0}
    BY <2>1, <2>2 DEF Inv, Boxed, Total
  <2> QED BY <2>1, <2>3
<1>2. ASSUME NEW o \in starts, EndIn(file, o) <= N
      PROVE  /\ o \in 0..N /\ ~EndsAt(o) /\ o + Total(o) = EndIn(file, o)
             /\ o < EndIn(file, o) /\ EndIn(file, o) \in 0..N
             /\ IsMoov(o) <=> TypeIn(file, o) = "moov"
             /\ EndIn(file, o) = N \/ EndIn(file, o) \in starts
             /\ \A p \in starts : o < p => EndIn(file, o) <= p
  <2>1. /\ o \in Nat /\ EndIn(file, o) \in Nat /\ o < EndIn(file, o)
        /\ EndIn(file, o) = Len(file) \/ EndIn(file, o) \in starts
        /\ \A p \in starts : o < p => EndIn(file, o) <= p
        /\ N <= Len(file) /\ Len(file) \in Nat
    BY OnDisk
  <2>2. o < N /\ o \in 0..N /\ EndIn(file, o) \in 0..N
    BY <2>1, <1>2
  <2>3. disk[o + 1] = file[o + 1] /\ IsBox(disk[o + 1]) /\ o + Total(o) = EndIn(file, o)
    BY <2>2, OnDisk
  <2>4. ~EndsAt(o)
    BY <2>2, <2>3, <1>2 DEF EndsAt, Whole
  <2>5. IsMoov(o) <=> TypeIn(file, o) = "moov"
    BY <2>3 DEF IsMoov, TypeIn
  <2>6. EndIn(file, o) = N \/ EndIn(file, o) \in starts
    BY <2>1, <1>2
  <2> QED BY <2>1, <2>2, <2>3, <2>4, <2>5, <2>6
<1>3. ASSUME NEW o \in starts, o < N, ~(EndIn(file, o) <= N) PROVE EndsAt(o)
  <2>1. o + Total(o) = EndIn(file, o)
    BY <1>3, OnDisk
  <2> QED BY <2>1, <1>3 DEF EndsAt, Whole
<1> QED BY <1>1, <1>2, <1>3

(* The boxes behind the first moov.                                        *)
ReadBehind(file, starts, m) ==
  {o \in starts : m < o /\ EndIn(file, o) <= Len(disk) /\ TypeIn(file, o) # "moov"}

IsBehind(behind) == behind = CHOOSE f : f = BehindStep(f)

LEMMA BehindIs ==
  ASSUME NEW file, NEW starts, NEW place, NEW n, Inv(file, starts, place, n), Sole(file, starts),
         NEW m \in starts, EndIn(file, m) <= Len(disk), TypeIn(file, m) = "moov",
         NEW behind, IsBehind(behind)
  PROVE  behind[m + Total(m)] = UNION {DeclaredAt(o) : o \in ReadBehind(file, starts, m)}
<1>1. PICK N \in Nat : N = Len(disk)
  BY OnDisk
<1> DEFINE stops == {o \in 0..N : EndsAt(o) \/ IsMoov(o)}
           own == [o \in 0..N |-> DeclaredAt(o)]
           next == [o \in 0..N |-> o + Total(o)]
           visited == ReadBehind(file, starts, m)
<1>17. PICK lasts : lasts = {}
  OBVIOUS
<1>2. \A o \in 0..N : ~EndsAt(o) => o + Total(o) \in 0..N /\ o + Total(o) > o
  BY <1>1, ReadsOn
<1>3. \A o \in starts :
        EndIn(file, o) <= N =>
          /\ o \in 0..N /\ ~EndsAt(o) /\ o + Total(o) = EndIn(file, o)
          /\ o < EndIn(file, o) /\ EndIn(file, o) \in 0..N
          /\ IsMoov(o) <=> TypeIn(file, o) = "moov"
          /\ EndIn(file, o) = N \/ EndIn(file, o) \in starts
          /\ \A p \in starts : o < p => EndIn(file, o) <= p
  BY <1>1, ReadsOn
<1>4. \A o \in starts : o < N /\ ~(EndIn(file, o) <= N) => EndsAt(o)
  BY <1>1, ReadsOn
<1>5. \A o \in visited : /\ o \in starts /\ o \in 0..N /\ m < o /\ EndIn(file, o) <= N
                         /\ TypeIn(file, o) # "moov"
                         /\ o < N
  BY <1>1, <1>3 DEF ReadBehind
<1>6. \A o \in starts : EndIn(file, o) <= N => next[o] = EndIn(file, o) /\ own[o] = DeclaredAt(o)
  BY <1>3
<1>7. Onward(N, stops, lasts, next)
  BY <1>2 DEF Onward
<1>8. ASSUME NEW f PROVE f = BehindStep(f) <=> Walk(f, N, stops, lasts, own, next)
  <2>1. BehindStep(f) = [o \in 0..N |-> IF o \in stops THEN {}
                                        ELSE own[o] \cup (IF o \in lasts THEN {} ELSE f[next[o]])]
    BY <1>1, <1>17 DEF BehindStep
  <2> QED BY <2>1 DEF Walk
<1>9. \A o \in 0..N : o \in stops <=> EndsAt(o) \/ IsMoov(o)
  OBVIOUS
<1> HIDE DEF stops, own, next
<1>10. Walk(behind, N, stops, lasts, own, next)
  <2>1. \E f : f = BehindStep(f)
    BY <1>7, <1>8, WalkExists
  <2> QED BY <2>1, <1>8 DEF IsBehind
<1>11. N <= Len(file) /\ Len(file) \in Nat
  BY <1>1, OnDisk
<1>12. ASSUME NEW o \in starts, EndIn(file, o) <= N, m <= o
       PROVE  /\ next[o] \in stops => \A p \in visited : ~(o < p)
              /\ next[o] \notin stops =>
                   next[o] \in visited /\ \A p \in visited : p > o => p >= next[o]
  <2> DEFINE e == EndIn(file, o)
  <2>1. /\ e \in 0..N /\ o < e /\ (e = N \/ e \in starts) /\ next[o] = e /\ o \in 0..N /\ m \in 0..N
        /\ \A p \in starts : o < p => e <= p
    BY <1>1, <1>3, <1>6, <1>12
  <2> HIDE DEF e
  <2>2. m < e
    BY <2>1, <1>12
  <2>3. ASSUME e \in stops, NEW p \in visited, o < p PROVE FALSE
    <3>1. p \in starts /\ p \in 0..N /\ p < N /\ e <= p /\ EndIn(file, p) <= N /\ TypeIn(file, p) # "moov"
      BY <2>1, <2>3, <1>5
    <3>2. e \in starts
      BY <3>1, <2>1
    <3>3. EndIn(file, e) <= N /\ (e < p => EndIn(file, e) <= p)
      <4>1. CASE e = p
        BY <4>1, <3>1
      <4>2. CASE e # p
        <5>1. e < p /\ e < N
          BY <4>2, <3>1, <2>1
        <5>2. EndIn(file, e) <= p /\ EndIn(file, e) \in Nat
          BY <5>1, <3>1, <3>2, OnDisk
        <5> QED BY <5>2, <3>1
      <4> QED BY <4>1, <4>2
    <3>4. ~EndsAt(e) /\ (IsMoov(e) <=> TypeIn(file, e) = "moov")
      BY <3>2, <3>3, <1>3
    <3>5. TypeIn(file, e) = "moov"
      BY <3>4, <2>1, <2>3, <1>9
    <3>6. e < p
      BY <3>1, <3>5, <2>1
    <3>7. EndIn(file, e) = Len(file)
      BY <3>2, <3>5, <2>2 DEF Sole
    <3> QED BY <3>1, <3>3, <3>6, <3>7, <1>11
  <2>4. ASSUME e \notin stops PROVE e \in visited
    <3>1. ~EndsAt(e) /\ ~IsMoov(e)
      BY <2>1, <2>4, <1>9
    <3>2. e # N
      BY <3>1, <1>1 DEF EndsAt
    <3>3. e \in starts /\ e < N
      BY <3>2, <2>1
    <3>4. EndIn(file, e) <= N
      BY <3>1, <3>3, <1>4
    <3>5. TypeIn(file, e) # "moov"
      BY <3>1, <3>3, <3>4, <1>3
    <3> QED BY <3>3, <3>4, <3>5, <2>2, <1>1 DEF ReadBehind
  <2>5. \A p \in visited : p > o => p >= e
    <3>1. \A p \in visited : p \in starts /\ p \in 0..N
      BY <1>5
    <3> QED BY <3>1, <2>1
  <2> QED BY <2>1, <2>3, <2>4, <2>5
<1>13. \A o \in visited : behind[o] = UNION {own[p] : p \in {p \in visited : p >= o}}
  <2>1. visited \subseteq 0..N
    BY <1>5
  <2>2. ASSUME NEW o \in visited
        PROVE  /\ o \notin stops
               /\ o \in lasts \/ next[o] \in stops => \A p \in visited : p <= o
               /\ o \notin lasts /\ next[o] \notin stops =>
                    next[o] \in visited /\ \A p \in visited : p > o => p >= next[o]
    <3>1. o \in starts /\ o \in 0..N /\ m < o /\ EndIn(file, o) <= N /\ TypeIn(file, o) # "moov"
      BY <1>5
    <3>2. o \notin stops
      BY <3>1, <1>3, <1>9
    <3>3. m <= o
      BY <3>1, <1>1, <1>3
    <3>4. \A p \in visited : p \in 0..N
      BY <1>5
    <3> HIDE DEF visited
    <3> QED BY <3>1, <3>2, <3>3, <3>4, <1>12, <1>17
  <2>3. N \in Nat
    BY <1>1
  <2>4. Visits(N, stops, lasts, next, visited)
    BY <2>1, <2>2 DEF Visits
  <2> HIDE DEF visited
  <2> QED BY <2>3, <2>4, <1>7, <1>10, WalkCollects
<1>14. m + Total(m) = next[m] /\ m <= m /\ EndIn(file, m) <= N /\ next[m] \in 0..N /\ m < next[m] /\ m \in 0..N
  BY <1>1, <1>3, <1>6
<1>15. CASE next[m] \in stops
  <2>1. behind[next[m]] = {}
    BY <1>10, <1>14, <1>15, <1>17 DEF Walk
  <2>2. visited = {}
    <3>1. \A p \in visited : m < p
      BY <1>5
    <3> HIDE DEF visited
    <3> QED BY <3>1, <1>12, <1>14, <1>15
  <2> QED BY <2>1, <2>2, <1>14
<1>16. CASE next[m] \notin stops
  <2>1. next[m] \in visited /\ \A p \in visited : p > m => p >= next[m]
    BY <1>12, <1>14, <1>16
  <2>2. behind[next[m]] = UNION {own[p] : p \in {p \in visited : p >= next[m]}}
    BY <2>1, <1>13
  <2>3. \A p \in visited : p >= next[m] /\ own[p] = DeclaredAt(p)
    <3>1. \A p \in visited : p \in starts /\ m < p /\ p \in 0..N /\ EndIn(file, p) <= N
      BY <1>5
    <3> HIDE DEF visited
    <3> QED BY <3>1, <2>1, <1>6, <1>14
  <2>4. UNION {own[p] : p \in {p \in visited : p >= next[m]}} = UNION {DeclaredAt(p) : p \in visited}
    <3> HIDE DEF visited
    <3> QED BY <2>3
  <2> QED BY <2>2, <2>4, <1>14
<1> QED BY <1>15, <1>16

(* The boxes up to the first moov.                                         *)
ReadFirst(file, starts) ==
  {o \in starts : /\ EndIn(file, o) <= Len(disk)
                  /\ \A p \in starts : p < o => TypeIn(file, p) # "moov"}

IsFrom(behind, from) == from = CHOOSE f : f = FromStep(behind, f)

LEMMA FromIs ==
  ASSUME NEW file, NEW starts, NEW place, NEW n, Inv(file, starts, place, n),
         NEW behind, NEW from, IsFrom(behind, from)
  PROVE  from[0] = UNION {DeclaredAt(o) \cup (IF IsMoov(o) THEN behind[o + Total(o)] ELSE {}) :
                            o \in ReadFirst(file, starts)}
<1>1. PICK N \in Nat : N = Len(disk)
  BY OnDisk
<1> DEFINE stops == {o \in 0..N : EndsAt(o)}
           Own(o) == DeclaredAt(o) \cup (IF IsMoov(o) THEN behind[o + Total(o)] ELSE {})
           own == [o \in 0..N |-> Own(o)]
           next == [o \in 0..N |-> o + Total(o)]
           visited == ReadFirst(file, starts)
<1>17. PICK lasts : lasts = {o \in 0..N : IsMoov(o)}
  OBVIOUS
<1>2. \A o \in 0..N : ~EndsAt(o) => o + Total(o) \in 0..N /\ o + Total(o) > o
  BY <1>1, ReadsOn
<1>3. \A o \in starts :
        EndIn(file, o) <= N =>
          /\ o \in 0..N /\ ~EndsAt(o) /\ o + Total(o) = EndIn(file, o)
          /\ o < EndIn(file, o) /\ EndIn(file, o) \in 0..N
          /\ IsMoov(o) <=> TypeIn(file, o) = "moov"
          /\ EndIn(file, o) = N \/ EndIn(file, o) \in starts
          /\ \A p \in starts : o < p => EndIn(file, o) <= p
  BY <1>1, ReadsOn
<1>4. \A o \in starts : o < N /\ ~(EndIn(file, o) <= N) => EndsAt(o)
  BY <1>1, ReadsOn
<1>5. \A o \in visited : /\ o \in starts /\ o \in 0..N /\ EndIn(file, o) <= N /\ o < N
                         /\ \A p \in starts : p < o => TypeIn(file, p) # "moov"
  BY <1>1, <1>3 DEF ReadFirst
<1>6. \A o \in 0..N : own[o] = Own(o) /\ next[o] = o + Total(o)
  OBVIOUS
<1>7. Onward(N, stops, lasts, next)
  BY <1>2 DEF Onward
<1>8. ASSUME NEW f PROVE f = FromStep(behind, f) <=> Walk(f, N, stops, lasts, own, next)
  <2>1. \A o \in 0..N :
          (IF EndsAt(o) THEN {}
           ELSE DeclaredAt(o) \cup IF IsMoov(o) THEN behind[o + Total(o)] ELSE f[o + Total(o)])
          = (IF o \in stops THEN {} ELSE own[o] \cup (IF o \in lasts THEN {} ELSE f[next[o]]))
    BY <1>17
  <2>2. FromStep(behind, f) = [o \in 0..N |-> IF o \in stops THEN {}
                                 ELSE own[o] \cup (IF o \in lasts THEN {} ELSE f[next[o]])]
    BY <1>1, <2>1 DEF FromStep
  <2> QED BY <2>2 DEF Walk
<1>9. \A o \in 0..N : (o \in stops <=> EndsAt(o)) /\ (o \in lasts <=> IsMoov(o))
  BY <1>17
<1> HIDE DEF stops, own, next
<1>10. Walk(from, N, stops, lasts, own, next)
  <2>1. \E f : f = FromStep(behind, f)
    BY <1>7, <1>8, WalkExists
  <2> QED BY <2>1, <1>8 DEF IsFrom
<1> HIDE DEF Own
<1>11. N <= Len(file) /\ Len(file) \in Nat
  BY <1>1, OnDisk
<1>18. \A q \in starts : ~(q < 0)
  <2>1. \A q \in starts : q \in Nat
    BY OnDisk
  <2> QED BY <2>1
<1>12. ASSUME NEW o \in visited
       PROVE  /\ o \notin stops
              /\ o \in lasts \/ next[o] \in stops => \A p \in visited : p <= o
              /\ o \notin lasts /\ next[o] \notin stops =>
                   next[o] \in visited /\ \A p \in visited : p > o => p >= next[o]
  <2> DEFINE e == EndIn(file, o)
  <2>1. /\ e \in 0..N /\ o < e /\ (e = N \/ e \in starts) /\ next[o] = e /\ o \in 0..N
        /\ \A p \in starts : o < p => e <= p
        /\ o \in starts /\ ~EndsAt(o) /\ (IsMoov(o) <=> TypeIn(file, o) = "moov")
    <3>1. o \in starts /\ EndIn(file, o) <= N /\ o \in 0..N
      BY <1>5, <1>12
    <3>2. next[o] = o + Total(o)
      BY <3>1, <1>6
    <3> QED BY <3>1, <3>2, <1>3
  <2>2. \A p \in visited : /\ p \in starts /\ p \in 0..N /\ p < N /\ EndIn(file, p) <= N
                           /\ \A q \in starts : q < p => TypeIn(file, q) # "moov"
    BY <1>5
  <2>3. \A p \in starts : p \in Nat
    BY OnDisk
  <2>4. \A p \in starts : p < N /\ e \in starts /\ e < p => EndIn(file, e) <= p /\ EndIn(file, e) \in Nat
    BY OnDisk
  <2> HIDE DEF e, visited
  <2>5. ASSUME o \in lasts, NEW p \in visited PROVE p <= o
    <3>1. TypeIn(file, o) = "moov"
      BY <2>1, <2>5, <1>9
    <3> QED BY <3>1, <2>1, <2>2
  <2>6. ASSUME e \in stops, NEW p \in visited PROVE p <= o
    <3>1. SUFFICES ASSUME o < p PROVE FALSE
      BY <2>1, <2>2
    <3>2. e <= p /\ e < N /\ e \in starts
      BY <3>1, <2>1, <2>2
    <3>3. EndIn(file, e) <= N
      <4>1. CASE e = p
        BY <4>1, <2>2
      <4>2. CASE e # p
        <5>1. p \in starts /\ p < N /\ e < p /\ p \in 0..N
          BY <4>2, <3>2, <2>1, <2>2
        <5>2. EndIn(file, e) <= p /\ EndIn(file, e) \in Nat
          BY <5>1, <3>2, <2>4
        <5> QED BY <5>1, <5>2
      <4> QED BY <4>1, <4>2
    <3>4. ~EndsAt(e)
      BY <3>2, <3>3, <1>3
    <3> QED BY <3>4, <2>1, <2>6, <1>9
  <2>7. ASSUME o \notin lasts, e \notin stops PROVE e \in visited
    <3>1. ~EndsAt(e)
      BY <2>1, <2>7, <1>9
    <3>2. e # N
      BY <3>1, <1>1 DEF EndsAt
    <3>3. e \in starts /\ e < N
      BY <3>2, <2>1
    <3>4. EndIn(file, e) <= N
      BY <3>1, <3>3, <1>4
    <3>5. ASSUME NEW p \in starts, p < e PROVE TypeIn(file, p) # "moov"
      <4>1. p <= o
        BY <3>5, <2>1, <2>3
      <4>2. CASE p < o
        BY <4>2, <2>2
      <4>3. CASE p = o
        BY <4>3, <2>1, <2>7, <1>9
      <4> QED BY <4>1, <4>2, <4>3, <2>1, <2>3
    <3> QED BY <3>3, <3>4, <3>5, <1>1 DEF ReadFirst, visited
  <2>8. \A p \in visited : p > o => p >= e
    BY <2>1, <2>2
  <2>9. o \notin stops
    BY <2>1, <1>9
  <2> QED BY <2>1, <2>5, <2>6, <2>7, <2>8, <2>9
<1>13. \A o \in visited : from[o] = UNION {own[p] : p \in {p \in visited : p >= o}}
  <2>1. visited \subseteq 0..N
    BY <1>5
  <2>2. N \in Nat
    BY <1>1
  <2>3. Visits(N, stops, lasts, next, visited)
    BY <2>1, <1>12 DEF Visits
  <2> HIDE DEF visited
  <2> QED BY <2>2, <2>3, <1>7, <1>10, WalkCollects
<1>14. UNION {own[p] : p \in visited} = UNION {Own(p) : p \in visited}
  <2>1. \A p \in visited : own[p] = Own(p)
    BY <1>5, <1>6
  <2> HIDE DEF visited
  <2> QED BY <2>1
<1>15. from[0] = UNION {own[p] : p \in visited}
  <2>1. CASE 0 \in visited
    <3>1. from[0] = UNION {own[p] : p \in {p \in visited : p >= 0}}
      BY <2>1, <1>13
    <3>2. \A p \in visited : p \in 0..N
      BY <1>5
    <3>3. \A p \in visited : p >= 0
      BY <3>2
    <3> HIDE DEF visited
    <3>4. {p \in visited : p >= 0} = visited
      BY <3>3
    <3> QED BY <3>1, <3>4
  <2>2. CASE 0 \notin visited
    <3>1. EndsAt(0)
      <4>1. CASE N = 0
        BY <4>1, <1>1 DEF EndsAt
      <4>2. CASE N > 0
        <5>1. Len(file) > 0
          BY <4>2, <1>1, <1>11
        <5>2. 0 \in starts
          BY <5>1 DEF Inv, Boxed
        <5>4. ~(EndIn(file, 0) <= N)
          BY <5>2, <1>18, <2>2, <1>1 DEF ReadFirst
        <5> QED BY <5>2, <5>4, <4>2, <1>4
      <4> QED BY <4>1, <4>2, <1>1
    <3>2. from[0] = {}
      <4>1. 0 \in 0..N
        BY <1>1
      <4>2. 0 \in stops
        BY <4>1, <3>1, <1>9
      <4> QED BY <4>1, <4>2, <1>10 DEF Walk
    <3>3. visited = {}
      <4>1. SUFFICES ASSUME NEW p \in visited PROVE FALSE
        BY Zenon
      <4>2. p \in starts /\ p \in 0..N /\ p < N /\ EndIn(file, p) <= N
        BY <1>5
      <4>3. Len(file) > 0
        BY <4>2, <1>1, <1>11
      <4>4. 0 \in starts
        BY <4>3 DEF Inv, Boxed
      <4>6. EndIn(file, 0) <= N
        <5>1. CASE p = 0
          BY <5>1, <4>2
        <5>2. CASE p # 0
          <6>1. 0 < p
            BY <5>2, <4>2
          <6>2. EndIn(file, 0) <= p /\ EndIn(file, 0) \in Nat
            BY <6>1, <4>2, <4>4, OnDisk
          <6> QED BY <6>2, <4>2
        <5> QED BY <5>1, <5>2
      <4>7. 0 \in visited
        BY <4>4, <1>18, <4>6, <1>1 DEF ReadFirst
      <4> QED BY <4>7, <2>2
    <3> QED BY <3>2, <3>3, Zenon
  <2> QED BY <2>1, <2>2
<1>16. from[0] = UNION {Own(p) : p \in visited}
  BY <1>14, <1>15
<1> QED BY <1>16 DEF Own

(* A reader finds what the boxes it reads declare.                         *)
LEMMA ReadIs ==
  ASSUME NEW file, NEW starts, NEW place, NEW n, Inv(file, starts, place, n), Sole(file, starts)
  PROVE  Declared = UNION {DeclaredAt(o) : o \in Read(file, starts)}
<1>1. PICK behind : IsBehind(behind)
  BY DEF IsBehind
<1>2. PICK from : IsFrom(behind, from)
  BY DEF IsFrom
<1>3. Declared = from[0]
  BY <1>1, <1>2, DeclaredStep DEF IsBehind, IsFrom
<1>4. from[0] = UNION {DeclaredAt(o) \cup (IF IsMoov(o) THEN behind[o + Total(o)] ELSE {}) :
                         o \in ReadFirst(file, starts)}
  BY <1>2, FromIs
<1>5. \A o \in starts : /\ o \in Nat /\ EndIn(file, o) \in Nat /\ o < EndIn(file, o)
                        /\ EndIn(file, o) <= Len(file) /\ Len(file) \in Nat /\ Len(disk) \in Nat
                        /\ \A p \in starts : o < p => EndIn(file, o) <= p
  BY OnDisk
<1>6. \A o \in ReadFirst(file, starts) : IsMoov(o) =>
        /\ TypeIn(file, o) = "moov"
        /\ behind[o + Total(o)] = UNION {DeclaredAt(p) : p \in ReadBehind(file, starts, o)}
  <2>1. SUFFICES ASSUME NEW o \in ReadFirst(file, starts), IsMoov(o)
                 PROVE  /\ TypeIn(file, o) = "moov"
                        /\ behind[o + Total(o)]
                           = UNION {DeclaredAt(p) : p \in ReadBehind(file, starts, o)}
    OBVIOUS
  <2>2. o \in starts /\ EndIn(file, o) <= Len(disk)
    BY DEF ReadFirst
  <2>3. TypeIn(file, o) = "moov"
    BY <2>1, <2>2, <1>5, ReadsOn
  <2> QED BY <2>2, <2>3, <1>1, BehindIs
<1>7. ASSUME NEW x, NEW o \in ReadFirst(file, starts),
             x \in DeclaredAt(o) \cup (IF IsMoov(o) THEN behind[o + Total(o)] ELSE {})
      PROVE  \E p \in Read(file, starts) : x \in DeclaredAt(p)
  <2>1. CASE x \in DeclaredAt(o)
    <3>1. o \in Read(file, starts)
      BY DEF Read, ReadFirst
    <3> QED BY <3>1, <2>1
  <2>2. CASE x \notin DeclaredAt(o)
    <3>1. IsMoov(o) /\ x \in behind[o + Total(o)]
      BY <2>2, <1>7
    <3>2. PICK p \in ReadBehind(file, starts, o) : x \in DeclaredAt(p)
      BY <3>1, <1>6
    <3>3. p \in Read(file, starts)
      BY DEF Read, ReadBehind
    <3> QED BY <3>2, <3>3
  <2> QED BY <2>1, <2>2
<1>8. ASSUME NEW x, NEW o \in Read(file, starts), x \in DeclaredAt(o)
      PROVE  \E p \in ReadFirst(file, starts) :
               x \in DeclaredAt(p) \cup (IF IsMoov(p) THEN behind[p + Total(p)] ELSE {})
  <2>1. o \in starts /\ EndIn(file, o) <= Len(disk)
        /\ (TypeIn(file, o) = "moov" => \A p \in starts : p < o => TypeIn(file, p) # "moov")
    BY DEF Read
  <2>2. CASE \A p \in starts : p < o => TypeIn(file, p) # "moov"
    <3>1. o \in ReadFirst(file, starts)
      BY <2>1, <2>2 DEF ReadFirst
    <3> QED BY <3>1, <1>8
  <2>3. CASE \E p \in starts : p < o /\ TypeIn(file, p) = "moov"
    <3>1. PICK m \in starts : m < o /\ TypeIn(file, m) = "moov"
      BY <2>3
    <3>2. TypeIn(file, o) # "moov"
      BY <3>1, <2>1
    <3>3. EndIn(file, m) <= o /\ EndIn(file, m) <= Len(disk) /\ EndIn(file, m) # Len(file)
      BY <3>1, <2>1, <1>5
    <3>4. \A p \in starts : p < m => TypeIn(file, p) # "moov"
      BY <3>1, <3>3 DEF Sole
    <3>5. m \in ReadFirst(file, starts)
      BY <3>3, <3>4 DEF ReadFirst
    <3>6. IsMoov(m)
      BY <3>1, <3>3, <1>5, ReadsOn
    <3>7. o \in ReadBehind(file, starts, m)
      BY <3>1, <3>2, <2>1 DEF ReadBehind
    <3>8. x \in behind[m + Total(m)]
      BY <3>5, <3>6, <3>7, <1>6, <1>8
    <3> QED BY <3>5, <3>6, <3>8
  <2> QED BY <2>2, <2>3
<1>9. \A x : x \in from[0] <=> x \in UNION {DeclaredAt(o) : o \in Read(file, starts)}
  BY <1>4, <1>7, <1>8
<1> QED BY <1>3, <1>9, Zenon

LEMMA SoleMoov ==
  ASSUME NEW file, NEW starts, NEW place, NEW n, Inv(file, starts, place, n)
  PROVE  Sole(file, starts)
<1>1. CASE ~Fragments \/ LaidOut
  <2>1. InTables(file, starts, place, accepted, finished)
    BY <1>1 DEF Inv, Contents
  <2> QED BY <2>1 DEF InTables, Sole
<1>2. CASE ~(~Fragments \/ LaidOut)
  <2>1. InFragments(file, starts, place, accepted, finished)
    BY <1>2 DEF Inv, Contents
  <2> QED BY <2>1 DEF InFragments, Sole
<1> QED BY <1>1, <1>2

(* A sample is found where it lies once the disk reaches its end.          *)
LEMMA PresentIs ==
  ASSUME NEW file, NEW starts, NEW place, NEW n, Inv(file, starts, place, n),
         NEW s \in 1..accepted
  PROVE  /\ EndOf(place[s]) \in Nat
         /\ place[s].start \in Nat /\ place[s].length \in Nat
         /\ EndOf(place[s]) <= Len(file)
         /\ Present(LocationOf(place, s)) <=> EndOf(place[s]) <= Len(disk)
<1>1. Holding(file, place, accepted)
  BY DEF Inv
<1>2. /\ place[s].start \in Nat /\ place[s].length \in Nat
      /\ EndOf(place[s]) <= Len(file)
      /\ \A k \in 1..place[s].length : file[place[s].start + k] = [sample |-> s, byte |-> k]
  BY <1>1 DEF Holding
<1>3. EndOf(place[s]) \in Nat
  BY <1>2 DEF EndOf
<1>4. /\ LocationOf(place, s).sample = s
      /\ LocationOf(place, s).start = place[s].start
      /\ LocationOf(place, s).length = place[s].length
  BY DEF LocationOf
<1>5. ASSUME EndOf(place[s]) <= Len(disk), NEW k \in 1..place[s].length
      PROVE  disk[place[s].start + k] = [sample |-> s, byte |-> k]
  <2>1. Len(disk) \in Nat
    BY OnDisk
  <2>2. place[s].start + k \in 1..Len(disk)
    BY <1>2, <1>5, <2>1 DEF EndOf
  <2>3. disk[place[s].start + k] = file[place[s].start + k]
    BY <2>2, OnDisk
  <2> QED BY <2>3, <1>2
<1>6. Present(LocationOf(place, s)) <=> EndOf(place[s]) <= Len(disk)
  BY <1>4, <1>5 DEF Present, EndOf
<1> QED BY <1>2, <1>3, <1>6

LEMMA DeclaredAtIs ==
  ASSUME NEW file, NEW starts, NEW place, NEW n, Inv(file, starts, place, n),
         NEW o \in Read(file, starts)
  PROVE  /\ o \in starts /\ EndIn(file, o) <= Len(disk)
         /\ TypeIn(file, o) = "moov" => DeclaredAt(o) = HoldsIn(file, o)
         /\ TypeIn(file, o) = "moof" =>
              DeclaredAt(o) = { [sample |-> held.sample, start |-> o + held.offset,
                                 length |-> held.length] : held \in HoldsIn(file, o) }
         /\ TypeIn(file, o) \notin {"moov", "moof"} => DeclaredAt(o) = {}
<1>1. o \in starts /\ EndIn(file, o) <= Len(disk)
  BY DEF Read
<1>2. o < Len(disk)
  <2>1. o \in Nat /\ EndIn(file, o) \in Nat /\ o < EndIn(file, o) /\ Len(disk) \in Nat
    BY <1>1, OnDisk
  <2> QED BY <2>1, <1>1
<1>3. disk[o + 1] = file[o + 1]
  BY <1>1, <1>2, OnDisk
<1>4. disk[o + 1].box = TypeIn(file, o) /\ disk[o + 1].holds = HoldsIn(file, o)
  BY <1>3 DEF TypeIn, HoldsIn
<1>5. "moov" # "moof"
  OBVIOUS
<1> HIDE DEF TypeIn, HoldsIn
<1>6. TypeIn(file, o) = "moov" => DeclaredAt(o) = HoldsIn(file, o)
  BY <1>4 DEF DeclaredAt
<1>7. TypeIn(file, o) = "moof" =>
        DeclaredAt(o) = { [sample |-> held.sample, start |-> o + held.offset,
                           length |-> held.length] : held \in HoldsIn(file, o) }
  BY <1>4, <1>5 DEF DeclaredAt
<1>8. TypeIn(file, o) \notin {"moov", "moof"} => DeclaredAt(o) = {}
  BY <1>4 DEF DeclaredAt
<1> QED BY <1>1, <1>6, <1>7, <1>8

(* What a file of fragments declares, by its moofs alone.                  *)
LEMMA FragmentsDeclare ==
  ASSUME NEW file, NEW starts, NEW place, NEW n, Inv(file, starts, place, n),
         Fragments, ~LaidOut
  PROVE  /\ \A location \in Declared :
              \E s \in 1..accepted : location = LocationOf(place, s)
         /\ \A s \in 1..accepted :
              EndOf(place[s]) <= Len(disk) => LocationOf(place, s) \in Declared
<1>1. InFragments(file, starts, place, accepted, finished)
  BY DEF Inv, Contents
<1>2. Declared = UNION {DeclaredAt(o) : o \in Read(file, starts)}
  BY SoleMoov, ReadIs
<1>3. ASSUME NEW o \in starts, TypeIn(file, o) = "moof", NEW held \in HoldsIn(file, o)
      PROVE  /\ held.sample \in 1..accepted
             /\ held.offset \in Nat /\ held.offset >= TotalIn(file, o)
             /\ o + held.offset = place[held.sample].start
             /\ held.length = place[held.sample].length
             /\ [sample |-> held.sample, start |-> o + held.offset, length |-> held.length]
                = LocationOf(place, held.sample)
  <2>1. /\ held.sample \in 1..accepted
        /\ held.offset \in Nat /\ held.offset >= TotalIn(file, o)
        /\ o + held.offset = place[held.sample].start
        /\ held.length = place[held.sample].length
    BY <1>1, <1>3 DEF InFragments
  <2>2. [sample |-> held.sample, start |-> o + held.offset, length |-> held.length]
        = LocationOf(place, held.sample)
    BY <2>1 DEF LocationOf
  <2> QED BY <2>1, <2>2
<1>4. ASSUME NEW location \in Declared
      PROVE  \E s \in 1..accepted : location = LocationOf(place, s)
  <2>1. PICK o \in Read(file, starts) : location \in DeclaredAt(o)
    BY <1>2, <1>4
  <2>2. o \in starts /\ EndIn(file, o) <= Len(disk)
    BY DEF Read
  <2>3. TypeIn(file, o) # "moov"
    <3>1. SUFFICES ASSUME TypeIn(file, o) = "moov" PROVE FALSE
      OBVIOUS
    <3>2. \A p \in starts : p < o => TypeIn(file, p) # "moov"
      BY <3>1 DEF Read
    <3>3. HoldsIn(file, o) = {}
      BY <1>1, <2>2, <3>1, <3>2 DEF InFragments
    <3>4. DeclaredAt(o) = HoldsIn(file, o)
      BY <3>1, DeclaredAtIs
    <3> QED BY <2>1, <3>3, <3>4
  <2>4. TypeIn(file, o) = "moof"
    <3>1. SUFFICES ASSUME TypeIn(file, o) # "moof" PROVE FALSE
      OBVIOUS
    <3>2. TypeIn(file, o) \notin {"moov", "moof"}
      BY <2>3, <3>1
    <3>3. DeclaredAt(o) = {}
      BY <3>2, DeclaredAtIs
    <3> QED BY <2>1, <3>3
  <2>5. DeclaredAt(o) = { [sample |-> held.sample, start |-> o + held.offset,
                           length |-> held.length] : held \in HoldsIn(file, o) }
    BY <2>4, DeclaredAtIs
  <2>6. PICK held \in HoldsIn(file, o) :
          location = [sample |-> held.sample, start |-> o + held.offset, length |-> held.length]
    BY <2>1, <2>5
  <2>7. held.sample \in 1..accepted /\ location = LocationOf(place, held.sample)
    BY <1>3, <2>2, <2>4, <2>6
  <2> QED BY <2>7
<1>5. ASSUME NEW s \in 1..accepted, EndOf(place[s]) <= Len(disk)
      PROVE  LocationOf(place, s) \in Declared
  <2>1. PICK o \in starts : TypeIn(file, o) = "moof" /\ \E held \in HoldsIn(file, o) : held.sample = s
    BY <1>1 DEF InFragments
  <2>2. PICK held \in HoldsIn(file, o) : held.sample = s
    BY <2>1
  <2>3. /\ held.offset \in Nat /\ held.offset >= TotalIn(file, o)
        /\ o + held.offset = place[s].start
        /\ [sample |-> held.sample, start |-> o + held.offset, length |-> held.length]
           = LocationOf(place, s)
    BY <1>3, <2>1, <2>2
  <2>4. EndIn(file, o) <= Len(disk)
    <3>1. o \in Nat /\ EndIn(file, o) \in Nat /\ Len(disk) \in Nat
      BY OnDisk
    <3>2. TotalIn(file, o) \in Int
      <4>1. Boxed(file, starts) /\ o + 1 \in DOMAIN file
        <5>1. Boxed(file, starts)
          BY DEF Inv
        <5>2. o < Len(file) /\ Sequence(file)
          BY <5>1 DEF Boxed
        <5>3. DOMAIN file = 1..Len(file) /\ Len(file) \in Nat
          BY <5>2, SequenceShape
        <5> QED BY <5>1, <5>2, <5>3, <3>1
      <4>2. file[o + 1].total \in Nat \ {0}
        BY <4>1 DEF Boxed
      <4> QED BY <4>2 DEF TotalIn
    <3>3. EndIn(file, o) = o + TotalIn(file, o)
      BY DEF EndIn, TotalIn
    <3>4. place[s].start \in Nat /\ place[s].length \in Nat
      BY PresentIs
    <3>5. EndOf(place[s]) = place[s].start + place[s].length
      BY DEF EndOf
    <3> QED BY <3>1, <3>2, <3>3, <3>4, <3>5, <2>3, <1>5
  <2>5. o \in Read(file, starts)
    <3>1. TypeIn(file, o) # "moov"
      BY <2>1
    <3> QED BY <3>1, <2>4 DEF Read
  <2>6. LocationOf(place, s) \in DeclaredAt(o)
    <3>1. DeclaredAt(o) = { [sample |-> h.sample, start |-> o + h.offset,
                             length |-> h.length] : h \in HoldsIn(file, o) }
      BY <2>1, <2>5, DeclaredAtIs
    <3> QED BY <3>1, <2>3
  <2> QED BY <2>5, <2>6, <1>2
<1> QED BY <1>4, <1>5

(* What another declares, by its one moov alone.                           *)
LEMMA TablesDeclare ==
  ASSUME NEW file, NEW starts, NEW place, NEW n, Inv(file, starts, place, n),
         ~Fragments \/ LaidOut
  PROVE  Declared = IF OfType("moov") = {} THEN {} ELSE {LocationOf(place, s) : s \in 1..accepted}
<1>1. InTables(file, starts, place, accepted, finished)
  BY DEF Inv, Contents
<1>2. Declared = UNION {DeclaredAt(o) : o \in Read(file, starts)}
  BY SoleMoov, ReadIs
<1>3. OfType("moov") = {o \in starts : EndIn(file, o) <= Len(disk) /\ TypeIn(file, o) = "moov"}
  BY OfTypeIs
<1>4. ASSUME NEW o \in Read(file, starts)
      PROVE  IF o \in OfType("moov") THEN DeclaredAt(o) = {LocationOf(place, s) : s \in 1..accepted}
                                     ELSE DeclaredAt(o) = {}
  <2>1. o \in starts /\ EndIn(file, o) <= Len(disk)
    BY DEF Read
  <2>2. CASE TypeIn(file, o) = "moov"
    <3>1. DeclaredAt(o) = HoldsIn(file, o)
      BY <2>2, DeclaredAtIs
    <3>2. HoldsIn(file, o) = {LocationOf(place, s) : s \in 1..accepted}
      BY <1>1, <2>1, <2>2 DEF InTables
    <3>3. o \in OfType("moov")
      BY <1>3, <2>1, <2>2
    <3> QED BY <3>1, <3>2, <3>3
  <2>3. CASE TypeIn(file, o) # "moov"
    <3>1. TypeIn(file, o) # "moof"
      BY <1>1, <2>1 DEF InTables
    <3>2. TypeIn(file, o) \notin {"moov", "moof"}
      BY <3>1, <2>3
    <3>3. DeclaredAt(o) = {}
      BY <3>2, DeclaredAtIs
    <3>4. o \notin OfType("moov")
      BY <1>3, <2>3
    <3> QED BY <3>3, <3>4
  <2> QED BY <2>2, <2>3
<1>5. OfType("moov") \subseteq Read(file, starts)
  <2>1. SUFFICES ASSUME NEW o \in OfType("moov") PROVE o \in Read(file, starts)
    OBVIOUS
  <2>2. o \in starts /\ EndIn(file, o) <= Len(disk) /\ TypeIn(file, o) = "moov"
    BY <1>3
  <2>3. ASSUME NEW p \in starts, p < o, TypeIn(file, p) = "moov" PROVE FALSE
    <3>1. EndIn(file, p) = Len(file)
      BY <1>1, <2>3 DEF InTables
    <3>2. /\ EndIn(file, p) <= o /\ o < EndIn(file, o) /\ EndIn(file, o) <= Len(file)
          /\ o \in Nat /\ EndIn(file, o) \in Nat /\ Len(file) \in Nat
      BY <2>2, <2>3, OnDisk
    <3> QED BY <3>1, <3>2
  <2> QED BY <2>2, <2>3 DEF Read
<1> DEFINE Every == {LocationOf(place, s) : s \in 1..accepted}
<1> HIDE DEF Every
<1>6. \A o \in Read(file, starts) : DeclaredAt(o) = IF o \in OfType("moov") THEN Every ELSE {}
  BY <1>4 DEF Every
<1>7. Declared = IF OfType("moov") = {} THEN {} ELSE Every
  BY <1>2, <1>5, <1>6
<1> QED BY <1>7 DEF Every

(* What a reader finds of the samples that are accepted.                   *)
Found(place) ==
  IF ~Fragments \/ LaidOut
  THEN IF OfType("moov") = {} THEN {} ELSE 1..accepted
  ELSE {s \in 1..accepted : EndOf(place[s]) <= Len(disk)}

LEMMA KeptIs ==
  ASSUME NEW file, NEW starts, NEW place, NEW n, Inv(file, starts, place, n)
  PROVE  Kept = Found(place)
<1>1. \A s : LocationOf(place, s).sample = s
  BY DEF LocationOf
<1>2. CASE ~Fragments \/ LaidOut
  <2>1. Declared = IF OfType("moov") = {} THEN {} ELSE {LocationOf(place, s) : s \in 1..accepted}
    BY <1>2, TablesDeclare
  <2>2. CASE OfType("moov") = {}
    <3>1. Declared = {}
      BY <2>1, <2>2
    <3>2. Kept = {}
      BY <3>1 DEF Kept
    <3> QED BY <3>2, <1>2, <2>2 DEF Found
  <2>3. CASE OfType("moov") # {}
    <3>1. Declared = {LocationOf(place, s) : s \in 1..accepted}
      BY <2>1, <2>3
    <3>2. Len(disk) = Len(file)
      <4>1. PICK o \in starts : EndIn(file, o) <= Len(disk) /\ TypeIn(file, o) = "moov"
        BY <2>3, OfTypeIs
      <4>2. EndIn(file, o) = Len(file)
        BY <1>2, <4>1 DEF Inv, Contents, InTables
      <4>3. Len(disk) \in Nat /\ Len(file) \in Nat /\ Len(disk) <= Len(file)
        BY OnDisk
      <4> QED BY <4>1, <4>2, <4>3
    <3>3. \A s \in 1..accepted : Present(LocationOf(place, s))
      <4>1. \A s \in 1..accepted :
              EndOf(place[s]) <= Len(file) /\ (Present(LocationOf(place, s)) <=> EndOf(place[s]) <= Len(disk))
        BY PresentIs
      <4> QED BY <4>1, <3>2
    <3>4. ASSUME NEW s PROVE s \in Kept <=> s \in 1..accepted
      BY <1>1, <3>1, <3>3 DEF Kept
    <3>5. Kept = 1..accepted
      BY <3>4, Zenon
    <3> QED BY <3>5, <1>2, <2>3 DEF Found
  <2> QED BY <2>2, <2>3
<1>3. CASE Fragments /\ ~LaidOut
  <2>1. /\ \A location \in Declared : \E s \in 1..accepted : location = LocationOf(place, s)
        /\ \A s \in 1..accepted : EndOf(place[s]) <= Len(disk) => LocationOf(place, s) \in Declared
    BY <1>3, FragmentsDeclare
  <2>2. \A s \in 1..accepted : Present(LocationOf(place, s)) <=> EndOf(place[s]) <= Len(disk)
    BY PresentIs
  <2>3. Found(place) = {s \in 1..accepted : EndOf(place[s]) <= Len(disk)}
    BY <1>3 DEF Found
  <2>4. ASSUME NEW s PROVE s \in Kept <=> s \in {t \in 1..accepted : EndOf(place[t]) <= Len(disk)}
    <3>1. s \in Kept <=> \E location \in Declared : Present(location) /\ location.sample = s
      BY DEF Kept
    <3>2. ASSUME NEW location \in Declared, Present(location), location.sample = s
          PROVE  s \in 1..accepted /\ EndOf(place[s]) <= Len(disk)
      <4>1. PICK t \in 1..accepted : location = LocationOf(place, t)
        BY <2>1, <3>2
      <4>2. t = s
        BY <4>1, <1>1, <3>2
      <4> QED BY <4>1, <4>2, <2>2, <3>2
    <3>3. ASSUME s \in 1..accepted, EndOf(place[s]) <= Len(disk)
          PROVE  LocationOf(place, s) \in Declared /\ Present(LocationOf(place, s))
      BY <3>3, <2>1, <2>2
    <3> QED BY <3>1, <3>2, <3>3, <1>1
  <2>5. Kept = {s \in 1..accepted : EndOf(place[s]) <= Len(disk)}
    BY <2>4, Zenon
  <2> QED BY <2>3, <2>5
<1> QED BY <1>2, <1>3
-------------------------------------------------------------------------------
(* WHAT IS KEPT                                                            *)

(* On disk there is then the whole of the file.                            *)
LEMMA AllOnDisk ==
  ASSUME NEW file, NEW starts, NEW place, NEW n, Inv(file, starts, place, n), output = <<>>
  PROVE  /\ Len(disk) = Len(file)
         /\ \A type : OfType(type) = {o \in starts : TypeIn(file, o) = type}
<1>1. n = 0
  <2>1. n \in 0..Len(output)
    BY DEF Inv, Queued
  <2>2. Len(output) = 0
    BY EmptySequence
  <2> QED BY <2>1, <2>2
<1>2. Len(file) = Len(disk)
  BY <1>1 DEF Inv, Queued
<1>3. ASSUME NEW type PROVE OfType(type) = {o \in starts : TypeIn(file, o) = type}
  <2>1. OfType(type) = {o \in starts : EndIn(file, o) <= Len(disk) /\ TypeIn(file, o) = type}
    BY OfTypeIs
  <2>2. \A o \in starts : EndIn(file, o) <= Len(disk)
    BY <1>2, OnDisk
  <2> QED BY <2>1, <2>2
<1> QED BY <1>2, <1>3

LEMMA KeepsAll ==
  ASSUME NEW file, NEW starts, NEW place, NEW n, Inv(file, starts, place, n), output = <<>>
  PROVE  /\ Fragments \/ OfType("moov") # {} => Kept = 1..accepted
         /\ Recoverable /\ finished =>
              (FileStructure = "NonFragmented" <=> OfType("mdat") # {} /\ OfType("moof") = {})
<1>1. Len(disk) = Len(file) /\ \A type : OfType(type) = {o \in starts : TypeIn(file, o) = type}
  BY AllOnDisk
<1>2. Contents(file, starts, place)
  BY DEF Inv
<1>3. LaidOut => OfType("moov") # {} /\ OfType("mdat") # {} /\ OfType("moof") = {}
  <2>1. SUFFICES ASSUME LaidOut
                 PROVE  OfType("moov") # {} /\ OfType("mdat") # {} /\ OfType("moof") = {}
    OBVIOUS
  <2>2. /\ \E o \in starts : TypeIn(file, o) = "mdat"
        /\ \E o \in starts : TypeIn(file, o) = "moov"
        /\ InTables(file, starts, place, accepted, finished)
    BY <1>2, <2>1 DEF Contents
  <2>3. \A o \in starts : TypeIn(file, o) # "moof"
    BY <2>2 DEF InTables
  <2>4. OfType("moov") # {} /\ OfType("mdat") # {}
    BY <2>2, <1>1
  <2>5. OfType("moof") = {}
    BY <2>3, <1>1
  <2> QED BY <2>4, <2>5
<1>4. ASSUME Fragments \/ OfType("moov") # {} PROVE Kept = 1..accepted
  <2>1. Kept = Found(place)
    BY KeptIs
  <2>2. CASE ~Fragments \/ LaidOut
    BY <2>1, <2>2, <1>3, <1>4 DEF Found
  <2>3. CASE Fragments /\ ~LaidOut
    <3>1. \A s \in 1..accepted : EndOf(place[s]) <= Len(disk)
      <4>1. \A s \in 1..accepted : EndOf(place[s]) <= Len(file)
        BY PresentIs
      <4> QED BY <4>1, <1>1
    <3>2. Found(place) = {s \in 1..accepted : EndOf(place[s]) <= Len(disk)}
      BY <2>3 DEF Found
    <3> QED BY <3>1, <3>2, <2>1
  <2> QED BY <2>2, <2>3
<1>5. ASSUME Recoverable, finished
      PROVE  FileStructure = "NonFragmented" <=> OfType("mdat") # {} /\ OfType("moof") = {}
  <2>1. movie
    BY <1>5 DEF Inv, Stage
  <2>2. CASE tables.state = "laid out"
    <3>1. LaidOut
      BY <1>5, <2>2 DEF LaidOut
    <3>2. FileStructure = "NonFragmented"
      BY <1>5, <2>2 DEF FileStructure
    <3> QED BY <3>1, <3>2, <1>3
  <2>3. CASE tables.state # "laid out"
    <3>1. FileStructure # "NonFragmented"
      BY <1>5, <2>1, <2>3 DEF FileStructure
    <3>2. Fragments /\ ~LaidOut
      BY <1>5, <2>3 DEF Recoverable, Fragments, LaidOut
    <3>3. InFragments(file, starts, place, accepted, finished)
      BY <3>2, <1>2 DEF Contents
    <3>4. ASSUME OfType("mdat") # {} PROVE OfType("moof") # {}
      <4>1. accepted > 0
        BY <3>3, <3>4, <1>1 DEF InFragments
      <4>2. accepted \in Nat
        BY DEF Inv, Holding
      <4>3. 1 \in 1..accepted
        BY <4>1, <4>2
      <4>4. \E o \in starts : TypeIn(file, o) = "moof"
        BY <4>3, <3>3 DEF InFragments
      <4> QED BY <4>4, <1>1
    <3> QED BY <3>1, <3>4
  <2> QED BY <2>2, <2>3
<1> QED BY <1>4, <1>5

LEMMA AllIsKept == IInv => AllKept
  BY KeepsAll DEF IInv, AllKept

LEMMA LastIsKept == IInv /\ output = <<>> /\ Fragments => Kept = 1..accepted
  BY KeepsAll DEF IInv

(* Once the outputs are on disk a reader finds every sample accepted: of a *)
(* file of fragments at any time, of another once its moov is written; and *)
(* a recoverable file that is finished has the structure file_structure    *)
(* tells (Muxer::finish and Muxer::file_structure), where no free is lost. *)
THEOREM AllKeptHolds == Spec => []AllKept
<1>1. UnlessLost => AllKept
  BY AllIsKept DEF UnlessLost, AllKept
<1> QED BY <1>1, InvariantHolds, PTL
-------------------------------------------------------------------------------
(* WHAT A READER HAS FOUND IT ALWAYS FINDS                                 *)

LEMMA KeptFirst ==
  ASSUME IInv
  PROVE  Kept \subseteq 1..accepted /\ \E n \in 0..accepted : Kept = 1..n
<1>1. PICK file, starts, place, n : Inv(file, starts, place, n)
  BY DEF IInv
<1>2. PICK m : m = accepted
  OBVIOUS
<1>3. Holding(file, place, accepted)
  BY <1>1 DEF Inv
<1>4. m \in Nat
  BY <1>2, <1>3 DEF Holding
<1>5. PICK found : found = Found(place)
  OBVIOUS
<1>6. Kept = found
  BY <1>1, <1>5, KeptIs
<1>7. found \subseteq 1..m /\ \A t \in found, s \in 1..m : s < t => s \in found
  <2>1. CASE ~Fragments \/ LaidOut
    BY <1>2, <1>5, <2>1 DEF Found
  <2>2. CASE ~(~Fragments \/ LaidOut)
    <3>1. found = {s \in 1..m : EndOf(place[s]) <= Len(disk)}
      BY <1>2, <1>5, <2>2 DEF Found
    <3>2. ASSUME NEW t \in found, NEW s \in 1..m, s < t PROVE s \in found
      <4>1. t \in 1..m /\ EndOf(place[t]) <= Len(disk)
        BY <3>1
      <4>2. EndOf(place[s]) <= place[t].start
        BY <1>2, <1>3, <3>2, <4>1 DEF Holding
      <4>3. EndOf(place[s]) \in Nat /\ EndOf(place[t]) \in Nat
            /\ place[t].start \in Nat /\ place[t].length \in Nat
        BY <1>1, <1>2, <4>1, PresentIs
      <4>4. EndOf(place[t]) = place[t].start + place[t].length
        BY DEF EndOf
      <4>5. Len(disk) \in Nat
        BY <1>1, OnDisk
      <4>6. EndOf(place[s]) <= Len(disk)
        BY <4>1, <4>2, <4>3, <4>4, <4>5
      <4> QED BY <4>6, <3>1
    <3> QED BY <3>1, <3>2
  <2> QED BY <2>1, <2>2
<1>8. found = 1..Cardinality(found)
  BY <1>4, <1>7, UpFromOne
<1>9. Cardinality(found) \in 0..m
  <2>1. Cardinality(found) \in Nat /\ Cardinality(found) <= m
    BY <1>4, <1>7, PlacesFinite
  <2> QED BY <2>1, <1>4
<1> QED BY <1>2, <1>6, <1>7, <1>8, <1>9

LEMMA FirstAreKept == IInv => \E n \in 0..accepted : Kept = 1..n
  BY KeptFirst

(* What a reader finds in every state, to be said of the next one.         *)
KeptRule ==
  \A file, starts, place, n :
    Inv(file, starts, place, n) =>
      /\ Kept = Found(place)
      /\ OfType("moov") = {o \in starts : EndIn(file, o) <= Len(disk) /\ TypeIn(file, o) = "moov"}

LEMMA KeptRuleHolds == KeptRule
  BY KeptIs, OfTypeIs DEF KeptRule

(* A write leaves every sample where it was, and the disk no shorter.      *)
LEMMA WriteMoves ==
  ASSUME NEW file, NEW starts, NEW place, NEW n, Inv(file, starts, place, n), Write
  PROVE  /\ Kept' = Found(place)'
         /\ Len(disk) <= Len(disk') /\ Len(disk') \in Nat
         /\ ~Fragments /\ OfType("moov") # {} => OfType("moov")' # {}
<1>1. output # <<>>
  BY DEF Write
<1>2. Len(disk) \in Nat
  BY OnDisk
<1>3. KeptRule'
  BY KeptRuleHolds, PTL
<1>4. OfType("moov") = {o \in starts : EndIn(file, o) <= Len(disk) /\ TypeIn(file, o) = "moov"}
  BY OfTypeIs
<1>5. CASE n > 0
  <2>1. PICK m : Inv(file, starts, place, m)'
    BY <1>5, WriteBehindKeeps
  <2>2. Kept' = Found(place)'
    BY <1>3, <2>1 DEF KeptRule
  <2>3. OfType("moov")' = {o \in starts : EndIn(file, o) <= Len(disk') /\ TypeIn(file, o) = "moov"}
    BY <1>3, <2>1 DEF KeptRule
  <2>4. Len(disk') = Len(disk) + 1
    BY <1>5, WriteBehindKeeps
  <2>5. \A o \in starts : EndIn(file, o) \in Nat
    BY OnDisk
  <2>6. \A o \in starts : EndIn(file, o) <= Len(disk) => EndIn(file, o) <= Len(disk')
    BY <1>2, <2>4, <2>5
  <2>7. OfType("moov") # {} => OfType("moov")' # {}
    BY <1>4, <2>3, <2>6
  <2> QED BY <1>2, <2>2, <2>4, <2>7
<1>6. CASE ~(n > 0)
  <2>1. disk = file /\ n = 0 /\ Len(output) = 1
    BY <1>1, <1>6, OverIs
  <2>2. /\ \E over, more : Inv(over, more, place, 0)'
        /\ \E p, cells : FreeAt(file, starts, p, Len(cells)) /\ Overwritten(disk', file, p, cells)
    BY <1>1, <1>6, HeaderKeeps, IndexKeeps
  <2>3. Kept' = Found(place)'
    BY <1>3, <2>2 DEF KeptRule
  <2>4. Len(disk') = Len(disk)
    BY <2>1, <2>2 DEF Overwritten
  <2>5. Fragments
    BY <2>1 DEF Inv, Overlay
  <2> QED BY <1>2, <2>3, <2>4, <2>5
<1> QED BY <1>5, <1>6

LEMMA WriteKeepsFound ==
  ASSUME IInv, IInv', Write
  PROVE  Kept \subseteq Kept' /\ accepted' = accepted
<1>1. PICK file, starts, place, n : Inv(file, starts, place, n)
  BY DEF IInv
<1>2. output # <<>> /\ accepted' = accepted /\ structure' = structure
  BY DEF Write, muxer
<1>3. Kept = Found(place) /\ Kept' = Found(place)'
  BY <1>1, KeptIs, WriteMoves
<1>4. ~LaidOut /\ (Fragments' <=> Fragments)
  BY <1>2 DEF LaidOut, Fragments
<1>5. Found(place)' = IF ~Fragments' \/ LaidOut'
                      THEN IF OfType("moov")' = {} THEN {} ELSE 1..accepted'
                      ELSE {s \in 1..accepted' : EndOf(place[s]) <= Len(disk')}
  BY DEF Found, EndOf
<1>6. Kept' \subseteq 1..accepted' /\ Kept \subseteq 1..accepted
  BY <1>3, <1>5 DEF Found
<1>7. CASE ~Fragments
  <2>1. OfType("moov") # {} => OfType("moov")' # {}
    BY <1>1, <1>7, WriteMoves
  <2>2. Found(place) = IF OfType("moov") = {} THEN {} ELSE 1..accepted
    BY <1>7 DEF Found
  <2>3. Found(place)' = IF OfType("moov")' = {} THEN {} ELSE 1..accepted
    BY <1>2, <1>4, <1>5, <1>7
  <2> QED BY <2>1, <2>2, <2>3, <1>2, <1>3
<1>8. CASE LaidOut'
  <2>1. (IInv /\ output = <<>> /\ Fragments => Kept = 1..accepted)'
    BY LastIsKept, PTL
  <2>2. output' = <<>> /\ Fragments'
    BY <1>8 DEF LaidOut, Recoverable, Fragments
  <2>3. Kept' = 1..accepted'
    BY <2>1, <2>2
  <2> QED BY <2>3, <1>2, <1>6
<1>9. CASE Fragments /\ ~LaidOut'
  <2>1. Found(place) = {s \in 1..accepted : EndOf(place[s]) <= Len(disk)}
    BY <1>4, <1>9 DEF Found
  <2>2. Found(place)' = {s \in 1..accepted : EndOf(place[s]) <= Len(disk')}
    BY <1>2, <1>4, <1>5, <1>9
  <2>3. Len(disk) <= Len(disk') /\ Len(disk') \in Nat /\ Len(disk) \in Nat
    BY <1>1, WriteMoves, OnDisk
  <2>4. \A s \in 1..accepted : EndOf(place[s]) \in Nat
    BY <1>1, PresentIs
  <2>5. \A s \in 1..accepted : EndOf(place[s]) <= Len(disk) => EndOf(place[s]) <= Len(disk')
    BY <2>3, <2>4
  <2>6. Found(place) \subseteq Found(place)'
    BY <2>1, <2>2, <2>5
  <2> QED BY <2>6, <1>2, <1>3
<1> QED BY <1>7, <1>8, <1>9

(* A call writes nothing, and the samples it takes are new.                *)
LEMMA CallsGive ==
  ASSUME IInv, Call
  PROVE  UNCHANGED disk /\ (accepted' = accepted \/ (accepted' > accepted /\ accepted' \in Nat))
<1>1. UNCHANGED disk
  BY CallsKeepDisk
<1>2. ASSUME NEW iso5, HandleFileType(iso5) PROVE accepted' = accepted
  BY <1>2 DEF HandleFileType, muxer
<1>3. ASSUME NEW offered, HandleMovie(offered) PROVE accepted' = accepted
  BY <1>3 DEF HandleMovie, RefuseMovie, LoseMovie, TakeMovie, muxer
<1>4. ASSUME NEW call \in Calls[structure], HandleSamples(call)
      PROVE  accepted' = accepted \/ (accepted' > accepted /\ accepted' \in Nat)
  <2>1. structure \in Structures /\ accepted \in Nat
    BY DEF IInv, Inv, Stage, Holding
  <2>2. call \in Seq(Sample)
    BY <2>1, MuxerAssumption
  <2>3. accepted' = accepted \/ (call # <<>> /\ accepted' = accepted + Len(call))
    <3>1. FragmentSamples(call) => accepted' = accepted \/ accepted' = accepted + Len(call)
      BY DEF FragmentSamples, WriteFragment, LoseFragment, muxer
    <3>2. TableSamples(call) => accepted' = accepted \/ accepted' = accepted + Len(call)
      BY DEF TableSamples, muxer
    <3> QED BY <3>1, <3>2, <1>4 DEF HandleSamples, muxer
  <2>4. call # <<>> => Len(call) \in Nat /\ Len(call) > 0
    BY <2>2
  <2> QED BY <2>1, <2>3, <2>4
<1>5. ASSUME Finish PROVE accepted' = accepted
  BY <1>5 DEF Finish, RefuseFinish, muxer
<1> QED BY <1>1, <1>2, <1>3, <1>4, <1>5 DEF Call

(* What a reader finds depends on the disk alone.                          *)
LEMMA SameKept ==
  ASSUME UNCHANGED disk
  PROVE  Kept' = Kept
  BY DEF Kept, Declared, Present, DeclaredAt, Whole, Total, IsBox

(* Whenever the writing stops, a reader finds the first of the samples     *)
(* accepted, in their order, and never loses one it has found: also not    *)
(* while Muxer::finish lays a recoverable file out again.  So it is of     *)
(* every behaviour that loses no free, whatever else is refused in it.     *)
THEOREM RecordingImplemented == Spec /\ [](lost.free = 0) => ImplementsRecording
<1>1. Init => Recording!Init
  <2>1. SUFFICES ASSUME Init PROVE Recording!Init
    OBVIOUS
  <2>2. accepted = 0
    BY <2>1 DEF Init
  <2>3. Kept \subseteq 1..accepted
    BY <2>1, InitHolds, KeptFirst
  <2>4. Kept = {}
    BY <2>2, <2>3
  <2> QED BY <2>2, <2>4 DEF Recording!Init
<1>2. IInv /\ IInv' /\ [Next]_vars => [Recording!Give \/ Recording!Keep]_(Recording!vars)
  <2>1. SUFFICES ASSUME IInv, IInv', [Next]_vars
                 PROVE  [Recording!Give \/ Recording!Keep]_(Recording!vars)
    OBVIOUS
  <2>2. CASE UNCHANGED vars
    <3>1. UNCHANGED disk /\ UNCHANGED accepted
      BY <2>2 DEF vars, muxer
    <3>2. Kept' = Kept
      BY <3>1, SameKept
    <3> QED BY <3>1, <3>2 DEF Recording!vars
  <2>3. CASE Call
    <3>1. UNCHANGED disk /\ (accepted' = accepted \/ (accepted' > accepted /\ accepted' \in Nat))
      BY <2>1, <2>3, CallsGive
    <3>2. Kept' = Kept
      BY <3>1, SameKept
    <3> QED BY <3>1, <3>2 DEF Recording!Give, Recording!vars
  <2>4. CASE Write
    <3>1. Kept \subseteq Kept' /\ accepted' = accepted
      BY <2>1, <2>4, WriteKeepsFound
    <3>2. (\E n \in 0..accepted : Kept = 1..n)'
      <4>1. (IInv => \E n \in 0..accepted : Kept = 1..n)'
        BY FirstAreKept, PTL
      <4> QED BY <4>1, <2>1
    <3> QED BY <3>1, <3>2 DEF Recording!Keep
  <2> QED BY <2>1, <2>2, <2>3, <2>4 DEF Next
<1>3. UnlessLost /\ lost.free = 0 => IInv
  BY DEF UnlessLost
<1>4. Spec /\ [](lost.free = 0) => []IInv
  BY <1>3, InvariantHolds, PTL
<1> QED BY <1>1, <1>2, <1>4, PTL DEF Spec, ImplementsRecording, Recording!Spec
===============================================================================
