---------------------------- MODULE BoxReaderProofs ----------------------------
(***************************************************************************)
(* Proofs about BoxReader, for every file, every way to cut the input and  *)
(* every answer: that it implements BoxFraming, that it never goes back,   *)
(* and what it gathers.                                                    *)
(***************************************************************************)
EXTENDS BoxReader, SequenceTheorems, TLAPS

(* The header of the box after the last one closed is being read, or is to *)
(* be: what is read of it is the run of bytes from its first one on.       *)
BetweenInv ==
  /\ seen.phase \in {"between", "ended"}
  /\ answer = NoAnswer
  /\ seen.answer = NoAnswer
  /\ atEndOfFile = (seen.phase = "ended")

HeaderInv ==
  /\ BetweenInv
  /\ seen.phase = "ended" => gathered = <<>>
  /\ seen.phase = "between" =>
       /\ seen.offset <= position
       /\ gathered = Bytes(seen.offset, position)
       /\ position - seen.offset < needed
       /\ needed <= file.headers[seen.offset].length
       /\ position > seen.offset => position <= file.length

(* A box whose whole header is read, and which is not closed yet.          *)
OpenBoxInv ==
  /\ ~atEndOfFile
  /\ seen.offset = box
  /\ seen.answer = answer
  /\ ~SizeBelowHeader(TheHeader)
  /\ box + TheHeader.length <= file.length
  /\ answer.kind # "stream" => seen.delivered = <<>>

OpenedInv ==
  /\ OpenBoxInv
  /\ seen.phase = "opened"
  /\ answer = NoAnswer
  /\ position = box + TheHeader.length
  /\ gathered = Bytes(box, position)

StreamInv ==
  /\ gathered = Bytes(box, box + TheHeader.length)
  /\ seen.delivered = Bytes(box + TheHeader.length, position)
  /\ box + TheHeader.length <= position
  /\ position <= file.length
  /\ ~ToFileEnd => position <= End

GatherInv ==
  /\ gathered = Bytes(box, position)
  /\ box + TheHeader.length <= position
  /\ position <= file.length
  /\ position - (box + TheHeader.length) <= answer.bytes
  /\ ~ToFileEnd => position <= End /\ PayloadLength(TheHeader) <= answer.bytes

HeadInv ==
  \/ /\ ~ToFileEnd
     /\ HeadBytes = 0
     /\ position = End
     /\ gathered = Bytes(box, box + TheHeader.length)
  \/ /\ gathered = Bytes(box, position)
     /\ box + TheHeader.length <= position
     /\ position <= file.length
     /\ position <= box + TheHeader.length + HeadBytes
     /\ ~ToFileEnd => position < box + TheHeader.length + HeadBytes

SkipInv ==
  /\ gathered = Bytes(box, box + TheHeader.length)
  /\ position = IF ToFileEnd THEN box + TheHeader.length ELSE End

PayloadInv ==
  /\ OpenBoxInv
  /\ seen.phase = "reading"
  /\ answer \in Answer
  /\ answer.kind = "stream" => StreamInv
  /\ answer.kind = "gather" => GatherInv
  /\ answer.kind = "head" => HeadInv
  /\ answer.kind = "skip" => SkipInv

GatheredInv ==
  /\ BetweenInv
  /\ seen.phase = "between" => seen.offset = position
  /\ box + TheHeader.length <= MaxPosition
  /\ gathered = Bytes(box, box + TheHeader.length + Len(seen.delivered))

IInv ==
  /\ TypeOK
  /\ progress = "Header" => HeaderInv
  /\ progress = "Opened" => OpenedInv
  /\ progress = "Payload" => PayloadInv
  /\ progress = "Gathered" => GatheredInv
  /\ progress = "Failed" => seen.phase = "failed"
-------------------------------------------------------------------------------
(* LEMMAS ABOUT RUNS OF BYTES                                              *)

(* A run of bytes is as long as the distance it spans.                     *)
LEMMA BytesLength ==
  ASSUME NEW a \in Nat, NEW b \in Nat, a <= b
  PROVE  /\ Bytes(a, b) \in Seq(Nat)
         /\ Len(Bytes(a, b)) = b - a
         /\ \A i \in 1..(b - a) : Bytes(a, b)[i] = a + i - 1
<1>1. Bytes(a, b) \in [1..(b - a) -> Nat]
  BY DEF Bytes
<1>. QED  BY <1>1 DEF Bytes

(* A run of bytes of the file is a sequence of offsets.                    *)
LEMMA BytesType ==
  ASSUME NEW a \in Nat, NEW b \in Nat, a <= b, b <= MaxPosition
  PROVE  Bytes(a, b) \in Seq(Offset)
<1>1. Bytes(a, b) \in [1..(b - a) -> Offset]
  BY LayoutAssumption DEF Bytes, Offset
<1>. QED  BY <1>1

(* No bytes are kept where a read takes all it is handed.                 *)
LEMMA BytesEmpty ==
  ASSUME NEW a \in Nat
  PROVE  Bytes(a, a) = <<>>
BY BytesLength, EmptySeq

(* Two runs that meet are one run: nothing is lost where input is cut.     *)
LEMMA BytesConcat ==
  ASSUME NEW a \in Nat, NEW b \in Nat, NEW c \in Nat, a <= b, b <= c
  PROVE  Bytes(a, b) \o Bytes(b, c) = Bytes(a, c)
<1>. DEFINE u == Bytes(a, b)
            v == Bytes(b, c)
            s == u \o v
            t == Bytes(a, c)
<1>. a <= c
  OBVIOUS
<1>1. /\ u \in Seq(Nat) /\ Len(u) = b - a /\ \A i \in 1..(b - a) : u[i] = a + i - 1
      /\ v \in Seq(Nat) /\ Len(v) = c - b /\ \A i \in 1..(c - b) : v[i] = b + i - 1
      /\ t \in Seq(Nat) /\ Len(t) = c - a /\ \A i \in 1..(c - a) : t[i] = a + i - 1
  BY BytesLength
<1>. HIDE DEF u, v, t
<1>2. /\ s \in Seq(Nat)
      /\ Len(s) = Len(u) + Len(v)
      /\ \A i \in 1..(Len(u) + Len(v)) : s[i] = IF i <= Len(u) THEN u[i] ELSE v[i - Len(u)]
  BY <1>1, ConcatProperties, Zenon
<1>. HIDE DEF s
<1>3. Len(s) = c - a
  BY <1>1, <1>2
<1>4. ASSUME NEW i \in 1..(c - a) PROVE s[i] = a + i - 1
  <2>1. s[i] = IF i <= b - a THEN u[i] ELSE v[i - (b - a)]
    BY <1>1, <1>2
  <2>2. CASE i <= b - a
    BY <1>1, <2>1, <2>2
  <2>3. CASE ~(i <= b - a)
    <3>1. i - (b - a) \in 1..(c - b)
      BY <2>3
    <3>2. v[i - (b - a)] = b + (i - (b - a)) - 1
      BY <1>1, <3>1
    <3>. QED  BY <2>1, <2>3, <3>2
  <2>. QED  BY <2>2, <2>3
<1>5. s = t
  BY <1>1, <1>2, <1>3, <1>4, SeqEqual
<1>. QED  BY <1>5 DEF s, t, u, v

(* The payload of a gathered box is what follows its header.               *)
LEMMA BytesSuffix ==
  ASSUME NEW a \in Nat, NEW b \in Nat, NEW c \in Nat, a <= b, b <= c
  PROVE  SubSeq(Bytes(a, c), b - a + 1, c - a) = Bytes(b, c)
<1>. DEFINE s == SubSeq(Bytes(a, c), b - a + 1, c - a)
            t == Bytes(b, c)
<1>. a <= c
  OBVIOUS
<1>1. /\ t \in Seq(Nat) /\ Len(t) = c - b
      /\ \A i \in 1..(c - b) : t[i] = b + i - 1
      /\ \A i \in 1..(c - a) : Bytes(a, c)[i] = a + i - 1
  BY BytesLength
<1>2. \A i \in (b - a + 1)..(c - a) : Bytes(a, c)[i] \in Nat
  BY <1>1
<1>3. /\ s \in Seq(Nat)
      /\ Len(s) = c - b
      /\ \A i \in 1..(c - b) : s[i] = Bytes(a, c)[b - a + i]
  BY <1>2, SubSeqProperties
<1>4. \A i \in 1..(c - b) : s[i] = t[i]
  BY <1>1, <1>3
<1>. HIDE DEF s, t
<1>5. s = t
  BY <1>1, <1>3, <1>4, SeqEqual
<1>. QED  BY <1>5 DEF s, t
-------------------------------------------------------------------------------
(* LEMMAS ABOUT FILES                                                      *)

(* What decoding gives at any offset of a file.                            *)
LEMMA HeaderType ==
  ASSUME file \in File, NEW o \in Offset
  PROVE  /\ file.length \in Nat
         /\ file.length < MaxPosition
         /\ o \in Nat
         /\ o <= MaxPosition
         /\ MaxPosition \in Nat
         /\ file.headers[o].length \in Nat
         /\ file.headers[o].length >= ShortestHeader
         /\ file.headers[o].length >= 1
         /\ Sized(file.headers[o]) => file.headers[o].total \in Nat
BY LayoutAssumption DEF File, Header, Offset, Sized

(* A sized box that spans its header ends past it, at an offset.           *)
LEMMA BoxEndType ==
  ASSUME file \in File, NEW o \in Offset,
         Sized(file.headers[o]), ~SizeBelowHeader(file.headers[o]),
         o + file.headers[o].length <= MaxPosition
  PROVE  /\ BoxEnd(o, file.headers[o]) \in Nat
         /\ BoxEnd(o, file.headers[o]) <= MaxPosition
         /\ o + file.headers[o].length <= BoxEnd(o, file.headers[o])
         /\ PayloadLength(file.headers[o]) \in Nat
         /\ BoxEnd(o, file.headers[o]) < MaxPosition =>
               BoxEnd(o, file.headers[o]) =
                 o + file.headers[o].length + PayloadLength(file.headers[o])
BY HeaderType DEF BoxEnd, SizeBelowHeader, AtMost, PayloadLength
-------------------------------------------------------------------------------
(* THE STEPS                                                               *)

FramingStep == [Framing!Next]_(Framing!vars)

(* The promise and the reader speak of the same files.                     *)
LEMMA SameLayout ==
  /\ \A h : Framing!SizeBelowHeader(h) = SizeBelowHeader(h)
  /\ \A h : Framing!Sized(h) = Sized(h)
  /\ \A h : Framing!PayloadLength(h) = PayloadLength(h)
  /\ \A o, h : Framing!BoxEnd(o, h) = BoxEnd(o, h)
  /\ \A a, b : Framing!Bytes(a, b) = Bytes(a, b)
  /\ \A a, b : Framing!AtMost(a, b) = AtMost(a, b)
  /\ Framing!Answer = Answer
  /\ Framing!NoAnswer = NoAnswer
  /\ Framing!Offset = Offset
BY DEF Framing!SizeBelowHeader, SizeBelowHeader, Framing!Sized, Sized,
       Framing!PayloadLength, PayloadLength, Framing!BoxEnd, BoxEnd,
       Framing!Bytes, Bytes, Framing!AtMost, AtMost, Framing!Answer, Answer,
       Framing!NoAnswer, NoAnswer, Framing!Offset, Offset

(* Before a header is read on: what is kept of it starts at the next box.  *)
LEMMA KeptHeader ==
  ASSUME IInv, ReadsHeader, WantsInput
  PROVE  /\ BetweenInv
         /\ seen.phase = "between"
         /\ seen.offset \in Nat
         /\ position \in Nat
         /\ seen.offset <= position
         /\ KeptGathered = Bytes(seen.offset, position)
         /\ Len(KeptGathered) = position - seen.offset
         /\ KeptNeeded \in Nat
         /\ KeptNeeded >= ShortestHeader
         /\ position - seen.offset < KeptNeeded
         /\ KeptNeeded <= file.headers[seen.offset].length
         /\ position > seen.offset => position <= file.length
<1>. /\ position \in Nat /\ seen.offset \in Nat
     /\ seen.offset \in Offset
  BY LayoutAssumption DEF IInv, TypeOK, Offset
<1>1. CASE progress = "Header"
  <2>1. HeaderInv /\ seen.phase = "between"
    BY <1>1 DEF IInv, WantsInput, HeaderInv, BetweenInv
  <2>2. KeptGathered = gathered /\ KeptNeeded = needed
    BY <1>1 DEF KeptGathered, KeptNeeded, IsGathered
  <2>. QED
    BY <2>1, <2>2, BytesLength, LayoutAssumption DEF IInv, TypeOK, HeaderInv
<1>2. CASE progress = "Gathered"
  <2>1. GatheredInv /\ seen.phase = "between" /\ seen.offset = position
    BY <1>2 DEF IInv, WantsInput, GatheredInv, BetweenInv
  <2>2. KeptGathered = <<>> /\ KeptNeeded = ShortestHeader
    BY <1>2 DEF KeptGathered, KeptNeeded, IsGathered
  <2>3. KeptGathered = Bytes(seen.offset, position)
    BY <2>1, <2>2, BytesEmpty
  <2>4. file.headers[seen.offset].length >= ShortestHeader
    BY HeaderType DEF IInv, TypeOK
  <2>. QED
    BY <2>1, <2>2, <2>3, <2>4, BytesLength, LayoutAssumption DEF GatheredInv
<1>. QED  BY <1>1, <1>2 DEF ReadsHeader

(* Reading on in a header: no event, the event that opens the next box, or *)
(* the failure of a header that leaves itself out.                         *)
LEMMA ReadHeaderStep ==
  ASSUME IInv, ReadsHeader, WantsInput, UNCHANGED <<file, atEndOfFile>>,
         NEW upTo \in 0..file.length, upTo > position,
         ReadHeader(upTo)
  PROVE  IInv' /\ FramingStep /\ position' >= position
<1>. DEFINE start == seen.offset
            header == file.headers[start]
            known == IF upTo - start < KeptNeeded THEN KeptNeeded ELSE header.length
            whole == upTo - start >= known
            taken == IF whole THEN start + known ELSE upTo
<1>1. /\ BetweenInv /\ seen.phase = "between"
      /\ start \in Nat /\ position \in Nat /\ start <= position
      /\ KeptGathered = Bytes(start, position)
      /\ Len(KeptGathered) = position - start
      /\ KeptNeeded \in Nat /\ KeptNeeded >= ShortestHeader
      /\ position - start < KeptNeeded
      /\ KeptNeeded <= header.length
  BY KeptHeader
<1>2. /\ start \in Offset /\ file \in File /\ file' = file /\ atEndOfFile' = atEndOfFile
  BY DEF IInv, TypeOK
<1>3. /\ file.length \in Nat /\ file.length < MaxPosition /\ MaxPosition \in Nat
      /\ header.length \in Nat /\ header.length >= ShortestHeader
      /\ Sized(header) => header.total \in Nat
      /\ upTo \in Nat /\ upTo <= file.length
  BY <1>2, HeaderType
<1>4. position - Len(KeptGathered) = start
  BY <1>1
<1>5. /\ known \in Nat /\ known >= ShortestHeader /\ known <= header.length
      /\ whole => known = header.length
      /\ taken \in Nat /\ position <= taken /\ taken <= upTo
      /\ ~whole => taken - start < known
      /\ whole => taken = start + header.length
  <2>. ShortestHeader \in Nat
    BY LayoutAssumption
  <2>1. CASE upTo - start < KeptNeeded
    <3>1. known = KeptNeeded /\ ~whole /\ taken = upTo
      BY <1>1, <1>3, <2>1
    <3>. QED  BY <1>1, <1>3, <2>1, <3>1
  <2>2. CASE ~(upTo - start < KeptNeeded)
    <3>1. known = header.length
      BY <2>2
    <3>2. CASE upTo - start >= header.length
      <4>1. whole /\ taken = start + header.length
        BY <3>1, <3>2
      <4>. QED  BY <1>1, <1>3, <3>1, <3>2, <4>1
    <3>3. CASE ~(upTo - start >= header.length)
      <4>1. ~whole /\ taken = upTo
        BY <3>1, <3>3
      <4>. QED  BY <1>1, <1>3, <3>1, <3>3, <4>1
    <3>. QED  BY <3>2, <3>3
  <2>. QED  BY <2>1, <2>2
<1>6. /\ position' = taken
      /\ gathered' = KeptGathered \o Bytes(position, taken)
      /\ \/ /\ ~whole
            /\ progress' = "Header"
            /\ needed' = known
            /\ UNCHANGED <<box, answer, seen>>
         \/ whole /\ SizeBelowHeader(header) /\ Fail
         \/ /\ whole
            /\ ~SizeBelowHeader(header)
            /\ progress' = "Opened"
            /\ needed' = ShortestHeader
            /\ box' = start
            /\ seen' = [seen EXCEPT !.phase = "opened", !.offset = start,
                                    !.delivered = <<>>]
            /\ UNCHANGED answer
  BY <1>4 DEF ReadHeader
<1>. HIDE DEF known, whole, taken
<1>7. gathered' = Bytes(start, taken)
  BY <1>1, <1>5, <1>6, BytesConcat
<1>8. position' \in Offset /\ gathered' \in Seq(Offset)
  BY <1>1, <1>3, <1>5, <1>6, <1>7, BytesType DEF Offset
<1>9. CASE /\ ~whole
           /\ progress' = "Header"
           /\ needed' = known
           /\ UNCHANGED <<box, answer, seen>>
  <2>1. TypeOK'
    BY <1>2, <1>5, <1>8, <1>9 DEF IInv, TypeOK, Progress
  <2>2. HeaderInv'
    <3>1. BetweenInv'
      BY <1>1, <1>2, <1>9 DEF BetweenInv
    <3>2. /\ seen'.phase = "between" /\ seen'.offset = start
          /\ position' - start < needed'
          /\ needed' <= file'.headers[start].length
          /\ start <= position' /\ position' <= file'.length
      BY <1>1, <1>2, <1>3, <1>5, <1>6, <1>9
    <3>. QED  BY <3>1, <3>2, <1>6, <1>7 DEF HeaderInv
  <2>3. FramingStep
    BY <1>2, <1>9 DEF FramingStep, Framing!vars
  <2>. QED  BY <2>1, <2>2, <2>3, <1>1, <1>5, <1>6, <1>9 DEF IInv
<1>10. CASE whole /\ SizeBelowHeader(header) /\ Fail
  <2>1. TypeOK'
    BY <1>2, <1>8, <1>10 DEF IInv, TypeOK, Fail, Progress
  <2>2. /\ progress' = "Failed" /\ seen'.phase = "failed"
    BY <1>10 DEF Fail, IInv, TypeOK
  <2>3. Framing!Refuse
    BY <1>1, <1>3, <1>5, <1>10, SameLayout
       DEF Fail, Framing!Refuse, Framing!Now, Framing!Become, Framing!PayloadStart, Framing!Here
  <2>. QED
    BY <2>1, <2>2, <2>3, <1>1, <1>2, <1>5, <1>6 DEF IInv, FramingStep, Framing!Next
<1>11. CASE /\ whole
            /\ ~SizeBelowHeader(header)
            /\ progress' = "Opened"
            /\ needed' = ShortestHeader
            /\ box' = start
            /\ seen' = [seen EXCEPT !.phase = "opened", !.offset = start,
                                    !.delivered = <<>>]
            /\ UNCHANGED answer
  <2>1. seen' = [seen EXCEPT !.phase = "opened", !.delivered = <<>>]
    BY <1>11 DEF IInv, TypeOK
  <2>2. TypeOK'
    <3>1. <<>> \in Seq(Offset)
      BY EmptySeq
    <3>2. seen' \in [phase : {"between", "opened", "reading", "ended", "failed"},
                     offset : Offset, answer : Answer \cup {NoAnswer},
                     delivered : Seq(Offset)]
      BY <2>1, <3>1 DEF IInv, TypeOK
    <3>. QED
      BY <1>2, <1>8, <1>11, <3>2, LayoutAssumption DEF IInv, TypeOK, Progress
  <2>3. /\ seen'.phase = "opened" /\ seen'.offset = start /\ seen'.delivered = <<>>
        /\ seen'.answer = seen.answer
    BY <2>1 DEF IInv, TypeOK
  <2>4. OpenedInv'
    <3>1. TheHeader' = header
      BY <1>2, <1>11 DEF TheHeader
    <3>2. /\ ~atEndOfFile /\ answer = NoAnswer /\ seen.answer = NoAnswer
      BY <1>1 DEF BetweenInv
    <3>3. start + header.length <= file.length
      BY <1>3, <1>5, <1>11
    <3>4. SizeBelowHeader(TheHeader)' = SizeBelowHeader(header)
      BY <3>1 DEF SizeBelowHeader, Sized
    <3>. QED
      BY <1>2, <1>5, <1>6, <1>7, <1>11, <2>3, <3>1, <3>2, <3>3, <3>4
         DEF OpenedInv, OpenBoxInv
  <2>5. Framing!Open
    BY <1>1, <1>3, <1>5, <1>11, <2>1, SameLayout
       DEF Framing!Open, Framing!Now, Framing!PayloadStart, Framing!Here
  <2>. QED
    BY <2>2, <2>4, <2>5, <1>1, <1>2, <1>5, <1>6, <1>11 DEF IInv, FramingStep, Framing!Next
<1>. QED
  BY <1>6, <1>9, <1>10, <1>11
-------------------------------------------------------------------------------
(* Where the payload of the box being read lies, and where the bytes that  *)
(* its answer asks for end.                                                *)
PayloadStart == box + TheHeader.length

PayloadEnd == IF Sized(TheHeader) THEN End ELSE file.length

AskedEnd ==
  IF answer.kind = "head" THEN AtMost(PayloadStart + answer.bytes, PayloadEnd)
                          ELSE PayloadEnd

(* What a caller answers to a header: one of four, with a bound in bytes.  *)
LEMMA AnswerType ==
  ASSUME NEW a \in Answer
  PROVE  /\ a.kind \in {"gather", "head", "stream", "skip"}
         /\ a.bytes \in Nat
<1>1. CASE a \in [kind : {"gather"}, bytes : Limits]
  BY <1>1, AnswerAssumption
<1>2. CASE a \in [kind : {"head"}, bytes : Heads]
  BY <1>2, AnswerAssumption
<1>3. CASE a \in [kind : {"stream", "skip"}, bytes : {0}]
  BY <1>3
<1>. QED  BY <1>1, <1>2, <1>3 DEF Answer

(* In a box whose header is read the caller and the reader mean one box.   *)
LEMMA OpenBox ==
  ASSUME TypeOK, OpenBoxInv
  PROVE  /\ Framing!Here = TheHeader
         /\ Framing!PayloadStart = PayloadStart
         /\ Framing!PayloadEnd = PayloadEnd
         /\ answer.kind = "head" => Framing!HeadEnd = AskedEnd
         /\ box \in Nat /\ box \in Offset /\ file \in File
         /\ file.length \in Nat /\ file.length < MaxPosition /\ MaxPosition \in Nat
         /\ TheHeader.length \in Nat /\ TheHeader.length >= 1
         /\ PayloadStart \in Nat /\ PayloadStart <= file.length
         /\ PayloadEnd \in Nat /\ PayloadStart <= PayloadEnd /\ PayloadEnd <= MaxPosition
         /\ PayloadEnd \in Offset
         /\ Sized(TheHeader) =>
              /\ PayloadLength(TheHeader) \in Nat
              /\ End < MaxPosition => End = PayloadStart + PayloadLength(TheHeader)
              /\ End <= PayloadStart + PayloadLength(TheHeader)
<1>1. /\ box \in Offset /\ file \in File /\ seen.offset = box /\ seen.answer = answer
      /\ ~SizeBelowHeader(TheHeader) /\ box + TheHeader.length <= file.length
  BY DEF TypeOK, OpenBoxInv
<1>2. Framing!Here = TheHeader /\ Framing!PayloadStart = PayloadStart
  BY <1>1 DEF Framing!Here, TheHeader, Framing!PayloadStart, PayloadStart
<1>3. Framing!PayloadEnd = PayloadEnd
  BY <1>1, <1>2, SameLayout DEF Framing!PayloadEnd, PayloadEnd, End
<1>4. answer.kind = "head" => Framing!HeadEnd = AskedEnd
  BY <1>1, <1>2, <1>3, SameLayout DEF Framing!HeadEnd, AskedEnd
<1>5. /\ file.length \in Nat /\ file.length < MaxPosition /\ MaxPosition \in Nat
      /\ box \in Nat /\ TheHeader.length \in Nat /\ TheHeader.length >= 1
      /\ Sized(TheHeader) => TheHeader.total \in Nat
  BY <1>1, HeaderType DEF TheHeader
<1>6. PayloadStart \in Nat /\ PayloadStart <= file.length
  BY <1>1, <1>5 DEF PayloadStart
<1>7. CASE Sized(TheHeader)
  <2>1. TheHeader.length <= TheHeader.total
    BY <1>1, <1>5, <1>7 DEF SizeBelowHeader
  <2>2. PayloadLength(TheHeader) \in Nat
    BY <1>5, <1>7, <2>1 DEF PayloadLength
  <2>3. /\ End \in Nat /\ End <= MaxPosition /\ PayloadStart <= End
        /\ End < MaxPosition => End = PayloadStart + PayloadLength(TheHeader)
        /\ End <= PayloadStart + PayloadLength(TheHeader)
    BY <1>5, <1>6, <1>7, <2>1 DEF End, BoxEnd, AtMost, PayloadStart, PayloadLength
  <2>. QED  BY <1>1, <1>2, <1>3, <1>4, <1>5, <1>6, <1>7, <2>2, <2>3 DEF PayloadEnd, Offset
<1>8. CASE ~Sized(TheHeader)
  BY <1>1, <1>2, <1>3, <1>4, <1>5, <1>6, <1>8 DEF PayloadEnd, Offset
<1>. QED  BY <1>7, <1>8

(* A box that closes with what was asked of it closes as promised.         *)
LEMMA CloseStep ==
  ASSUME IInv, progress = "Payload", UNCHANGED file,
         NEW at \in Offset, NEW bytes, NEW phase \in {"between", "ended"},
         CloseBox(at, bytes, phase),
         atEndOfFile' = (phase = "ended"),
         phase = "between" => Sized(TheHeader),
         phase = "ended" => PayloadEnd >= file.length,
         Sized(TheHeader) => at = End,
         answer.kind \in {"gather", "head"} => bytes = Bytes(box, AskedEnd),
         answer.kind \in {"gather", "head", "stream"} => AskedEnd <= file.length,
         answer.kind = "gather" => PayloadEnd - PayloadStart <= answer.bytes,
         answer.kind = "stream" => seen.delivered = Bytes(PayloadStart, PayloadEnd)
  PROVE  IInv' /\ FramingStep
<1>. DEFINE delivered == SubSeq(bytes, TheHeader.length + 1, Len(bytes))
<1>1. /\ TypeOK /\ PayloadInv /\ OpenBoxInv /\ seen.phase = "reading" /\ seen.offset = box
      /\ answer \in Answer /\ seen.answer = answer
  BY DEF IInv, PayloadInv, OpenBoxInv
<1>2. /\ Framing!Here = TheHeader
      /\ Framing!PayloadStart = PayloadStart
      /\ Framing!PayloadEnd = PayloadEnd
      /\ answer.kind = "head" => Framing!HeadEnd = AskedEnd
      /\ box \in Nat /\ box \in Offset /\ file \in File
      /\ file.length \in Nat /\ file.length < MaxPosition /\ MaxPosition \in Nat
      /\ TheHeader.length \in Nat /\ TheHeader.length >= 1
      /\ PayloadStart \in Nat /\ PayloadStart <= file.length
      /\ PayloadEnd \in Nat /\ PayloadStart <= PayloadEnd /\ PayloadEnd <= MaxPosition
      /\ PayloadEnd \in Offset
  BY <1>1, OpenBox
<1>3. answer.kind \in {"gather", "head", "stream", "skip"} /\ answer.bytes \in Nat
  BY <1>1, AnswerType
<1>4. /\ AskedEnd \in Nat /\ PayloadStart <= AskedEnd /\ AskedEnd <= MaxPosition
  BY <1>2, <1>3 DEF AskedEnd, AtMost
<1>5. PayloadStart = box + TheHeader.length
  BY DEF PayloadStart
<1>6. /\ NextBox(at) = (IF Sized(TheHeader) THEN PayloadEnd ELSE seen.offset)
      /\ NextBox(at) \in Offset
  BY <1>1, <1>2 DEF NextBox, ToFileEnd, PayloadEnd
<1>7. /\ position' = at /\ needed' = ShortestHeader /\ answer' = NoAnswer /\ box' = box
      /\ file' = file /\ TheHeader' = TheHeader
  BY DEF CloseBox, TheHeader
<1>8. ASSUME NEW d \in Seq(Offset),
             seen' = [phase |-> phase, offset |-> NextBox(at), answer |-> NoAnswer,
                      delivered |-> d],
             d = Framing!Asked
      PROVE  /\ FramingStep
             /\ BetweenInv'
             /\ seen' \in [phase : {"between", "opened", "reading", "ended", "failed"},
                            offset : Offset, answer : Answer \cup {NoAnswer},
                            delivered : Seq(Offset)]
  <2>1. Framing!AskedEnd <= file.length
    BY <1>2, <1>3, <1>4, <1>1 DEF Framing!AskedEnd, AskedEnd
  <2>2. seen.answer.kind = "stream" => seen.delivered = Framing!Asked
    BY <1>1, <1>2, SameLayout DEF Framing!Asked
  <2>3. Framing!Close
    BY <1>1, <1>2, <1>6, <1>8, <2>1, <2>2, SameLayout DEF Framing!Close, Framing!Now
  <2>. QED
    BY <1>6, <1>7, <1>8, <2>3 DEF FramingStep, Framing!Next, BetweenInv
<1>9. ASSUME gathered' \in Seq(Offset), progress' \in Progress,
             seen' \in [phase : {"between", "opened", "reading", "ended", "failed"},
                        offset : Offset, answer : Answer \cup {NoAnswer},
                        delivered : Seq(Offset)]
      PROVE  TypeOK'
  BY <1>2, <1>7, <1>9, LayoutAssumption DEF TypeOK
<1>10. CASE answer.kind \in {"gather", "head"}
  <2>1. /\ bytes = Bytes(box, AskedEnd)
        /\ Len(bytes) = AskedEnd - box
        /\ bytes \in Seq(Offset)
    <3>1. bytes = Bytes(box, AskedEnd)
      BY <1>10
    <3>2. box <= AskedEnd
      BY <1>2, <1>4, <1>5
    <3>. QED  BY <1>2, <1>4, <3>1, <3>2, BytesLength, BytesType
  <2>2. /\ TheHeader.length + 1 = PayloadStart - box + 1
    BY <1>2, <1>5
  <2>3. delivered = Bytes(PayloadStart, AskedEnd)
    <3>1. delivered = SubSeq(Bytes(box, AskedEnd), PayloadStart - box + 1, AskedEnd - box)
      BY <2>1, <2>2
    <3>2. /\ box \in Nat /\ PayloadStart \in Nat /\ AskedEnd \in Nat
          /\ box <= PayloadStart /\ PayloadStart <= AskedEnd
      BY <1>2, <1>4, <1>5
    <3>3. SubSeq(Bytes(box, AskedEnd), PayloadStart - box + 1, AskedEnd - box)
            = Bytes(PayloadStart, AskedEnd)
      <4>. HIDE DEF delivered
      <4>. QED  BY ONLY <3>2, BytesSuffix
    <3>. QED  BY ONLY <3>1, <3>3
  <2>4. delivered \in Seq(Offset) /\ Len(delivered) = AskedEnd - PayloadStart
    BY <1>2, <1>4, <2>3, BytesLength, BytesType
  <2>5. delivered = Framing!Asked
    BY <1>1, <1>2, <1>10, <2>3, SameLayout DEF Framing!Asked, AskedEnd
  <2>6. /\ progress' = "Gathered" /\ gathered' = bytes
        /\ seen' = [phase |-> phase, offset |-> NextBox(at), answer |-> NoAnswer,
                    delivered |-> delivered]
    BY <1>10 DEF CloseBox
  <2>. HIDE DEF delivered
  <2>7. /\ FramingStep /\ BetweenInv'
        /\ seen' \in [phase : {"between", "opened", "reading", "ended", "failed"},
                       offset : Offset, answer : Answer \cup {NoAnswer},
                       delivered : Seq(Offset)]
    BY <1>8, <2>4, <2>5, <2>6
  <2>8. TypeOK'
    BY <1>9, <2>1, <2>6, <2>7 DEF Progress
  <2>9. GatheredInv'
    <3>0. /\ box' = box /\ TheHeader'.length = TheHeader.length
          /\ seen'.delivered = delivered
      BY <1>7, <2>6
    <3>00. /\ box \in Nat /\ TheHeader.length \in Nat /\ AskedEnd \in Nat
           /\ Len(delivered) = AskedEnd - (box + TheHeader.length)
      BY <1>2, <1>4, <1>5, <2>4
    <3>1. box' + TheHeader'.length + Len(seen'.delivered) = AskedEnd
      BY ONLY <3>0, <3>00
    <3>2. gathered' = Bytes(box', box' + TheHeader'.length + Len(seen'.delivered))
      BY <1>7, <2>1, <2>6, <3>1
    <3>3. seen'.phase = "between" => seen'.offset = position'
      BY <1>6, <1>7, <2>6 DEF PayloadEnd
    <3>4. box' + TheHeader'.length <= MaxPosition
      BY <1>2, <1>5, <1>7
    <3>. QED  BY <2>7, <3>2, <3>3, <3>4 DEF GatheredInv
  <2>. QED  BY <2>6, <2>7, <2>8, <2>9 DEF IInv
<1>11. CASE answer.kind \in {"stream", "skip"}
  <2>1. /\ progress' = "Header" /\ gathered' = <<>>
        /\ seen' = [seen EXCEPT !.phase = phase, !.offset = NextBox(at),
                                !.answer = NoAnswer]
    BY <1>11 DEF CloseBox
  <2>2. seen' = [phase |-> phase, offset |-> NextBox(at), answer |-> NoAnswer,
                 delivered |-> seen.delivered]
    BY <1>1, <2>1 DEF TypeOK
  <2>3. seen.delivered \in Seq(Offset) /\ seen.delivered = Framing!Asked
    BY <1>1, <1>2, <1>11, SameLayout DEF Framing!Asked, OpenBoxInv, TypeOK
  <2>4. /\ FramingStep /\ BetweenInv'
        /\ seen' \in [phase : {"between", "opened", "reading", "ended", "failed"},
                       offset : Offset, answer : Answer \cup {NoAnswer},
                       delivered : Seq(Offset)]
    BY <1>8, <2>2, <2>3
  <2>5. TypeOK'
    BY <1>9, <2>1, <2>4, EmptySeq DEF Progress
  <2>6. HeaderInv'
    <3>1. CASE phase = "ended"
      BY <2>1, <2>2, <2>4, <3>1 DEF HeaderInv
    <3>2. CASE phase = "between"
      <4>1. seen'.offset = at /\ seen'.phase = "between"
        BY <1>6, <2>2, <3>2 DEF PayloadEnd
      <4>2. at \in Nat /\ gathered' = Bytes(at, at)
        BY <2>1, <1>2, BytesEmpty DEF Offset
      <4>3. file'.headers[at].length >= ShortestHeader
        BY <1>2, <1>7, HeaderType
      <4>. QED  BY <1>7, <2>4, <4>1, <4>2, <4>3, LayoutAssumption DEF HeaderInv
    <3>. QED  BY <3>1, <3>2
  <2>. QED  BY <2>1, <2>4, <2>5, <2>6 DEF IInv
<1>. QED  BY <1>3, <1>10, <1>11

(* What the reader knows of the box it reads the payload of.               *)
LEMMA InPayload ==
  ASSUME IInv, progress = "Payload"
  PROVE  /\ TypeOK /\ PayloadInv /\ OpenBoxInv /\ seen.phase = "reading"
         /\ answer \in Answer /\ answer.bytes \in Nat
         /\ answer.kind \in {"gather", "head", "stream", "skip"}
         /\ position \in Nat /\ position \in Offset
         /\ ToFileEnd = ~Sized(TheHeader)
         /\ PayloadEnd = IF Sized(TheHeader) THEN End ELSE file.length
         /\ AskedEnd = IF answer.kind = "head"
                       THEN AtMost(PayloadStart + answer.bytes, PayloadEnd) ELSE PayloadEnd
         /\ PayloadStart = box + TheHeader.length
<1>1. TypeOK /\ PayloadInv /\ OpenBoxInv /\ seen.phase = "reading" /\ answer \in Answer
  BY DEF IInv, PayloadInv
<1>2. answer.bytes \in Nat /\ answer.kind \in {"gather", "head", "stream", "skip"}
  BY <1>1, AnswerType
<1>3. position \in Nat /\ position \in Offset
  BY <1>1, LayoutAssumption DEF TypeOK, Offset
<1>. QED
  BY <1>1, <1>2, <1>3 DEF ToFileEnd, PayloadEnd, AskedEnd, PayloadStart

(* A skipped box is behind the reader as soon as it is answered.           *)
LEMMA ReadSkippedStep ==
  ASSUME IInv, progress = "Payload", WantsInput, UNCHANGED <<file, atEndOfFile>>, ReadSkipped
  PROVE  IInv' /\ FramingStep /\ position' >= position
<1>1. /\ answer.kind = "skip" /\ Sized(TheHeader)
      /\ CloseBox(position, gathered, "between")
  BY InPayload DEF ReadSkipped
<1>2. position = End /\ position \in Offset /\ position \in Nat
  BY <1>1, InPayload DEF PayloadInv, SkipInv
<1>3. atEndOfFile' = FALSE
  BY InPayload DEF OpenBoxInv
<1>4. IInv' /\ FramingStep
  BY <1>1, <1>2, <1>3, CloseStep
<1>. QED  BY <1>1, <1>2, <1>4 DEF CloseBox

(* A piece of a streamed payload is handed over, or the box closes with    *)
(* all of it handed over.                                                  *)
LEMMA ReadStreamedStep ==
  ASSUME IInv, progress = "Payload", WantsInput, UNCHANGED <<file, atEndOfFile>>,
         NEW upTo \in 0..file.length, upTo > position, ReadStreamed(upTo)
  PROVE  IInv' /\ FramingStep /\ position' >= position
<1>. DEFINE taken == IF ToFileEnd THEN upTo ELSE AtMost(upTo, AtLeast(End, position))
<1>1. /\ answer.kind = "stream" /\ StreamInv
      /\ TypeOK /\ OpenBoxInv /\ answer \in Answer
      /\ position \in Nat /\ PayloadStart = box + TheHeader.length
      /\ seen.phase = "reading" /\ seen.offset = box /\ seen.answer = answer
  BY InPayload DEF ReadStreamed, PayloadInv, OpenBoxInv
<1>2. /\ file.length \in Nat /\ file.length < MaxPosition /\ MaxPosition \in Nat
      /\ PayloadStart \in Nat /\ PayloadEnd \in Nat /\ PayloadEnd <= MaxPosition
      /\ Framing!PayloadStart = PayloadStart /\ Framing!PayloadEnd = PayloadEnd
      /\ upTo \in Nat /\ upTo <= file.length
  BY <1>1, OpenBox
<1>3. /\ PayloadStart <= position /\ position <= file.length /\ position <= PayloadEnd
      /\ gathered = Bytes(box, PayloadStart)
      /\ seen.delivered = Bytes(PayloadStart, position)
  BY <1>1, <1>2 DEF StreamInv, PayloadEnd, ToFileEnd
<1>4. /\ taken \in Nat /\ position <= taken /\ taken <= upTo /\ taken <= PayloadEnd
      /\ taken = position => Sized(TheHeader) /\ position = PayloadEnd
  <2>1. CASE Sized(TheHeader)
    <3>1. PayloadEnd = End /\ taken = AtMost(upTo, AtLeast(End, position))
      BY <2>1 DEF PayloadEnd, ToFileEnd
    <3>. QED  BY <1>1, <1>2, <1>3, <2>1, <3>1 DEF AtMost, AtLeast
  <2>2. CASE ~Sized(TheHeader)
    <3>1. PayloadEnd = file.length /\ taken = upTo
      BY <2>2 DEF PayloadEnd, ToFileEnd
    <3>. QED  BY <1>1, <1>2, <1>3, <2>2, <3>1
  <2>. QED  BY <2>1, <2>2
<1>5. \/ /\ taken > position
         /\ position' = taken
         /\ seen' = [seen EXCEPT !.delivered = @ \o Bytes(position, taken)]
         /\ UNCHANGED <<progress, needed, box, answer, gathered>>
      \/ taken = position /\ CloseBox(position, gathered, "between")
  BY DEF ReadStreamed
<1>. HIDE DEF taken
<1>6. CASE /\ taken > position
           /\ position' = taken
           /\ seen' = [seen EXCEPT !.delivered = @ \o Bytes(position, taken)]
           /\ UNCHANGED <<progress, needed, box, answer, gathered>>
  <2>0. /\ PayloadStart \in Nat /\ position \in Nat /\ taken \in Nat
        /\ PayloadStart <= position /\ position <= taken /\ PayloadStart <= taken
        /\ taken <= MaxPosition /\ MaxPosition \in Nat
    BY <1>1, <1>2, <1>3, <1>4
  <2>1. seen.delivered \o Bytes(position, taken) = Bytes(PayloadStart, taken)
    <3>1. Bytes(PayloadStart, position) \o Bytes(position, taken) = Bytes(PayloadStart, taken)
      BY ONLY <2>0, BytesConcat
    <3>2. seen.delivered = Bytes(PayloadStart, position)
      BY <1>3
    <3>. QED  BY ONLY <3>1, <3>2
  <2>2. Bytes(PayloadStart, taken) \in Seq(Offset) /\ taken \in Offset
    BY <2>0, BytesType DEF Offset
  <2>3. /\ seen' = [seen EXCEPT !.delivered = Bytes(PayloadStart, taken)]
        /\ seen'.delivered = Bytes(PayloadStart, taken)
        /\ seen'.phase = seen.phase /\ seen'.offset = seen.offset
        /\ seen'.answer = seen.answer
    BY <1>1, <1>6, <2>1 DEF TypeOK
  <2>4. TypeOK'
    BY <1>1, <1>6, <2>2, <2>3 DEF TypeOK
  <2>5. TheHeader' = TheHeader /\ End' = End /\ ToFileEnd' = ToFileEnd
    BY <1>6 DEF TheHeader, End, ToFileEnd
  <2>6. OpenBoxInv'
    BY <1>1, <1>6, <2>3, <2>5 DEF OpenBoxInv
  <2>7. StreamInv'
    BY <1>1, <1>2, <1>3, <1>4, <1>6, <2>3, <2>5 DEF StreamInv, PayloadEnd, ToFileEnd
  <2>8. PayloadInv'
    BY <1>1, <1>6, <2>3, <2>6, <2>7 DEF PayloadInv
  <2>9. Framing!Deliver(taken)
    <3>1. PayloadStart + Len(seen.delivered) = position
      BY <2>0, <1>3, BytesLength
    <3>2. taken <= AtMost(PayloadEnd, file.length)
      BY <1>2, <1>4 DEF AtMost
    <3>. QED
      BY <1>1, <1>2, <1>6, <3>1, <3>2, SameLayout DEF Framing!Deliver, Framing!Now
  <2>. QED
    BY <1>1, <1>4, <1>6, <2>2, <2>4, <2>8, <2>9, SameLayout
       DEF IInv, FramingStep, Framing!Next
<1>7. CASE taken = position /\ CloseBox(position, gathered, "between")
  <2>1. Sized(TheHeader) /\ position = PayloadEnd /\ position = End
    BY <1>4, <1>7 DEF PayloadEnd
  <2>2. seen.delivered = Bytes(PayloadStart, PayloadEnd) /\ AskedEnd <= file.length
    BY <1>1, <1>3, <2>1 DEF AskedEnd
  <2>3. atEndOfFile' = FALSE /\ position \in Offset
    BY <1>1 DEF OpenBoxInv, TypeOK
  <2>4. IInv' /\ FramingStep
    BY <1>1, <1>7, <2>1, <2>2, <2>3, CloseStep
  <2>. QED  BY <1>1, <1>7, <2>4 DEF CloseBox
<1>. QED  BY <1>5, <1>6, <1>7

(* A box that is not through yet, with more of it gathered: no event.      *)
LEMMA KeepStep ==
  ASSUME IInv, progress = "Payload", UNCHANGED <<file, atEndOfFile>>,
         NEW at \in Nat, NEW bytes, KeepBox(at, bytes),
         bytes = Bytes(box, at),
         box + TheHeader.length <= at, at <= file.length,
         answer.kind \in {"gather", "head"},
         answer.kind = "gather" =>
           /\ at - (box + TheHeader.length) <= answer.bytes
           /\ ~ToFileEnd => at <= End /\ PayloadLength(TheHeader) <= answer.bytes,
         answer.kind = "head" =>
           /\ at <= box + TheHeader.length + HeadBytes
           /\ ~ToFileEnd => at < box + TheHeader.length + HeadBytes
  PROVE  IInv' /\ FramingStep
<1>1. /\ TypeOK /\ PayloadInv /\ OpenBoxInv /\ seen.phase = "reading" /\ answer \in Answer
  BY InPayload
<1>2. /\ box \in Nat /\ TheHeader.length \in Nat /\ file.length \in Nat
      /\ file.length < MaxPosition /\ MaxPosition \in Nat
  BY <1>1, OpenBox
<1>3. /\ position' = at /\ gathered' = bytes
      /\ UNCHANGED <<file, atEndOfFile, progress, needed, box, answer, seen>>
  BY DEF KeepBox
<1>4. at \in Offset /\ bytes \in Seq(Offset)
  <2>1. /\ at \in 0..file.length /\ at \in Offset
        /\ box <= at
    BY <1>2 DEF Offset
  <2>2. Bytes(box, at) \in Seq(Offset)
    BY <2>1, <1>2, BytesType
  <2>. QED  BY <2>1, <2>2
<1>5. TypeOK'
  BY <1>1, <1>3, <1>4 DEF TypeOK
<1>6. /\ TheHeader' = TheHeader /\ End' = End /\ ToFileEnd' = ToFileEnd
      /\ HeadBytes' = HeadBytes
  BY <1>3 DEF TheHeader, End, ToFileEnd, HeadBytes
<1>7. OpenBoxInv'
  BY <1>1, <1>3, <1>6 DEF OpenBoxInv
<1>8. answer'.kind = "gather" => GatherInv'
  BY <1>3, <1>6 DEF GatherInv
<1>9. answer'.kind = "head" => HeadInv'
  BY <1>3, <1>6 DEF HeadInv
<1>10. PayloadInv'
  BY <1>1, <1>3, <1>7, <1>8, <1>9 DEF PayloadInv
<1>. QED
  BY <1>3, <1>5, <1>10 DEF IInv, FramingStep, Framing!vars

(* Where a head that is all there ends.                                    *)
LEMMA HeadEnds ==
  ASSUME IInv, progress = "Payload", answer.kind = "head"
  PROVE  /\ HeadBytes \in Nat
         /\ ~Sized(TheHeader) => AskedEnd = AtMost(PayloadStart + HeadBytes, file.length)
         /\ Sized(TheHeader) /\ PayloadStart + HeadBytes <= file.length =>
               AskedEnd = PayloadStart + HeadBytes
         /\ Sized(TheHeader) /\ PayloadStart + HeadBytes > file.length =>
               AskedEnd > file.length
         /\ Sized(TheHeader) => PayloadStart + HeadBytes >= AskedEnd
<1>1. /\ answer.bytes \in Nat /\ TypeOK /\ OpenBoxInv /\ ToFileEnd = ~Sized(TheHeader)
      /\ PayloadEnd = IF Sized(TheHeader) THEN End ELSE file.length
      /\ AskedEnd = AtMost(PayloadStart + answer.bytes, PayloadEnd)
  BY InPayload
<1>2. /\ file.length \in Nat /\ file.length < MaxPosition /\ MaxPosition \in Nat
      /\ PayloadStart \in Nat /\ PayloadEnd \in Nat
      /\ Sized(TheHeader) =>
              /\ PayloadLength(TheHeader) \in Nat
              /\ End < MaxPosition => End = PayloadStart + PayloadLength(TheHeader)
              /\ End <= PayloadStart + PayloadLength(TheHeader)
              /\ End <= MaxPosition
  BY <1>1, OpenBox DEF PayloadEnd
<1>3. CASE Sized(TheHeader)
  <2>1. HeadBytes = AtMost(answer.bytes, PayloadLength(TheHeader)) /\ PayloadEnd = End
    BY <1>1, <1>3 DEF HeadBytes
  <2>2. PayloadLength(TheHeader) \in Nat /\ End \in Nat
    BY <1>2, <1>3, <2>1
  <2>3. CASE End < MaxPosition
    <3>1. End = PayloadStart + PayloadLength(TheHeader)
      BY <1>2, <1>3, <2>3
    <3>. QED  BY <1>1, <1>2, <1>3, <2>1, <2>2, <3>1 DEF AtMost
  <2>4. CASE End = MaxPosition
    <3>1. End <= PayloadStart + PayloadLength(TheHeader)
      BY <1>2, <1>3
    <3>. QED  BY <1>1, <1>2, <1>3, <2>1, <2>2, <2>4, <3>1 DEF AtMost
  <2>. QED  BY <1>2, <1>3, <2>2, <2>3, <2>4
<1>4. CASE ~Sized(TheHeader)
  BY <1>1, <1>2, <1>4 DEF HeadBytes, AtMost
<1>. QED  BY <1>3, <1>4

(* A head is gathered as far as the input goes, and the box closes once it *)
(* is whole, its payload passed.                                           *)
LEMMA ReadHeadStep ==
  ASSUME IInv, progress = "Payload", WantsInput, UNCHANGED <<file, atEndOfFile>>,
         NEW upTo \in 0..file.length, upTo > position, ReadHead(upTo)
  PROVE  IInv' /\ FramingStep /\ position' >= position
<1>. DEFINE taken == AtMost(upTo, position + HeadWanted)
            bytes == gathered \o Bytes(position, taken)
            complete == ~ToFileEnd /\ Len(bytes) - TheHeader.length >= HeadBytes
<1>1. /\ answer.kind = "head" /\ HeadInv
      /\ TypeOK /\ OpenBoxInv /\ answer \in Answer /\ answer.bytes \in Nat
      /\ position \in Nat /\ PayloadStart = box + TheHeader.length
      /\ ToFileEnd = ~Sized(TheHeader)
      /\ PayloadEnd = IF Sized(TheHeader) THEN End ELSE file.length
      /\ seen.phase = "reading" /\ seen.offset = box /\ seen.answer = answer
  BY InPayload DEF ReadHead, PayloadInv, OpenBoxInv
<1>2. /\ file.length \in Nat /\ file.length < MaxPosition /\ MaxPosition \in Nat
      /\ box \in Nat /\ TheHeader.length \in Nat
      /\ PayloadStart \in Nat /\ PayloadEnd \in Nat /\ PayloadEnd <= MaxPosition
      /\ PayloadStart <= PayloadEnd /\ PayloadEnd \in Offset
      /\ PayloadStart <= file.length
      /\ upTo \in Nat /\ upTo <= file.length
      /\ Sized(TheHeader) =>
              /\ PayloadLength(TheHeader) \in Nat
              /\ End < MaxPosition => End = PayloadStart + PayloadLength(TheHeader)
              /\ End <= PayloadStart + PayloadLength(TheHeader)
              /\ End \in Nat /\ End \in Offset
  BY <1>1, OpenBox DEF PayloadEnd
<1>3. /\ HeadBytes \in Nat
      /\ ~Sized(TheHeader) => AskedEnd = AtMost(PayloadStart + HeadBytes, file.length)
      /\ Sized(TheHeader) /\ PayloadStart + HeadBytes <= file.length =>
            AskedEnd = PayloadStart + HeadBytes
      /\ Sized(TheHeader) => AskedEnd <= PayloadEnd
  <2>1. Sized(TheHeader) => AskedEnd <= PayloadEnd
    BY <1>1, <1>2 DEF AskedEnd, AtMost
  <2>. QED  BY <1>1, <2>1, HeadEnds
<1>4. atEndOfFile' = FALSE
  BY <1>1 DEF OpenBoxInv
<1>5. IF complete THEN CloseBox(End, bytes, "between") ELSE KeepBox(taken, bytes)
  BY DEF ReadHead
<1>6. CASE /\ ~ToFileEnd /\ HeadBytes = 0 /\ position = End
           /\ gathered = Bytes(box, PayloadStart)
  <2>0. box <= PayloadStart /\ box \in Nat /\ PayloadStart \in Nat
    BY <1>1, <1>2
  <2>1. Len(gathered) = PayloadStart - box
    BY <1>6, <2>0, BytesLength
  <2>2. HeadWanted = 0
    <3>1. Remaining = 0
      BY <1>1, <1>6 DEF Remaining, AtLeast
    <3>2. GatheredPayload = 0
      BY <1>1, <1>2, <2>1 DEF GatheredPayload, AtLeast
    <3>. QED  BY <1>6, <3>1, <3>2 DEF HeadWanted, AtMost, AtLeast
  <2>3. taken = position
    BY <1>1, <1>2, <2>2 DEF AtMost
  <2>4. bytes = gathered
    <3>1. Bytes(position, taken) = <<>>
      BY <1>1, <2>3, BytesEmpty
    <3>. QED  BY <1>1, <3>1, ConcatEmptySeq DEF TypeOK
  <2>5. complete
    BY <1>1, <1>2, <1>6, <2>1, <2>4
  <2>6. CloseBox(End, bytes, "between") /\ Sized(TheHeader)
    BY <1>1, <1>5, <1>6, <2>5
  <2>7. AskedEnd = PayloadStart
    BY <1>2, <1>3, <1>6, <2>6
  <2>. HIDE DEF bytes, taken, complete
  <2>8. /\ bytes = Bytes(box, AskedEnd) /\ AskedEnd <= file.length
    BY <1>2, <1>6, <2>4, <2>7
  <2>9. IInv' /\ FramingStep
    BY <1>1, <1>2, <1>4, <2>6, <2>8, CloseStep
  <2>. QED  BY <1>1, <1>6, <2>6, <2>9 DEF CloseBox
<1>7. CASE /\ gathered = Bytes(box, position)
           /\ PayloadStart <= position
           /\ position <= file.length
           /\ position <= PayloadStart + HeadBytes
           /\ ~ToFileEnd => position < PayloadStart + HeadBytes
  <2>1. Len(gathered) = position - box
    <3>1. box <= position
      BY <1>1, <1>2, <1>7
    <3>. QED  BY <1>1, <1>2, <1>7, <3>1, BytesLength
  <2>2. GatheredPayload = position - PayloadStart
    BY <1>1, <1>2, <1>7, <2>1 DEF GatheredPayload, AtLeast
  <2>3. /\ taken \in Nat /\ position <= taken /\ taken <= upTo
        /\ taken <= PayloadStart + HeadBytes
        /\ ~Sized(TheHeader) => taken <= PayloadStart + HeadBytes
    BY <1>1, <1>2, <1>3, <1>7, <2>2 DEF HeadWanted, Remaining, AtMost, AtLeast
  <2>. HIDE DEF taken
  <2>4. /\ box \in Nat /\ box <= position /\ box <= taken /\ taken <= MaxPosition
        /\ taken <= file.length /\ PayloadStart <= taken
    BY <1>1, <1>2, <1>7, <2>3
  <2>5. bytes = Bytes(box, taken) /\ Len(bytes) = taken - box
    <3>0. /\ box \in Nat /\ position \in Nat /\ taken \in Nat
          /\ box <= position /\ position <= taken
      BY <1>1, <2>3, <2>4
    <3>1. Bytes(box, position) \o Bytes(position, taken) = Bytes(box, taken)
      BY ONLY <3>0, BytesConcat
    <3>2. bytes = Bytes(box, taken)
      BY <1>7, <3>1
    <3>. QED  BY <2>3, <2>4, <3>2, BytesLength
  <2>. HIDE DEF bytes
  <2>6. CASE complete
    <3>0. Sized(TheHeader) /\ taken - box - TheHeader.length >= HeadBytes
      BY <1>1, <2>5, <2>6
    <3>1. Sized(TheHeader) /\ taken = PayloadStart + HeadBytes
      BY <1>1, <1>2, <1>3, <2>3, <3>0
    <3>2. AskedEnd = taken
      BY <1>3, <2>4, <3>1
    <3>3. CloseBox(End, bytes, "between")
      BY <1>5, <2>6
    <3>4. IInv' /\ FramingStep
      BY <1>1, <1>2, <1>4, <2>4, <2>5, <3>1, <3>2, <3>3, CloseStep
    <3>5. position' = End /\ position <= End
      BY <1>1, <1>2, <1>3, <2>3, <3>1, <3>2, <3>3 DEF CloseBox
    <3>. QED  BY <3>4, <3>5
  <2>7. CASE ~complete
    <3>1. KeepBox(taken, bytes)
      BY <1>5, <2>7
    <3>2. ~ToFileEnd => taken < PayloadStart + HeadBytes
      BY <1>1, <1>2, <1>3, <2>3, <2>4, <2>5, <2>7
    <3>3. IInv' /\ FramingStep
      BY <1>1, <2>3, <2>4, <2>5, <3>1, <3>2, KeepStep
    <3>. QED  BY <2>3, <3>1, <3>3 DEF KeepBox
  <2>. QED  BY <2>6, <2>7
<1>. QED  BY <1>1, <1>6, <1>7 DEF HeadInv

(* A payload is gathered as far as the input goes: the box closes once it  *)
(* is whole, and one to the end of the file fails past its limit.          *)
LEMMA ReadGatheredStep ==
  ASSUME IInv, progress = "Payload", WantsInput, UNCHANGED <<file, atEndOfFile>>,
         NEW upTo \in 0..file.length, upTo > position, ReadGathered(upTo)
  PROVE  IInv' /\ FramingStep /\ position' >= position
<1>. DEFINE pastLimit == AtLeast(answer.bytes - GatheredPayload, 0) + 1
            wanted == IF ToFileEnd THEN pastLimit ELSE AtMost(Remaining, pastLimit)
            taken == AtMost(upTo, position + wanted)
            bytes == gathered \o Bytes(position, taken)
            tooLong == GatheredPayload + (taken - position) > answer.bytes
            complete == ~ToFileEnd /\ taken = End
<1>1. /\ answer.kind = "gather" /\ GatherInv
      /\ TypeOK /\ OpenBoxInv /\ answer \in Answer /\ answer.bytes \in Nat
      /\ position \in Nat /\ PayloadStart = box + TheHeader.length
      /\ ToFileEnd = ~Sized(TheHeader)
      /\ PayloadEnd = IF Sized(TheHeader) THEN End ELSE file.length
      /\ AskedEnd = PayloadEnd
      /\ seen.phase = "reading" /\ seen.offset = box /\ seen.answer = answer
  BY InPayload DEF ReadGathered, PayloadInv, OpenBoxInv
<1>2. /\ file.length \in Nat /\ file.length < MaxPosition /\ MaxPosition \in Nat
      /\ box \in Nat /\ TheHeader.length \in Nat
      /\ PayloadStart \in Nat /\ PayloadEnd \in Nat /\ PayloadEnd <= MaxPosition
      /\ PayloadStart <= PayloadEnd /\ PayloadEnd \in Offset
      /\ Framing!PayloadStart = PayloadStart /\ Framing!PayloadEnd = PayloadEnd
      /\ Framing!Here = TheHeader
      /\ upTo \in Nat /\ upTo <= file.length
      /\ Sized(TheHeader) =>
              /\ PayloadLength(TheHeader) \in Nat
              /\ End <= PayloadStart + PayloadLength(TheHeader)
  BY <1>1, OpenBox
<1>3. /\ gathered = Bytes(box, position)
      /\ PayloadStart <= position /\ position <= file.length
      /\ position - PayloadStart <= answer.bytes
      /\ Sized(TheHeader) => position <= PayloadEnd /\ PayloadLength(TheHeader) <= answer.bytes
  BY <1>1 DEF GatherInv
<1>4. box <= position /\ Len(gathered) = position - box
  <2>1. box <= position
    BY <1>1, <1>2, <1>3
  <2>. QED  BY <1>1, <1>2, <1>3, <2>1, BytesLength
<1>5. GatheredPayload = position - PayloadStart
  BY <1>1, <1>2, <1>3, <1>4 DEF GatheredPayload, AtLeast
<1>6. pastLimit = answer.bytes - (position - PayloadStart) + 1
  BY <1>1, <1>2, <1>3, <1>5 DEF AtLeast
<1>. HIDE DEF pastLimit
<1>7. /\ taken \in Nat /\ position <= taken /\ taken <= upTo
      /\ Sized(TheHeader) => taken <= PayloadEnd
      /\ taken - PayloadStart <= answer.bytes + 1
  <2>1. CASE Sized(TheHeader)
    <3>0. /\ End = PayloadEnd /\ position <= PayloadEnd /\ ~ToFileEnd
          /\ position \in Nat /\ PayloadEnd \in Nat
      BY <1>1, <1>2, <1>3, <2>1
    <3>2. Remaining = PayloadEnd - position
      BY <3>0 DEF Remaining, AtLeast
    <3>1. wanted = AtMost(PayloadEnd - position, pastLimit)
      BY <3>0, <3>2
    <3>. QED  BY <1>1, <1>2, <1>3, <1>6, <2>1, <3>1 DEF AtMost
  <2>2. CASE ~Sized(TheHeader)
    <3>1. wanted = pastLimit
      BY <1>1, <2>2
    <3>. QED  BY <1>1, <1>2, <1>3, <1>6, <2>2, <3>1 DEF AtMost
  <2>. QED  BY <2>1, <2>2
<1>8. tooLong <=> taken - PayloadStart > answer.bytes
  BY <1>1, <1>2, <1>5, <1>7
<1>9. IF tooLong
      THEN position' = taken /\ UNCHANGED gathered /\ Fail
      ELSE IF complete THEN CloseBox(taken, bytes, "between") ELSE KeepBox(taken, bytes)
  BY DEF ReadGathered, pastLimit
<1>. HIDE DEF wanted, taken, tooLong
<1>10. /\ box <= taken /\ taken <= MaxPosition /\ taken <= file.length /\ PayloadStart <= taken
       /\ taken \in Offset
  <2>1. taken <= file.length /\ PayloadStart <= taken
    BY <1>1, <1>2, <1>3, <1>7
  <2>2. box <= taken
    BY <1>1, <1>2, <1>4, <1>7
  <2>. QED  BY <1>2, <1>7, <2>1, <2>2 DEF Offset
<1>11. bytes = Bytes(box, taken)
  <2>1. position \in Nat /\ box \in Nat /\ taken \in Nat /\ box <= position /\ position <= taken
    BY <1>1, <1>2, <1>4, <1>7
  <2>. QED  BY <1>3, <2>1, BytesConcat
<1>. HIDE DEF bytes
<1>12. CASE tooLong
  <2>1. position' = taken /\ UNCHANGED gathered /\ Fail
    BY <1>9, <1>12
  <2>2. ~Sized(TheHeader) /\ PayloadEnd - PayloadStart > answer.bytes
    <3>1. taken - PayloadStart > answer.bytes
      BY <1>8, <1>12
    <3>2. ~Sized(TheHeader)
      BY <1>1, <1>2, <1>3, <1>7, <3>1
    <3>. QED  BY <1>1, <1>2, <1>7, <1>10, <3>1, <3>2
  <2>3. TypeOK'
    BY <1>1, <1>10, <2>1 DEF TypeOK, Fail, Progress
  <2>4. progress' = "Failed" /\ seen'.phase = "failed"
    BY <1>1, <2>1 DEF Fail, TypeOK
  <2>5. Framing!Refuse
    BY <1>1, <1>2, <2>1, <2>2, SameLayout
       DEF Fail, Framing!Refuse, Framing!Now, Framing!Become
  <2>. QED
    BY <1>7, <2>1, <2>3, <2>4, <2>5 DEF IInv, FramingStep, Framing!Next
<1>13. CASE ~tooLong /\ complete
  <2>1. CloseBox(taken, bytes, "between")
    BY <1>9, <1>13
  <2>2. Sized(TheHeader) /\ taken = End /\ taken = PayloadEnd
    BY <1>1, <1>13
  <2>3. /\ bytes = Bytes(box, AskedEnd) /\ AskedEnd <= file.length
        /\ PayloadEnd - PayloadStart <= answer.bytes
    <3>1. ~(taken - PayloadStart > answer.bytes)
      BY <1>8, <1>13
    <3>. QED  BY <1>1, <1>2, <1>7, <1>10, <1>11, <2>2, <3>1
  <2>4. atEndOfFile' = FALSE
    BY <1>1 DEF OpenBoxInv
  <2>5. IInv' /\ FramingStep
    BY <1>1, <1>10, <2>1, <2>2, <2>3, <2>4, CloseStep
  <2>. QED  BY <1>7, <2>1, <2>5 DEF CloseBox
<1>14. CASE ~tooLong /\ ~complete
  <2>1. KeepBox(taken, bytes)
    BY <1>9, <1>14
  <2>2. taken - PayloadStart <= answer.bytes
    BY <1>1, <1>2, <1>7, <1>8, <1>14
  <2>3. IInv' /\ FramingStep
    BY <1>1, <1>3, <1>7, <1>10, <1>11, <2>1, <2>2, KeepStep
  <2>. QED  BY <1>7, <2>1, <2>3 DEF KeepBox
<1>. QED  BY <1>12, <1>13, <1>14

(* An answer: the box is read on from its payload, or from past it.        *)
LEMMA RespondStep ==
  ASSUME IInv, NEW given \in Answer, Respond(given)
  PROVE  IInv' /\ FramingStep /\ position' >= position
<1>. DEFINE noBytes == given.kind = "head"
                       /\ (given.bytes = 0 \/ (~ToFileEnd /\ PayloadLength(TheHeader) = 0))
            past == ~ToFileEnd /\ (given.kind = "skip" \/ noBytes)
<1>1. /\ TypeOK /\ OpenedInv /\ OpenBoxInv /\ seen.phase = "opened" /\ seen.offset = box
      /\ answer = NoAnswer /\ answer.kind = "none" /\ seen.delivered = <<>>
      /\ gathered = Bytes(box, position) /\ position = PayloadStart
      /\ ~atEndOfFile
  BY DEF IInv, Respond, OpenedInv, OpenBoxInv, NoAnswer, PayloadStart
<1>2. /\ Framing!Here = TheHeader
      /\ box \in Nat /\ box \in Offset /\ file \in File
      /\ file.length \in Nat /\ file.length < MaxPosition /\ MaxPosition \in Nat
      /\ TheHeader.length \in Nat /\ TheHeader.length >= 1
      /\ PayloadStart \in Nat /\ PayloadStart <= file.length
      /\ PayloadEnd \in Nat /\ PayloadStart <= PayloadEnd /\ PayloadEnd <= MaxPosition
      /\ PayloadEnd \in Offset
      /\ Sized(TheHeader) => PayloadLength(TheHeader) \in Nat
  BY <1>1, OpenBox
<1>3. /\ ToFileEnd = ~Sized(TheHeader) /\ PayloadStart = box + TheHeader.length
      /\ Sized(TheHeader) => PayloadEnd = End
  BY DEF ToFileEnd, PayloadStart, PayloadEnd
<1>4. /\ given.bytes \in Nat /\ given.kind \in {"gather", "head", "stream", "skip"}
  BY AnswerType
<1>5. /\ position' = IF past THEN End ELSE position
      /\ given.kind = "gather" /\ ~ToFileEnd => PayloadLength(TheHeader) <= given.bytes
      /\ progress' = "Payload" /\ answer' = given
      /\ seen' = [seen EXCEPT !.phase = "reading", !.answer = given]
      /\ UNCHANGED <<file, needed, box, gathered, atEndOfFile>>
  BY DEF Respond
<1>6. /\ seen'.phase = "reading" /\ seen'.answer = given /\ seen'.offset = box
      /\ seen'.delivered = <<>>
  BY <1>1, <1>5 DEF TypeOK
<1>7. position' \in Offset /\ position' >= position
  <2>1. position \in Offset /\ position \in Nat
    BY <1>1, <1>2 DEF TypeOK
  <2>2. CASE past
    <3>1. Sized(TheHeader) /\ position' = End
      BY <1>3, <1>5, <2>2
    <3>2. position' = PayloadEnd
      BY <1>3, <3>1
    <3>. QED  BY <1>1, <1>2, <3>2
  <2>3. CASE ~past
    BY <1>5, <2>1, <2>3
  <2>. QED  BY <2>2, <2>3
<1>8. TypeOK'
  BY <1>1, <1>5, <1>7 DEF TypeOK, Progress
<1>9. /\ TheHeader' = TheHeader /\ End' = End /\ ToFileEnd' = ToFileEnd
      /\ HeadBytes' = IF ToFileEnd THEN given.bytes
                      ELSE AtMost(given.bytes, PayloadLength(TheHeader))
  BY <1>5 DEF TheHeader, End, ToFileEnd, HeadBytes
<1>10. OpenBoxInv'
  BY <1>1, <1>5, <1>6, <1>9 DEF OpenBoxInv
<1>11. gathered' = Bytes(box, PayloadStart)
  BY <1>1, <1>5
<1>12. ASSUME given.kind = "stream" PROVE PayloadInv'
  <2>1. position' = position
    BY <1>5, <1>12
  <2>2. seen'.delivered = Bytes(box + TheHeader.length, position')
    BY <1>1, <1>2, <1>3, <1>6, <2>1, BytesEmpty
  <2>3. /\ gathered' = Bytes(box, box + TheHeader.length)
        /\ box + TheHeader.length <= position' /\ position' <= file.length
    BY <1>1, <1>2, <1>3, <1>11, <2>1
  <2>5. ~ToFileEnd => position' <= End
    BY <1>1, <1>2, <1>3, <2>1
  <2>4. StreamInv'
    BY <1>5, <1>9, <2>2, <2>3, <2>5 DEF StreamInv
  <2>. QED  BY <1>5, <1>6, <1>10, <1>12, <2>4 DEF PayloadInv
<1>13. ASSUME given.kind = "gather" PROVE PayloadInv'
  <2>1. position' = position
    BY <1>5, <1>13
  <2>2. /\ gathered' = Bytes(box, position') /\ position' <= file.length
        /\ box + TheHeader.length <= position'
        /\ position' - (box + TheHeader.length) <= given.bytes
    BY <1>1, <1>2, <1>3, <1>4, <1>11, <2>1
  <2>3. ~ToFileEnd => position' <= End /\ PayloadLength(TheHeader) <= given.bytes
    BY <1>1, <1>2, <1>3, <1>5, <1>13, <2>1
  <2>4. GatherInv'
    BY <1>5, <1>9, <2>2, <2>3 DEF GatherInv
  <2>. QED  BY <1>5, <1>6, <1>10, <1>13, <2>4 DEF PayloadInv
<1>14. ASSUME given.kind = "skip" PROVE PayloadInv'
  <2>1. SkipInv'
    BY <1>1, <1>3, <1>5, <1>9, <1>11, <1>14 DEF SkipInv
  <2>. QED  BY <1>5, <1>6, <1>10, <1>14, <2>1 DEF PayloadInv
<1>15. ASSUME given.kind = "head" PROVE PayloadInv'
  <2>1. HeadInv'
    <3>1. CASE ~ToFileEnd /\ noBytes
      <4>0. position' = End
        BY <1>5, <3>1
      <4>2. PayloadLength(TheHeader) \in Nat /\ HeadBytes' = AtMost(given.bytes, PayloadLength(TheHeader))
        BY <1>2, <1>3, <1>9, <3>1
      <4>3. given.bytes = 0 \/ PayloadLength(TheHeader) = 0
        BY <3>1
      <4>1. position' = End /\ HeadBytes' = 0
        BY <1>4, <4>0, <4>2, <4>3 DEF AtMost
      <4>. QED  BY <1>3, <1>5, <1>9, <1>11, <3>1, <4>1 DEF HeadInv
    <3>2. CASE ToFileEnd
      <4>1. position' = PayloadStart /\ HeadBytes' = given.bytes
        BY <1>1, <1>5, <1>9, <3>2
      <4>. QED  BY <1>2, <1>3, <1>4, <1>5, <1>9, <1>11, <3>2, <4>1 DEF HeadInv
    <3>3. CASE ~ToFileEnd /\ ~noBytes
      <4>1. position' = PayloadStart
        BY <1>1, <1>5, <1>15, <3>3
      <4>0. PayloadLength(TheHeader) \in Nat
        BY <1>2, <1>3, <3>3
      <4>4. given.bytes # 0 /\ PayloadLength(TheHeader) # 0
        BY <1>15, <3>3
      <4>2. given.bytes > 0 /\ PayloadLength(TheHeader) > 0
        BY <1>4, <4>0, <4>4
      <4>3. HeadBytes' \in Nat /\ HeadBytes' > 0
        BY <1>2, <1>3, <1>4, <1>9, <3>3, <4>2 DEF AtMost
      <4>. QED  BY <1>2, <1>3, <1>5, <1>9, <1>11, <3>3, <4>1, <4>3 DEF HeadInv
    <3>. QED  BY <3>1, <3>2, <3>3
  <2>. QED  BY <1>5, <1>6, <1>10, <1>15, <2>1 DEF PayloadInv
<1>16. Framing!Respond(given)
  BY <1>1, <1>2, <1>3, <1>5, SameLayout DEF Framing!Respond, Framing!Now
<1>17. FramingStep
  BY <1>5, <1>16, SameLayout DEF FramingStep, Framing!Next
<1>18. PayloadInv'
  BY <1>4, <1>12, <1>13, <1>14, <1>15
<1>. QED  BY <1>5, <1>7, <1>8, <1>17, <1>18 DEF IInv

(* The end of the file ends the reader between boxes, closes a box that is *)
(* through or runs to the end, and refuses what the file cut short.        *)
LEMMA FinishHeaderStep ==
  ASSUME IInv, ReadsHeader, Finish
  PROVE  IInv' /\ FramingStep /\ position' >= position
<1>1. /\ TypeOK /\ BetweenInv /\ file \in File /\ file' = file
      /\ position \in Nat /\ position \in Offset /\ position' = position
      /\ seen.offset \in Nat /\ seen.offset \in Offset
      /\ atEndOfFile' = TRUE
  BY LayoutAssumption
     DEF IInv, TypeOK, Offset, ReadsHeader, HeaderInv, GatheredInv, Finish
<1>2. /\ file.length \in Nat /\ file.length < MaxPosition /\ MaxPosition \in Nat
      /\ file.headers[seen.offset].length \in Nat
  BY <1>1, HeaderType
<1>3. ASSUME seen.phase = "between"
      PROVE  WantsInput /\ position >= file.length
  <2>1. WantsInput
    BY <1>1, <1>3 DEF ReadsHeader, WantsInput, BetweenInv
  <2>. QED  BY <2>1 DEF Finish
<1>4. CASE KeptGathered # <<>>
  <2>1. progress = "Header" /\ gathered # <<>> /\ HeaderInv
    BY <1>4 DEF KeptGathered, IsGathered, ReadsHeader, IInv
  <2>2. /\ seen.phase = "between" /\ seen.offset <= position
        /\ gathered = Bytes(seen.offset, position)
        /\ position - seen.offset < needed
        /\ needed <= file.headers[seen.offset].length
        /\ position > seen.offset => position <= file.length
    BY <1>1, <2>1 DEF HeaderInv, BetweenInv
  <2>3. position # seen.offset
    BY <1>1, <2>1, <2>2, BytesEmpty
  <2>4. seen.offset < file.length /\ file.length < seen.offset + file.headers[seen.offset].length
    <3>1. needed \in Nat
      BY <1>1, LayoutAssumption DEF TypeOK
    <3>2. position = file.length
      BY <1>1, <1>2, <1>3, <2>2, <2>3
    <3>. QED  BY <1>1, <1>2, <2>2, <2>3, <3>1, <3>2
  <2>5. Fail /\ UNCHANGED gathered
    BY <1>4 DEF Finish, ReadsHeader
  <2>6. Framing!Refuse
    BY <2>2, <2>4, <2>5
       DEF Fail, Framing!Refuse, Framing!Now, Framing!Become, Framing!PayloadStart, Framing!Here
  <2>7. TypeOK' /\ progress' = "Failed" /\ seen'.phase = "failed"
    BY <1>1, <2>5 DEF TypeOK, Fail, Progress
  <2>. QED  BY <1>1, <2>6, <2>7 DEF IInv, FramingStep, Framing!Next
<1>5. CASE KeptGathered = <<>>
  <2>1. /\ progress' = "Header" /\ gathered' = <<>> /\ needed' = KeptNeeded
        /\ seen' = [seen EXCEPT !.phase = "ended"] /\ UNCHANGED <<box, answer>>
    BY <1>5 DEF Finish, ReadsHeader
  <2>2. /\ seen'.phase = "ended" /\ seen'.answer = seen.answer
        /\ seen' \in [phase : {"between", "opened", "reading", "ended", "failed"},
                      offset : Offset, answer : Answer \cup {NoAnswer},
                      delivered : Seq(Offset)]
    BY <1>1, <2>1 DEF TypeOK
  <2>3. KeptNeeded \in {n \in Nat : n >= ShortestHeader}
    BY <1>1, LayoutAssumption DEF KeptNeeded, TypeOK
  <2>4. TypeOK'
    BY <1>1, <2>1, <2>2, <2>3, EmptySeq DEF TypeOK, Progress
  <2>5. HeaderInv'
    BY <1>1, <2>1, <2>2 DEF HeaderInv, BetweenInv
  <2>6. FramingStep
    <3>1. CASE seen.phase = "ended"
      <4>1. seen' = seen
        BY <1>1, <2>1, <3>1 DEF TypeOK
      <4>. QED  BY <1>1, <4>1 DEF FramingStep, Framing!vars
    <3>2. CASE seen.phase = "between"
      <4>1. seen.offset = position
        <5>1. CASE progress = "Gathered"
          BY <3>2, <5>1 DEF IInv, GatheredInv
        <5>2. CASE progress = "Header"
          <6>1. Bytes(seen.offset, position) = <<>> /\ seen.offset <= position
            BY <1>5, <3>2, <5>2 DEF IInv, HeaderInv, KeptGathered, IsGathered
          <6>2. Len(Bytes(seen.offset, position)) = position - seen.offset
            BY <1>1, <6>1, BytesLength
          <6>. QED  BY <1>1, <6>1, <6>2
        <5>. QED  BY <5>1, <5>2 DEF ReadsHeader
      <4>2. Framing!End
        BY <1>3, <2>1, <3>2, <4>1 DEF Framing!End, Framing!Now, Framing!Become
      <4>. QED  BY <1>1, <4>2 DEF FramingStep, Framing!Next
    <3>. QED  BY <1>1, <3>1, <3>2 DEF BetweenInv
  <2>. QED  BY <1>1, <2>1, <2>4, <2>5, <2>6 DEF IInv
<1>. QED  BY <1>4, <1>5

(* The file ends in a payload: one that runs to the end closes with what   *)
(* was asked of it, and one of a size the file does not hold fails.        *)
LEMMA FinishPayloadStep ==
  ASSUME IInv, progress = "Payload", Finish
  PROVE  IInv' /\ FramingStep /\ position' >= position
<1>1. /\ TypeOK /\ PayloadInv /\ OpenBoxInv /\ seen.phase = "reading" /\ seen.offset = box
      /\ answer \in Answer /\ answer.bytes \in Nat
      /\ answer.kind \in {"gather", "head", "stream", "skip"} /\ seen.answer = answer
      /\ position \in Nat /\ position \in Offset
      /\ ToFileEnd = ~Sized(TheHeader)
      /\ PayloadEnd = IF Sized(TheHeader) THEN End ELSE file.length
      /\ AskedEnd = IF answer.kind = "head"
                    THEN AtMost(PayloadStart + answer.bytes, PayloadEnd) ELSE PayloadEnd
      /\ PayloadStart = box + TheHeader.length
  BY InPayload DEF OpenBoxInv
<1>2. /\ Framing!Here = TheHeader
      /\ Framing!PayloadStart = PayloadStart /\ Framing!PayloadEnd = PayloadEnd
      /\ answer.kind = "head" => Framing!HeadEnd = AskedEnd
      /\ box \in Nat /\ box \in Offset /\ file \in File
      /\ file.length \in Nat /\ file.length < MaxPosition /\ MaxPosition \in Nat
      /\ TheHeader.length \in Nat /\ TheHeader.length >= 1
      /\ PayloadStart \in Nat /\ PayloadStart <= file.length
      /\ PayloadEnd \in Nat /\ PayloadStart <= PayloadEnd /\ PayloadEnd <= MaxPosition
      /\ Sized(TheHeader) =>
           /\ PayloadLength(TheHeader) \in Nat
           /\ End < MaxPosition => End = PayloadStart + PayloadLength(TheHeader)
           /\ End <= PayloadStart + PayloadLength(TheHeader)
  BY <1>1, OpenBox
<1>3. atEndOfFile' = TRUE /\ file' = file
  BY DEF Finish
<1>4. ASSUME Sized(TheHeader) \/ answer.kind \in {"stream", "gather"}
      PROVE  position >= file.length
  <2>1. WantsInput
    BY <1>1, <1>4 DEF WantsInput, OpenBoxInv
  <2>. QED  BY <2>1 DEF Finish
<1>5. Sized(TheHeader) => (Remaining = 0 <=> position >= End)
  BY <1>1, <1>2 DEF Remaining, AtLeast
<1>6. ASSUME Sized(TheHeader), answer.kind = "head"
      PROVE  /\ HeadBytes = AtMost(answer.bytes, PayloadLength(TheHeader))
             /\ HeadBytes \in Nat /\ HeadBytes <= answer.bytes
             /\ PayloadStart + HeadBytes <= PayloadStart + PayloadLength(TheHeader)
  <2>1. HeadBytes = AtMost(answer.bytes, PayloadLength(TheHeader))
    BY <1>1, <1>6 DEF HeadBytes
  <2>2. answer.bytes \in Nat /\ PayloadLength(TheHeader) \in Nat /\ PayloadStart \in Nat
    BY <1>1, <1>2, <1>6
  <2>3. /\ HeadBytes \in Nat /\ HeadBytes <= answer.bytes
        /\ HeadBytes <= PayloadLength(TheHeader)
    BY <2>1, <2>2 DEF AtMost
  <2>. QED  BY <2>1, <2>2, <2>3
<1>7. CASE ~ToFileEnd => Remaining = 0
  <2>1. CloseBox(position, gathered, "ended")
    BY <1>7 DEF Finish, ReadsHeader
  <2>2. Sized(TheHeader) => position = End /\ PayloadEnd >= file.length
    <3>. SUFFICES ASSUME Sized(TheHeader) PROVE position = End /\ PayloadEnd >= file.length
      OBVIOUS
    <3>1. position >= End /\ position >= file.length /\ PayloadEnd = End /\ End \in Nat
      BY <1>1, <1>2, <1>4, <1>5, <1>7
    <3>2. position <= End
      <4>1. CASE answer.kind = "stream"
        BY <1>1, <4>1 DEF PayloadInv, StreamInv
      <4>2. CASE answer.kind = "gather"
        BY <1>1, <4>2 DEF PayloadInv, GatherInv
      <4>3. CASE answer.kind = "skip"
        BY <1>1, <3>1, <4>3 DEF PayloadInv, SkipInv
      <4>4. CASE answer.kind = "head"
        <5>1. HeadInv
          BY <1>1, <4>4 DEF PayloadInv
        <5>2. CASE position = End
          BY <3>1, <5>2
        <5>3. CASE position <= file.length /\ position < PayloadStart + HeadBytes
          BY <1>1, <1>2, <1>6, <3>1, <4>4, <5>3
        <5>. QED  BY <1>1, <5>1, <5>2, <5>3 DEF HeadInv
      <4>. QED  BY <1>1, <4>1, <4>2, <4>3, <4>4
    <3>. QED  BY <1>1, <3>1, <3>2
  <2>3. CASE answer.kind = "stream"
    <3>1. StreamInv
      BY <1>1, <2>3 DEF PayloadInv
    <3>2. position = PayloadEnd /\ PayloadEnd = file.length
      BY <1>1, <1>2, <1>4, <2>2, <2>3, <3>1 DEF StreamInv
    <3>3. AskedEnd <= file.length /\ seen.delivered = Bytes(PayloadStart, PayloadEnd)
      BY <1>1, <1>2, <2>3, <3>1, <3>2 DEF StreamInv
    <3>4. IInv' /\ FramingStep
      BY <1>1, <1>2, <1>3, <2>1, <2>2, <2>3, <3>2, <3>3, CloseStep
    <3>. QED  BY <1>1, <2>1, <3>4 DEF CloseBox
  <2>4. CASE answer.kind = "gather"
    <3>1. GatherInv
      BY <1>1, <2>4 DEF PayloadInv
    <3>2. position = PayloadEnd /\ PayloadEnd = file.length
      BY <1>1, <1>2, <1>4, <2>2, <2>4, <3>1 DEF GatherInv
    <3>3. /\ AskedEnd <= file.length /\ gathered = Bytes(box, AskedEnd)
          /\ PayloadEnd - PayloadStart <= answer.bytes
      BY <1>1, <1>2, <2>4, <3>1, <3>2 DEF GatherInv
    <3>4. IInv' /\ FramingStep
      BY <1>1, <1>2, <1>3, <2>1, <2>2, <2>4, <3>2, <3>3, CloseStep
    <3>. QED  BY <1>1, <2>1, <3>4 DEF CloseBox
  <2>5. CASE answer.kind = "skip"
    <3>1. PayloadEnd >= file.length
      BY <1>1, <1>2, <2>2
    <3>2. IInv' /\ FramingStep
      BY <1>1, <1>3, <2>1, <2>2, <2>5, <3>1, CloseStep
    <3>. QED  BY <1>1, <2>1, <3>2 DEF CloseBox
  <2>6. CASE answer.kind = "head"
    <3>1. HeadInv
      BY <1>1, <2>6 DEF PayloadInv
    <3>2. gathered = Bytes(box, AskedEnd) /\ AskedEnd <= file.length /\ PayloadEnd >= file.length
      <4>1. CASE Sized(TheHeader)
        <5>1. HeadBytes = 0 /\ gathered = Bytes(box, PayloadStart)
          <6>1. ASSUME position <= file.length, position < PayloadStart + HeadBytes
                PROVE  FALSE
            BY <1>1, <1>2, <1>6, <2>2, <2>6, <4>1, <6>1
          <6>. QED  BY <1>1, <3>1, <4>1, <6>1 DEF HeadInv
        <5>2. AskedEnd = PayloadStart
          <6>1. AtMost(answer.bytes, PayloadLength(TheHeader)) = 0
            BY <1>6, <2>6, <4>1, <5>1
          <6>2. answer.bytes = 0 \/ PayloadLength(TheHeader) = 0
            BY <6>1 DEF AtMost
          <6>. QED  BY <1>1, <1>2, <2>6, <4>1, <6>2 DEF AtMost
        <5>. QED  BY <1>1, <1>2, <2>2, <4>1, <5>1, <5>2
      <4>2. CASE ~Sized(TheHeader)
        <5>1. /\ HeadBytes = answer.bytes /\ PayloadEnd = file.length
              /\ gathered = Bytes(box, position) /\ PayloadStart <= position
              /\ position <= file.length /\ position <= PayloadStart + answer.bytes
          BY <1>1, <3>1, <4>2 DEF HeadInv, HeadBytes
        <5>2. AskedEnd = position
          <6>1. CASE WantsInput
            <7>1. position = file.length
              BY <1>1, <1>2, <5>1, <6>1 DEF Finish
            <7>. QED  BY <1>1, <1>2, <2>6, <5>1, <7>1 DEF AtMost
          <6>2. CASE ~WantsInput
            <7>1. HeadWanted = 0
              BY <1>1, <2>6, <6>2 DEF WantsInput, OpenBoxInv
            <7>2. box <= position
              BY <1>1, <1>2, <5>1
            <7>3. Len(gathered) = position - box
              BY <1>1, <1>2, <5>1, <7>2, BytesLength
            <7>4. GatheredPayload = position - PayloadStart
              <8>1. Len(gathered) - TheHeader.length = position - PayloadStart
                BY <1>1, <1>2, <7>3
              <8>2. position - PayloadStart >= 0 /\ position \in Nat /\ PayloadStart \in Nat
                BY <1>1, <1>2, <5>1
              <8>. QED  BY <8>1, <8>2 DEF GatheredPayload, AtLeast
            <7>5. AtLeast(answer.bytes - (position - PayloadStart), 0) = 0
              BY <1>1, <4>2, <5>1, <7>1, <7>4 DEF HeadWanted
            <7>6. position = PayloadStart + answer.bytes
              BY <1>1, <1>2, <5>1, <7>5 DEF AtLeast
            <7>. QED  BY <1>1, <1>2, <2>6, <5>1, <7>6 DEF AtMost
          <6>. QED  BY <6>1, <6>2
        <5>. QED  BY <1>1, <1>2, <5>1, <5>2
      <4>. QED  BY <4>1, <4>2
    <3>3. IInv' /\ FramingStep
      BY <1>1, <1>3, <2>1, <2>2, <2>6, <3>2, CloseStep
    <3>. QED  BY <1>1, <2>1, <3>3 DEF CloseBox
  <2>. QED  BY <1>1, <2>3, <2>4, <2>5, <2>6
<1>8. CASE ~ToFileEnd /\ Remaining # 0
  <2>1. Fail /\ UNCHANGED <<position, gathered>>
    BY <1>8 DEF Finish, ReadsHeader
  <2>2. /\ Sized(TheHeader) /\ PayloadEnd = End
        /\ position < PayloadEnd /\ position >= file.length
    <3>1. Sized(TheHeader) /\ PayloadEnd = End
      BY <1>1, <1>8
    <3>2. ~(position >= End) /\ position >= file.length
      BY <1>4, <1>5, <1>8, <3>1
    <3>. QED  BY <1>1, <1>2, <3>1, <3>2
  <2>3. /\ AskedEnd > file.length
        /\ answer.kind # "skip"
    <3>1. CASE answer.kind \in {"stream", "gather"}
      BY <1>1, <1>2, <2>2, <3>1
    <3>0. position # End
      BY <1>1, <1>2, <2>2
    <3>2. CASE answer.kind = "skip"
      <4>1. position = End
        BY <1>1, <2>2, <3>2 DEF PayloadInv, SkipInv
      <4>. QED  BY <3>0, <4>1
    <3>3. CASE answer.kind = "head"
      <4>1. position < PayloadStart + HeadBytes
        <5>1. HeadInv
          BY <1>1, <3>3 DEF PayloadInv
        <5>. QED  BY <1>1, <2>2, <3>0, <5>1 DEF HeadInv
      <4>2. file.length < PayloadStart + answer.bytes
        BY <1>1, <1>2, <1>6, <2>2, <3>3, <4>1
      <4>. QED  BY <1>1, <1>2, <2>2, <3>3, <4>2 DEF AtMost
    <3>. QED  BY <1>1, <3>1, <3>2, <3>3
  <2>4. Framing!AskedEnd = AskedEnd
    BY <1>1, <1>2, <2>3 DEF Framing!AskedEnd
  <2>5. Framing!Refuse
    BY <1>1, <2>1, <2>3, <2>4 DEF Fail, Framing!Refuse, Framing!Now, Framing!Become
  <2>6. TypeOK' /\ progress' = "Failed" /\ seen'.phase = "failed"
    BY <1>1, <1>3, <2>1 DEF TypeOK, Fail, Progress
  <2>. QED  BY <1>1, <1>3, <2>1, <2>5, <2>6 DEF IInv, FramingStep, Framing!Next
<1>. QED  BY <1>7, <1>8

(* A step that changes nothing.                                            *)
LEMMA Stutter ==
  ASSUME IInv, UNCHANGED vars
  PROVE  IInv' /\ FramingStep /\ position' >= position
<1>1. IInv'
  BY DEF IInv, TypeOK, HeaderInv, BetweenInv, OpenedInv, OpenBoxInv, PayloadInv,
         StreamInv, GatherInv, HeadInv, SkipInv, GatheredInv, TheHeader, ToFileEnd,
         End, HeadBytes, vars, reader
<1>2. FramingStep
  BY DEF FramingStep, Framing!vars, vars
<1>3. position \in Nat /\ position' = position
  BY LayoutAssumption DEF IInv, TypeOK, Offset, vars, reader
<1>. QED  BY <1>1, <1>2, <1>3

(* A piece of input: nothing of it is past the wanted offset, or one event *)
(* at most is read out of the rest.                                        *)
LEMMA HandleInputStep ==
  ASSUME IInv, NEW offset \in 0..file.length, NEW upTo \in 0..file.length,
         HandleInput(offset, upTo)
  PROVE  IInv' /\ FramingStep /\ position' >= position
<1>1. /\ WantsInput /\ UNCHANGED <<file, atEndOfFile>> /\ TypeOK
      /\ position \in Nat /\ position \in Offset
  BY LayoutAssumption DEF HandleInput, IInv, TypeOK, Offset
<1>2. CASE upTo <= position
  <2>1. /\ progress' = IF IsGathered THEN "Header" ELSE progress
        /\ gathered' = KeptGathered /\ needed' = KeptNeeded
        /\ UNCHANGED <<position, box, answer, seen, file, atEndOfFile>>
    BY <1>1, <1>2 DEF HandleInput
  <2>2. FramingStep
    BY <2>1 DEF FramingStep, Framing!vars
  <2>3. CASE ~IsGathered
    <3>1. UNCHANGED vars
      BY <2>1, <2>3 DEF KeptGathered, KeptNeeded, vars, reader
    <3>. QED  BY <1>1, <2>2, <3>1, Stutter
  <2>4. CASE IsGathered
    <3>1. /\ progress = "Gathered" /\ progress' = "Header" /\ gathered' = <<>>
          /\ needed' = ShortestHeader
      BY <2>1, <2>4 DEF KeptGathered, KeptNeeded, IsGathered
    <3>2. TypeOK'
      BY <1>1, <2>1, <3>1, EmptySeq, LayoutAssumption DEF TypeOK, Progress
    <3>3. BetweenInv' /\ seen.phase = "between" /\ seen.offset = position
      BY <1>1, <2>1, <3>1 DEF IInv, GatheredInv, BetweenInv, WantsInput
    <3>4. gathered' = Bytes(seen.offset, position)
      BY <1>1, <3>1, <3>3, BytesEmpty
    <3>5. file.headers[seen.offset].length >= ShortestHeader
      BY <1>1, <3>3, HeaderType DEF TypeOK
    <3>6. HeaderInv'
      BY <1>1, <2>1, <3>1, <3>3, <3>4, <3>5, LayoutAssumption DEF HeaderInv
    <3>. QED  BY <1>1, <2>1, <2>2, <3>1, <3>2, <3>6 DEF IInv
  <2>. QED  BY <2>3, <2>4
<1>3. CASE ~(upTo <= position)
  <2>1. upTo > position
    BY <1>1, <1>3, HeaderType DEF TypeOK
  <2>2. \/ ReadsHeader /\ ReadHeader(upTo)
        \/ progress = "Payload" /\ ReadSkipped
        \/ progress = "Payload" /\ ReadStreamed(upTo)
        \/ progress = "Payload" /\ ReadHead(upTo)
        \/ progress = "Payload" /\ ReadGathered(upTo)
    BY <1>3 DEF HandleInput
  <2>. QED
    BY <1>1, <2>1, <2>2, ReadHeaderStep, ReadSkippedStep, ReadStreamedStep,
       ReadHeadStep, ReadGatheredStep
<1>. QED  BY <1>2, <1>3

(* Every step keeps the invariant, is a step the promise allows or one it  *)
(* does not see, and never goes back.                                      *)
LEMMA NextStep ==
  ASSUME IInv, [Next]_vars
  PROVE  IInv' /\ FramingStep /\ position' >= position
<1>1. ASSUME NEW offset \in 0..file.length, NEW upTo \in 0..file.length,
             HandleInput(offset, upTo)
      PROVE  IInv' /\ FramingStep /\ position' >= position
  BY <1>1, HandleInputStep
<1>2. ASSUME NEW given \in Answer, Respond(given)
      PROVE  IInv' /\ FramingStep /\ position' >= position
  BY <1>2, RespondStep
<1>3. CASE Finish
  <2>1. progress \in {"Header", "Gathered", "Payload"}
    BY <1>3 DEF Finish, Answered, IInv, TypeOK, Progress
  <2>. QED
    BY <1>3, <2>1, FinishHeaderStep, FinishPayloadStep DEF ReadsHeader
<1>4. CASE UNCHANGED vars
  BY <1>4, Stutter
<1>. QED  BY <1>1, <1>2, <1>3, <1>4 DEF Next

(* Before any input, the next box starts where the reader starts.          *)
LEMMA InitStep ==
  ASSUME Init
  PROVE  IInv /\ Framing!Init
<1>1. file \in File /\ file.start \in Offset /\ file.start \in Nat
  BY FilesAssumption, LayoutAssumption DEF Init, File, Offset
<1>7. /\ seen.phase = "between" /\ seen.offset = file.start /\ seen.answer = NoAnswer
      /\ position = file.start /\ needed = ShortestHeader /\ gathered = <<>>
      /\ answer = NoAnswer /\ atEndOfFile = FALSE /\ box = file.start /\ progress = "Header"
  BY DEF Init
<1>2. TypeOK
  <2>1. <<>> \in Seq(Offset) /\ ShortestHeader \in Nat /\ ShortestHeader >= 1
    BY EmptySeq, LayoutAssumption
  <2>2. seen \in [phase : {"between", "opened", "reading", "ended", "failed"},
                  offset : Offset, answer : Answer \cup {NoAnswer},
                  delivered : Seq(Offset)]
    BY <1>1, <2>1 DEF Init
  <2>3. /\ position \in Offset /\ box \in Offset /\ gathered \in Seq(Offset)
        /\ needed \in Nat /\ needed >= ShortestHeader
    BY <1>1, <1>7, <2>1
  <2>4. /\ answer \in Answer \cup {NoAnswer} /\ atEndOfFile \in BOOLEAN
        /\ progress \in Progress
    BY <1>7, Zenon DEF Progress
  <2>. QED  BY <1>1, <2>2, <2>3, <2>4 DEF TypeOK
<1>3. Bytes(file.start, file.start) = <<>>
  BY <1>1, BytesEmpty
<1>4. /\ file.headers[file.start].length \in Nat
      /\ file.headers[file.start].length >= ShortestHeader
  BY <1>1, HeaderType
<1>8. ShortestHeader \in Nat /\ ShortestHeader >= 1
  BY LayoutAssumption
<1>5. HeaderInv
  <2>1. BetweenInv
    BY <1>7 DEF BetweenInv
  <2>2. /\ seen.offset <= position /\ ~(position > seen.offset)
        /\ position - seen.offset < needed
    BY <1>1, <1>7, <1>8
  <2>. QED  BY <1>3, <1>4, <1>7, <1>8, <2>1, <2>2 DEF HeaderInv
<1>6. Framing!Init
  BY SameLayout DEF Init, Framing!Init
<1>. QED  BY <1>2, <1>5, <1>6 DEF IInv, Init
-------------------------------------------------------------------------------
(* THE THEOREMS                                                            *)

(* The inductive invariant: what the reader holds between any two calls.   *)
THEOREM Invariance == Spec => []IInv
<1>1. Init => IInv
  BY InitStep
<1>2. IInv /\ [Next]_vars => IInv'
  BY NextStep
<1>. QED  BY <1>1, <1>2, PTL DEF Spec

(* Every variable of the reader keeps its type.                            *)
THEOREM TypeCorrect == Spec => []TypeOK
<1>1. IInv => TypeOK
  BY DEF IInv
<1>. QED  BY <1>1, Invariance, PTL

(* However the input is cut and passed again, the reader does what         *)
(* BoxFraming promises its caller.                                         *)
THEOREM Implements == Spec => ImplementsFraming
<1>1. Init => Framing!Init
  BY InitStep
<1>2. IInv /\ [Next]_vars => [Framing!Next]_(Framing!vars)
  BY NextStep DEF FramingStep
<1>. QED
  BY <1>1, <1>2, Invariance, PTL DEF Spec, ImplementsFraming, Framing!Spec

(* The offset the reader wants input at never goes back.                   *)
THEOREM Forward == Spec => NeverGoesBack
<1>1. IInv /\ [Next]_vars => [position' >= position]_vars
  BY NextStep
<1>. QED  BY <1>1, Invariance, PTL DEF Spec, NeverGoesBack

(* What is gathered is one run of the file, from the first header byte on. *)
THEOREM OneRun == Spec => []GatheredIsOneRun
<1>1. IInv => GatheredIsOneRun
  <2>. SUFFICES ASSUME IInv PROVE GatheredIsOneRun
    OBVIOUS
  <2>1. /\ position \in Nat /\ box \in Nat /\ box \in Offset /\ TypeOK
        /\ TheHeader.length \in Nat
    <3>1. TypeOK /\ file \in File /\ box \in Offset /\ position \in Offset
      BY DEF IInv, TypeOK
    <3>2. position \in Nat /\ box \in Nat
      BY <3>1, LayoutAssumption DEF Offset
    <3>. QED  BY <3>1, <3>2, HeaderType DEF TheHeader
  <2>2. ASSUME NEW a \in Nat, NEW b \in Nat, a <= b, gathered = Bytes(a, b)
        PROVE  Len(gathered) = b - a /\ a + Len(gathered) = b /\ b - Len(gathered) = a
    <3>1. Len(gathered) = b - a
      BY <2>2, BytesLength
    <3>. QED  BY <3>1
  <2>3. CASE progress = "Header"
    <3>1. CASE seen.phase = "ended"
      <4>1. gathered = <<>> /\ Len(gathered) = 0
        BY <2>3, <3>1 DEF IInv, HeaderInv
      <4>. QED  BY <2>1, <2>3, <4>1, BytesEmpty DEF GatheredIsOneRun
    <3>2. CASE seen.phase = "between"
      <4>1. /\ seen.offset \in Nat /\ seen.offset <= position
            /\ gathered = Bytes(seen.offset, position)
        BY <2>1, <2>3, <3>2, LayoutAssumption DEF IInv, HeaderInv, TypeOK, Offset
      <4>2. position - Len(gathered) = seen.offset
        BY <2>1, <2>2, <4>1
      <4>. QED  BY <2>3, <4>1, <4>2 DEF GatheredIsOneRun
    <3>. QED  BY <2>3, <3>1, <3>2 DEF IInv, HeaderInv, BetweenInv
  <2>4. CASE progress = "Opened"
    <3>1. gathered = Bytes(box, position) /\ box <= position
      BY <2>1, <2>4 DEF IInv, OpenedInv
    <3>2. box + Len(gathered) = position
      BY <2>1, <2>2, <3>1
    <3>. QED  BY <2>4, <3>1, <3>2 DEF GatheredIsOneRun
  <2>5. CASE progress = "Gathered"
    <3>1. Len(seen.delivered) \in Nat
      BY <2>1, LenProperties DEF TypeOK
    <3>2. /\ box + TheHeader.length + Len(seen.delivered) \in Nat
          /\ box <= box + TheHeader.length + Len(seen.delivered)
          /\ gathered = Bytes(box, box + TheHeader.length + Len(seen.delivered))
      BY <2>1, <2>5, <3>1 DEF IInv, GatheredInv
    <3>3. box + Len(gathered) = box + TheHeader.length + Len(seen.delivered)
      BY <2>1, <2>2, <3>2
    <3>. QED  BY <2>5, <3>2, <3>3 DEF GatheredIsOneRun
  <2>6. CASE progress = "Payload"
    <3>1. PayloadInv /\ answer.kind \in {"gather", "head", "stream", "skip"}
      BY <2>6, InPayload
    <3>2. PICK b \in {position, box + TheHeader.length} : gathered = Bytes(box, b) /\ box <= b
      <4>1. CASE answer.kind \in {"stream", "skip"}
        BY <2>1, <3>1, <4>1 DEF PayloadInv, StreamInv, SkipInv
      <4>2. CASE answer.kind = "gather"
        BY <2>1, <3>1, <4>2 DEF PayloadInv, GatherInv
      <4>3. CASE answer.kind = "head"
        BY <2>1, <3>1, <4>3 DEF PayloadInv, HeadInv
      <4>. QED  BY <3>1, <4>1, <4>2, <4>3
    <3>3. b \in Nat
      BY <2>1
    <3>4. box + Len(gathered) = b
      BY <2>1, <2>2, <3>2, <3>3
    <3>. QED  BY <2>6, <3>2, <3>4 DEF GatheredIsOneRun
  <2>. QED
    BY <2>3, <2>4, <2>5, <2>6 DEF GatheredIsOneRun
<1>. QED  BY <1>1, Invariance, PTL

(* What is gathered of a payload is within what the caller answered.       *)
THEOREM WithinAsked == Spec => []GatheredWithinAsked
<1>1. IInv => GatheredWithinAsked
  <2>. SUFFICES ASSUME IInv, progress = "Payload"
                PROVE  Len(gathered) - TheHeader.length <=
                         CASE answer.kind = "gather" -> answer.bytes
                           [] answer.kind = "head"   -> HeadBytes
                           [] OTHER                  -> 0
    BY DEF GatheredWithinAsked
  <2>1. /\ PayloadInv /\ OpenBoxInv /\ TypeOK /\ position \in Nat /\ answer.bytes \in Nat
        /\ answer.kind \in {"gather", "head", "stream", "skip"}
        /\ PayloadStart = box + TheHeader.length
    BY InPayload
  <2>2. box \in Nat /\ TheHeader.length \in Nat /\ PayloadStart \in Nat
    BY <2>1, OpenBox
  <2>3. ASSUME NEW b \in Nat, gathered = Bytes(box, b), PayloadStart <= b
        PROVE  Len(gathered) - TheHeader.length = b - PayloadStart
    <3>1. box <= b
      BY <2>1, <2>2, <2>3
    <3>2. Len(gathered) = b - box
      BY <2>2, <2>3, <3>1, BytesLength
    <3>. QED  BY <2>1, <2>2, <3>2
  <2>4. CASE answer.kind \in {"stream", "skip"}
    <3>1. gathered = Bytes(box, PayloadStart)
      BY <2>1, <2>4 DEF PayloadInv, StreamInv, SkipInv
    <3>2. Len(gathered) - TheHeader.length = PayloadStart - PayloadStart
      BY <2>2, <2>3, <3>1
    <3>. QED  BY <2>2, <2>4, <3>2
  <2>5. CASE answer.kind = "gather"
    <3>1. /\ gathered = Bytes(box, position) /\ PayloadStart <= position
          /\ position - PayloadStart <= answer.bytes
      BY <2>1, <2>5 DEF PayloadInv, GatherInv
    <3>2. Len(gathered) - TheHeader.length = position - PayloadStart
      BY <2>1, <2>3, <3>1
    <3>. QED  BY <2>5, <3>1, <3>2
  <2>6. CASE answer.kind = "head"
    <3>1. HeadInv
      BY <2>1, <2>6 DEF PayloadInv
    <3>2. CASE HeadBytes = 0 /\ gathered = Bytes(box, PayloadStart)
      <4>1. Len(gathered) - TheHeader.length = PayloadStart - PayloadStart
        BY <2>2, <2>3, <3>2
      <4>. QED  BY <2>2, <2>6, <3>2, <4>1
    <3>3. CASE /\ gathered = Bytes(box, position) /\ PayloadStart <= position
               /\ position <= PayloadStart + HeadBytes
      <4>1. Len(gathered) - TheHeader.length = position - PayloadStart
        BY <2>1, <2>3, <3>3
      <4>2. HeadBytes \in Nat
        <5>1. CASE ToFileEnd
          BY <2>1, <5>1 DEF HeadBytes
        <5>2. CASE ~ToFileEnd
          <6>1. PayloadLength(TheHeader) \in Nat
            BY <2>1, <5>2, OpenBox DEF ToFileEnd
          <6>. QED  BY <2>1, <5>2, <6>1 DEF HeadBytes, AtMost
        <5>. QED  BY <5>1, <5>2
      <4>3. position - PayloadStart <= HeadBytes
        BY <2>1, <2>2, <3>3, <4>2
      <4>. QED  BY <2>6, <4>1, <4>3
    <3>. QED  BY <2>1, <3>1, <3>2, <3>3 DEF HeadInv
  <2>. QED  BY <2>1, <2>4, <2>5, <2>6
<1>. QED  BY <1>1, Invariance, PTL

(* The reader never wants a byte of a payload that is skipped, or past the *)
(* head it gathers.                                                        *)
THEOREM SeeksPast == Spec => []NeverWantsSkipped
<1>1. IInv => NeverWantsSkipped
  <2>. SUFFICES ASSUME IInv, WantsInput, progress = "Payload",
                       answer.kind \in {"skip", "head"}
                PROVE  \/ ~ToFileEnd /\ position = End
                       \/ /\ answer.kind = "head"
                          /\ position < box + TheHeader.length + HeadBytes
    BY DEF NeverWantsSkipped
  <2>1. /\ PayloadInv /\ OpenBoxInv /\ TypeOK /\ position \in Nat /\ answer.bytes \in Nat
        /\ PayloadStart = box + TheHeader.length
    BY InPayload
  <2>2. box \in Nat /\ TheHeader.length \in Nat /\ PayloadStart \in Nat
    BY <2>1, OpenBox
  <2>3. CASE answer.kind = "skip"
    <3>1. ~ToFileEnd
      BY <2>3 DEF WantsInput
    <3>. QED  BY <2>1, <2>3, <3>1 DEF PayloadInv, SkipInv
  <2>4. CASE answer.kind = "head"
    <3>1. HeadInv
      BY <2>1, <2>4 DEF PayloadInv
    <3>2. CASE ~ToFileEnd /\ HeadBytes = 0 /\ position = End
      BY <3>2
    <3>3. CASE /\ gathered = Bytes(box, position) /\ PayloadStart <= position
               /\ position <= PayloadStart + HeadBytes
               /\ ~ToFileEnd => position < PayloadStart + HeadBytes
      <4>1. CASE ~ToFileEnd
        BY <2>1, <2>4, <3>3, <4>1
      <4>2. CASE ToFileEnd
        <5>1. HeadWanted # 0 /\ HeadBytes = answer.bytes
          BY <2>4, <4>2 DEF WantsInput, HeadBytes
        <5>2. box <= position
          BY <2>1, <2>2, <3>3
        <5>3. Len(gathered) = position - box
          BY <2>1, <2>2, <3>3, <5>2, BytesLength
        <5>4. Len(gathered) - TheHeader.length = position - PayloadStart
          BY <2>1, <2>2, <5>3
        <5>5. GatheredPayload = position - PayloadStart
          BY <2>1, <2>2, <3>3, <5>4 DEF GatheredPayload, AtLeast
        <5>6. AtLeast(answer.bytes - (position - PayloadStart), 0) # 0
          BY <4>2, <5>1, <5>5 DEF HeadWanted
        <5>7. position < PayloadStart + answer.bytes
          BY <2>1, <2>2, <3>3, <5>1, <5>6 DEF AtLeast
        <5>. QED  BY <2>1, <2>4, <5>1, <5>7
      <4>. QED  BY <4>1, <4>2
    <3>. QED  BY <2>1, <3>1, <3>2, <3>3 DEF HeadInv
  <2>. QED  BY <2>3, <2>4
<1>. QED  BY <1>1, Invariance, PTL
===============================================================================
