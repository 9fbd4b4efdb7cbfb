---------------------------- MODULE BoxWriterProofs ----------------------------
(***************************************************************************)
(* What the writer of box_writer.rs and the reserved space of reserved.rs  *)
(* keep, for every set of headers, payloads and spaces, and for files of   *)
(* every length.                                                           *)
(*                                                                         *)
(* FramesWhatWasGiven says nothing of what a later step relies on: that a  *)
(* space still is one box of the file, that the box that is open lies      *)
(* where the writer says, and that no box behind which more is written     *)
(* runs to the end of the file.  IInv adds these.                          *)
(***************************************************************************)
EXTENDS BoxWriter, TLAPS, SequenceTheorems, FiniteSetTheorems

Types == { header.type : header \in Headers } \cup {"none", "payload", "free", "moov", "mdat"}
Cell == [type : Types, total : Nat \cup {ToEnd}, length : 0..2]
GivenBox == [type : Types, offset : Nat, payload : Nat, length : Nat \ {0}]

Valid(header) ==
  /\ header \in [type : Types, total : Nat \cup {ToEnd}, length : 1..2]
  /\ Declares(header) => header.length <= header.total
  /\ Declares(header) /\ IsCompact(header) => header.total <= CompactTotal

Writer == [state : {"open", "writing", "past the end of the file", "finished"},
           header : Cell, offset : Nat, written : Nat, next : Nat]

TypeInv ==
  /\ writer \in Writer
  /\ disk \in Seq(Cell)
  /\ given \subseteq GivenBox
  /\ reserved \subseteq [offset : Nat, length : Nat]

(* The box that is open lies where the writer says, and holds no more than *)
(* it declares.                                                            *)
WriterInv ==
  /\ writer.state \in {"open", "past the end of the file"} => writer.next = Len(disk)
  /\ writer.state = "writing" =>
       /\ Valid(writer.header)
       /\ writer.offset = writer.next
       /\ Len(disk) = writer.next + writer.header.length + writer.written
       /\ disk[writer.next + 1] = writer.header
       /\ Declares(writer.header) => writer.written <= PayloadLength(writer.header)

(* LiesThere and EndToEnd, of any boxes in any file.                       *)
LiesIn(box, cells, end) ==
  LET header == cells[box.offset + 1]
  IN  /\ box.offset + box.length <= end
      /\ header.type = box.type /\ header.length + box.payload = box.length
      /\ box.length = IF Declares(header) THEN header.total ELSE end - box.offset

Starts(boxes, end) == end > 0 => \E box \in boxes : box.offset = 0
Follows(boxes, end) ==
  \A box \in boxes :
    \/ box.offset + box.length = end
    \/ \E next \in boxes : next.offset = box.offset + box.length
Disjoint(boxes) ==
  \A box, other \in boxes :
    \/ box = other
    \/ box.offset + box.length <= other.offset
    \/ other.offset + other.length <= box.offset
Chained(boxes, end) == Starts(boxes, end) /\ Follows(boxes, end) /\ Disjoint(boxes)

LieInv == \A box \in given : LiesIn(box, disk, BoxesEnd)

ChainInv == Chained(given, BoxesEnd)

(* A file that still grows holds no box that runs to its end.              *)
DeclaredInv ==
  writer.state \in {"open", "writing"} => \A box \in given : Declares(disk[box.offset + 1])

(* A space is a box of the file until it is written over.                  *)
ReservedInv ==
  \A space \in reserved : \E box \in given : box.offset = space.offset /\ box.length = space.length

IInv ==
  /\ TypeInv
  /\ WriterInv
  /\ LieInv
  /\ DeclaredInv
  /\ ChainInv
  /\ ReservedInv
-------------------------------------------------------------------------------
(* Headers and their cells.                                                *)

LEMMA PayloadIsCell == Payload \in Cell
  <1>1. "payload" \in Types
    BY DEF Types
  <1>2. 0 \in Nat /\ 0 \in 0..2
    OBVIOUS
  <1>3. 0 \in Nat \cup {ToEnd}
    BY ONLY <1>2, Zenon
  <1>4. Payload = [type |-> "payload", total |-> 0, length |-> 0]
    BY DEF Payload, Header
  <1> QED
    BY ONLY <1>1, <1>2, <1>3, <1>4 DEF Cell

(* BoxHeader::with_payload_len declares the payload it is given.           *)
LEMMA HeaderForValid ==
  ASSUME NEW type \in Types, NEW payload \in Nat
  PROVE  /\ Valid(HeaderFor(type, payload))
         /\ Declares(HeaderFor(type, payload))
         /\ PayloadLength(HeaderFor(type, payload)) = payload
         /\ HeaderFor(type, payload).type = type
         /\ HeaderFor(type, payload).total = HeaderFor(type, payload).length + payload
         /\ payload + 1 <= CompactTotal => HeaderFor(type, payload).length = 1
         /\ payload + 1 > CompactTotal => HeaderFor(type, payload).length = 2
  BY LengthAssumption
     DEF HeaderFor, Compact, Large, Header, Valid, Declares, IsCompact, PayloadLength

(* A header that is taken is read back from its first cell.                *)
LEMMA CellsOfHeader ==
  ASSUME NEW header, Valid(header)
  PROVE  /\ Cells(header) \in Seq(Cell)
         /\ Len(Cells(header)) = header.length
         /\ Cells(header)[1] = header
  <1>1. header \in Cell
    BY DEF Valid, Cell
  <1>2. Payload \in Cell
    BY PayloadIsCell
  <1>3. CASE ~IsCompact(header)
    BY <1>1, <1>2, <1>3 DEF Cells, IsCompact, Valid
  <1>4. CASE IsCompact(header) /\ Declares(header)
    <2>1. header.total \in 0..CompactTotal
      BY <1>4, LengthAssumption DEF Valid, Declares
    <2>2. header.total % (CompactTotal + 1) = header.total
      BY <2>1, LengthAssumption
    <2>3. [header EXCEPT !.total = @ % (CompactTotal + 1)] = header
      BY <2>2 DEF Valid
    <2> QED
      BY <1>1, <1>4, <2>3 DEF Cells, IsCompact
  <1>5. CASE IsCompact(header) /\ ~Declares(header)
    BY <1>1, <1>5 DEF Cells, IsCompact
  <1> QED
    BY <1>3, <1>4, <1>5

(* The cells of a payload.                                                 *)
LEMMA CellsOfPayload ==
  ASSUME NEW n \in Nat
  PROVE  /\ Written(Bytes(n)) \in Seq(Cell)
         /\ Len(Written(Bytes(n))) = n
  <1>1. Written(Bytes(n)) = [k \in 1..n |-> Payload]
    BY DEF Written, Bytes
  <1>2. Payload \in Cell
    BY PayloadIsCell
  <1> QED
    BY <1>1, <1>2

(* What is written goes behind what was.                                   *)
LEMMA Appending ==
  ASSUME NEW cells \in Seq(Cell), NEW more \in Seq(Cell)
  PROVE  /\ cells \o more \in Seq(Cell)
         /\ Len(cells \o more) = Len(cells) + Len(more)
         /\ \A n \in 1..Len(cells) : (cells \o more)[n] = cells[n]
         /\ \A n \in 1..Len(more) : (cells \o more)[Len(cells) + n] = more[n]
  OBVIOUS

(* What is written over lies where it was told, and nothing else changes.  *)
LEMMA Overwriting ==
  ASSUME disk \in Seq(Cell), NEW cells \in Seq(Cell), NEW offset \in Nat
  PROVE  /\ Overwritten(cells, offset) \in Seq(Cell)
         /\ Len(Overwritten(cells, offset)) = Len(disk)
         /\ \A n \in 1..Len(disk) :
              /\ n <= offset \/ n > offset + Len(cells) => Overwritten(cells, offset)[n] = disk[n]
              /\ \A k \in 1..Len(cells) : n = offset + k => Overwritten(cells, offset)[n] = cells[k]
  <1> DEFINE value(n) == IF n - offset \in DOMAIN cells THEN cells[n - offset] ELSE disk[n]
  <1>1. Overwritten(cells, offset) = [n \in 1..Len(disk) |-> value(n)]
    BY DEF Overwritten
  <1>2. \A n \in 1..Len(disk) : value(n) \in Cell
    OBVIOUS
  <1>3. /\ Overwritten(cells, offset) \in Seq(Cell)
        /\ Len(Overwritten(cells, offset)) = Len(disk)
        /\ \A n \in 1..Len(disk) : Overwritten(cells, offset)[n] = value(n)
    <2> HIDE DEF value
    <2> QED BY <1>1, <1>2
  <1> QED
    BY <1>3
-------------------------------------------------------------------------------
(* Boxes end to end.                                                       *)

LEMMA BoxNumbers ==
  ASSUME NEW box \in GivenBox
  PROVE  box.offset \in Nat /\ box.length \in Nat /\ box.length > 0
  BY DEF GivenBox

(* A box goes behind the last one.                                         *)
LEMMA ChainedBehind ==
  ASSUME NEW boxes \in SUBSET GivenBox, NEW end \in Nat, NEW new \in GivenBox,
         Chained(boxes, end), \A box \in boxes : box.offset + box.length <= end,
         new.offset = end
  PROVE  Chained(boxes \cup {new}, end + new.length)
  <1> DEFINE all == boxes \cup {new}
  <1>1. Starts(all, end + new.length)
    BY BoxNumbers DEF Chained, Starts
  <1>2. Follows(all, end + new.length)
    BY BoxNumbers DEF Chained, Follows
  <1>3. Disjoint(all)
    BY BoxNumbers DEF Chained, Disjoint
  <1> QED
    BY <1>1, <1>2, <1>3 DEF Chained

(* Two boxes of a chain that begin at one place are one.                   *)
LEMMA OneAtAPlace ==
  ASSUME NEW boxes \in SUBSET GivenBox, Disjoint(boxes),
         NEW box \in boxes, NEW other \in boxes, box.offset = other.offset
  PROVE  box = other
  <1>1. /\ box.offset \in Nat /\ box.length \in Nat /\ box.length > 0
        /\ other.offset \in Nat /\ other.length \in Nat /\ other.length > 0
    BY BoxNumbers
  <1> QED
    BY <1>1 DEF Disjoint

(* Boxes that fill the place of one box take its place in the chain.       *)
LEMMA ChainedInPlace ==
  ASSUME NEW boxes \in SUBSET GivenBox, NEW end \in Nat, Chained(boxes, end),
         NEW old \in boxes, NEW parts \in SUBSET GivenBox,
         Follows(parts, old.offset + old.length), Disjoint(parts),
         \E part \in parts : part.offset = old.offset,
         \A part \in parts : /\ old.offset <= part.offset
                             /\ part.offset + part.length <= old.offset + old.length
  PROVE  Chained({ box \in boxes : box.offset # old.offset } \cup parts, end)
  <1> DEFINE kept == { box \in boxes : box.offset # old.offset }
             all == kept \cup parts
  <1>1. \A box \in boxes : \/ box \in kept
                           \/ box = old
    BY OneAtAPlace DEF Chained
  <1>2. PICK first \in parts : first.offset = old.offset
    OBVIOUS
  <1>3. Starts(all, end)
    BY <1>1, <1>2 DEF Chained, Starts
  <1>4. Follows(all, end)
    <2> SUFFICES ASSUME NEW box \in all
                 PROVE  \/ box.offset + box.length = end
                        \/ \E next \in all : next.offset = box.offset + box.length
      BY DEF Follows
    <2> DEFINE FollowedAt(place) == place = end \/ \E next \in all : next.offset = place
    <2>1. \A other \in boxes : FollowedAt(other.offset + other.length)
      <3> TAKE other \in boxes
      <3>1. CASE other.offset + other.length = end
        BY <3>1
      <3>2. CASE \E next \in boxes : next.offset = other.offset + other.length
        <4>1. PICK next \in boxes : next.offset = other.offset + other.length
          BY <3>2
        <4>2. CASE next \in kept
          BY <4>1, <4>2
        <4>3. CASE next = old
          BY <4>1, <4>3, <1>2
        <4> QED
          BY <1>1, <4>2, <4>3
      <3> QED
        BY <3>1, <3>2 DEF Chained, Follows
    <2>2. CASE box \in kept
      BY <2>1, <2>2
    <2>3. CASE box \in parts
      <3>1. CASE box.offset + box.length = old.offset + old.length
        BY <2>1, <3>1
      <3>2. CASE \E next \in parts : next.offset = box.offset + box.length
        BY <3>2
      <3> QED
        BY <2>3, <3>1, <3>2 DEF Follows
    <2> QED
      BY <2>2, <2>3
  <1>5. Disjoint(all)
    <2>1. \A box \in kept, part \in parts :
            \/ box.offset + box.length <= part.offset
            \/ part.offset + part.length <= box.offset
      <3> TAKE box \in kept, part \in parts
      <3>1. /\ box.offset \in Nat /\ box.length \in Nat
            /\ part.offset \in Nat /\ part.length \in Nat
            /\ old.offset \in Nat /\ old.length \in Nat
        BY BoxNumbers
      <3>2. \/ box.offset + box.length <= old.offset
            \/ old.offset + old.length <= box.offset
        BY DEF Chained, Disjoint
      <3>3. old.offset <= part.offset /\ part.offset + part.length <= old.offset + old.length
        OBVIOUS
      <3> QED
        BY <3>1, <3>2, <3>3
    <2>2. Disjoint(kept)
      BY DEF Chained, Disjoint
    <2> QED
      BY <2>1, <2>2 DEF Disjoint
  <1> QED
    BY <1>3, <1>4, <1>5 DEF Chained

(* Boxes that fill a file from a box of it on end the chain.               *)
LEMMA ChainedFrom ==
  ASSUME NEW boxes \in SUBSET GivenBox, NEW end \in Nat, Chained(boxes, end),
         NEW old \in boxes, old.offset + old.length <= end,
         NEW parts \in SUBSET GivenBox, Follows(parts, end), Disjoint(parts),
         \E part \in parts : part.offset = old.offset,
         \A part \in parts : old.offset <= part.offset
  PROVE  Chained({ box \in boxes : box.offset < old.offset } \cup parts, end)
  <1> DEFINE kept == { box \in boxes : box.offset < old.offset }
             all == kept \cup parts
  <1>1. old.offset \in Nat /\ old.length \in Nat /\ old.length > 0
    BY BoxNumbers
  <1>2. PICK first \in parts : first.offset = old.offset
    OBVIOUS
  <1>3. \A box \in kept : /\ box.offset \in Nat /\ box.length \in Nat
                          /\ box.offset + box.length <= old.offset
    <2> TAKE box \in kept
    <2>1. box \in boxes /\ box.offset \in Nat /\ box.length \in Nat /\ box.offset < old.offset
      BY BoxNumbers
    <2>2. \/ box.offset + box.length <= old.offset
          \/ old.offset + old.length <= box.offset
      BY <2>1 DEF Chained, Disjoint
    <2> QED
      BY <1>1, <2>1, <2>2
  <1>4. Starts(all, end)
    <2>1. CASE old.offset = 0
      BY <1>2, <2>1 DEF Starts
    <2>2. CASE old.offset > 0
      <3>1. end > 0
        BY <1>1
      <3>2. PICK box \in boxes : box.offset = 0
        BY <3>1 DEF Chained, Starts
      <3> QED
        BY <2>2, <3>2 DEF Starts
    <2> QED
      BY <1>1, <2>1, <2>2
  <1>5. Follows(all, end)
    <2> SUFFICES ASSUME NEW box \in all
                 PROVE  \/ box.offset + box.length = end
                        \/ \E next \in all : next.offset = box.offset + box.length
      BY DEF Follows
    <2>1. CASE box \in kept
      <3>1. box.offset + box.length # end
        BY <1>1, <1>3, <2>1
      <3>2. PICK next \in boxes : next.offset = box.offset + box.length
        BY <2>1, <3>1 DEF Chained, Follows
      <3>3. next.offset <= old.offset /\ next.offset \in Nat
        BY <1>3, <2>1, <3>2
      <3>4. CASE next.offset = old.offset
        BY <1>2, <3>2, <3>4
      <3>5. CASE next.offset < old.offset
        BY <3>2, <3>5
      <3> QED
        BY <1>1, <3>3, <3>4, <3>5
    <2>2. CASE box \in parts
      BY <2>2 DEF Follows
    <2> QED
      BY <2>1, <2>2
  <1>6. Disjoint(all)
    <2>1. \A box \in kept, part \in parts : box.offset + box.length <= part.offset
      <3> TAKE box \in kept, part \in parts
      <3>1. part.offset \in Nat /\ old.offset <= part.offset
        BY BoxNumbers
      <3> QED
        BY <1>1, <1>3, <3>1
    <2>2. Disjoint(kept)
      BY DEF Chained, Disjoint
    <2> QED
      BY <2>1, <2>2 DEF Disjoint
  <1> QED
    BY <1>4, <1>5, <1>6 DEF Chained

(* A box that lies in a file lies in another with the same header there.   *)
LEMMA LiesOn ==
  ASSUME NEW box \in GivenBox, NEW cells, NEW more, NEW end \in Nat, NEW later \in Nat,
         LiesIn(box, cells, end), end <= later, more[box.offset + 1] = cells[box.offset + 1],
         Declares(cells[box.offset + 1]) \/ later = end
  PROVE  LiesIn(box, more, later)
  BY BoxNumbers DEF LiesIn
-------------------------------------------------------------------------------
(* The events.                                                             *)

BoxesInv == LieInv /\ DeclaredInv /\ ChainInv /\ ReservedInv

LEMMA Fields ==
  ASSUME TypeInv
  PROVE  /\ writer.next \in Nat /\ writer.written \in Nat /\ writer.offset \in Nat
         /\ writer.header \in Cell /\ writer.header.type \in Types
         /\ writer.header.length \in Nat
         /\ writer.state \in {"open", "writing", "past the end of the file", "finished"}
         /\ disk \in Seq(Cell) /\ Len(disk) \in Nat
  <1> writer \in Writer /\ disk \in Seq(Cell)
    BY DEF TypeInv
  <1>1. writer.header \in Cell
    BY DEF Writer
  <1>2. writer.header.type \in Types /\ writer.header.length \in 0..2
    BY <1>1 DEF Cell
  <1>3. writer.header.length \in Nat
    BY ONLY <1>2
  <1>4. /\ writer.next \in Nat /\ writer.written \in Nat /\ writer.offset \in Nat
        /\ writer.state \in {"open", "writing", "past the end of the file", "finished"}
    BY DEF Writer
  <1>5. Len(disk) \in Nat
    OBVIOUS
  <1> QED
    BY <1>1, <1>2, <1>3, <1>4, <1>5

LEMMA Ends ==
  ASSUME IInv
  PROVE  /\ BoxesEnd \in Nat /\ Len(disk) \in Nat
         /\ BoxesEnd <= Len(disk)
         /\ writer.state = "open" => BoxesEnd = writer.next /\ BoxesEnd = Len(disk)
         /\ writer.state = "writing" => BoxesEnd = writer.next
  <1>1. /\ writer.next \in Nat /\ writer.written \in Nat
        /\ writer.header.length \in Nat /\ Len(disk) \in Nat
    BY Fields DEF IInv
  <1>2. CASE writer.state = "writing"
    <2>1. Len(disk) = writer.next + writer.header.length + writer.written
      BY <1>2 DEF IInv, WriterInv
    <2>2. BoxesEnd = writer.next
      BY <1>2 DEF BoxesEnd, IsOpen
    <2> QED
      BY <1>1, <1>2, <2>1, <2>2
  <1>3. CASE writer.state # "writing"
    <2>1. BoxesEnd = Len(disk)
      BY <1>3 DEF BoxesEnd, IsOpen
    <2>2. writer.state = "open" => writer.next = Len(disk)
      BY DEF IInv, WriterInv
    <2> QED
      BY <1>1, <1>3, <2>1, <2>2
  <1> QED
    BY <1>2, <1>3

LEMMA Inside ==
  ASSUME IInv, NEW box \in given
  PROVE  /\ box \in GivenBox
         /\ box.offset \in Nat /\ box.length \in Nat /\ box.length > 0
         /\ box.offset + box.length <= BoxesEnd
         /\ box.offset + 1 \in 1..Len(disk)
  <1>1. box \in GivenBox /\ LiesIn(box, disk, BoxesEnd)
    BY DEF IInv, TypeInv, LieInv
  <1>2. box.offset + box.length <= BoxesEnd
    BY <1>1 DEF LiesIn
  <1> QED
    BY <1>1, <1>2, BoxNumbers, Ends

(* A step that leaves the boxes and their headers alone.                   *)
LEMMA SameBoxes ==
  ASSUME IInv, given' = given, reserved' = reserved, BoxesEnd' = BoxesEnd,
         \A n \in 1..Len(disk) : disk'[n] = disk[n],
         writer'.state \in {"open", "writing"} => writer.state \in {"open", "writing"}
  PROVE  BoxesInv'
  <1>1. LieInv'
    <2> SUFFICES ASSUME NEW box \in given
                 PROVE  LiesIn(box, disk', BoxesEnd)
      BY DEF LieInv
    <2>1. LiesIn(box, disk, BoxesEnd) /\ disk'[box.offset + 1] = disk[box.offset + 1]
      BY Inside DEF IInv, LieInv
    <2> QED
      BY <2>1, Inside, Ends, LiesOn
  <1>2. DeclaredInv'
    BY Inside DEF IInv, DeclaredInv
  <1>3. ChainInv'
    BY DEF IInv, ChainInv
  <1>4. ReservedInv'
    BY DEF IInv, ReservedInv
  <1> QED
    BY <1>1, <1>2, <1>3, <1>4 DEF BoxesInv

(* A step that ends a box behind the others.                               *)
LEMMA OneMoreBox ==
  ASSUME IInv, writer.state \in {"open", "writing"}, NEW new \in GivenBox,
         given' = given \cup {new}, new.offset = BoxesEnd, BoxesEnd' = BoxesEnd + new.length,
         \A n \in 1..Len(disk) : disk'[n] = disk[n],
         LiesIn(new, disk', BoxesEnd'),
         writer'.state \in {"open", "writing"} => Declares(disk'[new.offset + 1]),
         \A space \in reserved' :
           \/ space \in reserved
           \/ space.offset = new.offset /\ space.length = new.length
  PROVE  BoxesInv'
  <1>1. LieInv'
    <2> SUFFICES ASSUME NEW box \in given
                 PROVE  LiesIn(box, disk', BoxesEnd')
      BY DEF LieInv
    <2>1. LiesIn(box, disk, BoxesEnd) /\ disk'[box.offset + 1] = disk[box.offset + 1]
      BY Inside DEF IInv, LieInv
    <2>2. Declares(disk[box.offset + 1])
      BY DEF IInv, DeclaredInv
    <2>3. BoxesEnd <= BoxesEnd' /\ BoxesEnd' \in Nat
      BY Ends, BoxNumbers
    <2> QED
      BY <2>1, <2>2, <2>3, Inside, Ends, LiesOn
  <1>2. DeclaredInv'
    BY Inside DEF IInv, DeclaredInv
  <1>3. ChainInv'
    <2>1. Chained(given \cup {new}, BoxesEnd + new.length)
      BY Inside, Ends, ChainedBehind DEF IInv, TypeInv, ChainInv
    <2> QED
      BY <2>1 DEF ChainInv
  <1>4. ReservedInv'
    BY DEF IInv, ReservedInv
  <1> QED
    BY <1>1, <1>2, <1>3, <1>4 DEF BoxesInv

LEMMA OpenStep ==
  ASSUME IInv, NEW header \in Headers, HandleEvent(Open(header))
  PROVE  IInv' \/ UNCHANGED vars
  <1> SUFFICES ASSUME Taken(writer, Open(header))
               PROVE  IInv'
    BY DEF HandleEvent
  <1>1. writer.state = "open" /\ writer.next = Len(disk)
    BY DEF Taken, Open, IInv, WriterInv
  <1>2. Valid(header)
    BY HeaderAssumption DEF Valid, Types
  <1>3. /\ writer' = [state |-> "writing", header |-> header, offset |-> writer.next,
                      written |-> 0, next |-> writer.next]
        /\ disk' = disk \o Cells(header)
        /\ given' = given /\ reserved' = reserved
    BY Fields DEF HandleEvent, After, Written, Open, IInv, TypeInv, Writer
  <1>4. /\ disk' \in Seq(Cell)
        /\ Len(disk') = Len(disk) + header.length
        /\ \A n \in 1..Len(disk) : disk'[n] = disk[n]
        /\ disk'[Len(disk) + 1] = header
    <2>1. Cells(header) \in Seq(Cell) /\ Len(Cells(header)) = header.length /\ Cells(header)[1] = header
      BY <1>2, CellsOfHeader
    <2>2. header.length \in 1..2
      BY <1>2 DEF Valid
    <2>3. disk \in Seq(Cell)
      BY Fields DEF IInv
    <2>4. 1 \in 1..Len(Cells(header))
      BY <2>1, <2>2
    <2> HIDE DEF IInv, Cell
    <2> QED
      BY <1>3, <2>1, <2>3, <2>4, Appending
  <1>5. BoxesEnd' = BoxesEnd
    BY <1>1, <1>3, Ends DEF BoxesEnd, IsOpen
  <1>6. header \in Cell
    BY <1>2 DEF Valid, Cell
  <1>7. TypeInv'
    <2>1. writer' \in Writer
      BY <1>3, <1>6, Fields DEF IInv, Writer
    <2> QED
      BY <1>3, <1>4, <2>1 DEF IInv, TypeInv
  <1>8. WriterInv'
    <2>1. Declares(header) => 0 <= PayloadLength(header)
      BY <1>2 DEF Valid, PayloadLength, Declares
    <2>2. header.length \in Nat
      BY <1>2 DEF Valid
    <2>3. Len(disk) \in Nat
      BY Fields DEF IInv
    <2>4. /\ writer'.state = "writing" /\ writer'.header = header
          /\ writer'.offset = writer.next /\ writer'.next = writer.next /\ writer'.written = 0
      BY <1>3
    <2>5. Len(disk') = writer.next + header.length + 0 /\ disk'[writer.next + 1] = header
      BY <1>1, <1>4, <2>2, <2>3
    <2> QED
      BY <1>2, <2>1, <2>4, <2>5 DEF WriterInv
  <1>9. BoxesInv'
    BY <1>1, <1>3, <1>4, <1>5, SameBoxes
  <1> QED
    BY <1>7, <1>8, <1>9 DEF IInv, BoxesInv

LEMMA PayloadStep ==
  ASSUME IInv, NEW n \in Payloads, HandleEvent(Bytes(n))
  PROVE  IInv' \/ UNCHANGED vars
  <1> SUFFICES ASSUME Taken(writer, Bytes(n))
               PROVE  IInv'
    BY DEF HandleEvent
  <1>1. n \in Nat
    BY LengthAssumption
  <1>2. /\ writer.state = "writing"
        /\ Declares(writer.header) => writer.written + n <= PayloadLength(writer.header)
    BY DEF Taken, Bytes
  <1>3. /\ writer' = [writer EXCEPT !.written = @ + n]
        /\ disk' = disk \o Written(Bytes(n))
        /\ given' = given /\ reserved' = reserved
    BY DEF HandleEvent, After, Bytes
  <1>4. /\ writer'.state = "writing" /\ writer'.header = writer.header
        /\ writer'.offset = writer.offset /\ writer'.next = writer.next
        /\ writer'.written = writer.written + n
        /\ writer' \in Writer
    <2>1. writer \in Writer
      BY DEF IInv, TypeInv
    <2>2. writer.written \in Nat
      BY Fields DEF IInv
    <2>3. writer.written + n \in Nat
      BY <1>1, <2>2
    <2> QED
      BY <1>2, <1>3, <2>1, <2>3 DEF Writer
  <1>5. /\ disk' \in Seq(Cell)
        /\ Len(disk') = Len(disk) + n
        /\ \A k \in 1..Len(disk) : disk'[k] = disk[k]
    <2>1. Written(Bytes(n)) \in Seq(Cell) /\ Len(Written(Bytes(n))) = n
      BY <1>1, CellsOfPayload
    <2>2. disk \in Seq(Cell) /\ Len(disk) \in Nat
      BY Fields DEF IInv
    <2> HIDE DEF IInv, Cell
    <2> QED
      BY <1>3, <2>1, <2>2, Appending
  <1>6. BoxesEnd' = BoxesEnd
    BY <1>2, <1>4, <1>5 DEF BoxesEnd, IsOpen
  <1>7. TypeInv'
    BY <1>3, <1>4, <1>5 DEF IInv, TypeInv
  <1>8. WriterInv'
    <2>1. /\ Valid(writer.header) /\ writer.offset = writer.next
          /\ Len(disk) = writer.next + writer.header.length + writer.written
          /\ disk[writer.next + 1] = writer.header
      BY <1>2 DEF IInv, WriterInv
    <2>2. writer.header.length \in 1..2
      BY <2>1 DEF Valid
    <2>3. writer.next \in Nat /\ writer.written \in Nat
      BY Fields DEF IInv
    <2>4. writer.next + 1 \in 1..Len(disk)
      BY <2>1, <2>2, <2>3
    <2>5. disk'[writer.next + 1] = writer.header
      BY <1>5, <2>1, <2>4
    <2>6. Len(disk') = writer.next + writer.header.length + (writer.written + n)
      BY <1>1, <1>5, <2>1, <2>2, <2>3
    <2> QED
      BY <1>2, <1>4, <2>1, <2>5, <2>6 DEF WriterInv
  <1>9. BoxesInv'
    BY <1>2, <1>3, <1>5, <1>6, SameBoxes
  <1> QED
    BY <1>7, <1>8, <1>9 DEF IInv, BoxesInv

(* The box that is open, as it is ended, is found where it lies.           *)
LEMMA EndedLies ==
  ASSUME IInv, writer.state = "writing",
         Declares(writer.header) => writer.written = PayloadLength(writer.header)
  PROVE  /\ Ended(writer) \in GivenBox
         /\ Ended(writer).offset = BoxesEnd
         /\ BoxesEnd + Ended(writer).length = Len(disk)
         /\ NextAfter(writer) = Len(disk)
         /\ LiesIn(Ended(writer), disk, Len(disk))
         /\ disk[Ended(writer).offset + 1] = writer.header
  <1>1. /\ Valid(writer.header) /\ writer.offset = writer.next
        /\ Len(disk) = writer.next + writer.header.length + writer.written
        /\ disk[writer.next + 1] = writer.header
    BY DEF IInv, WriterInv
  <1>2. /\ writer.next \in Nat /\ writer.written \in Nat
        /\ writer.header.length \in 1..2 /\ writer.header.type \in Types
    BY <1>1, Fields DEF IInv, Valid
  <1>3. Ended(writer) = [type |-> writer.header.type, offset |-> writer.offset,
                         payload |-> writer.written, length |-> writer.header.length + writer.written]
    BY DEF Ended, Box
  <1>4. Ended(writer) \in GivenBox
    BY <1>1, <1>2, <1>3 DEF GivenBox
  <1>5. Declares(writer.header) => writer.header.total = writer.header.length + writer.written
    BY <1>1, <1>2 DEF PayloadLength, Valid, Declares
  <1>6. LiesIn(Ended(writer), disk, Len(disk))
    <2>1. /\ Ended(writer).offset = writer.next /\ Ended(writer).type = writer.header.type
          /\ Ended(writer).payload = writer.written
          /\ Ended(writer).length = writer.header.length + writer.written
      BY <1>1, <1>3
    <2>2. disk[Ended(writer).offset + 1] = writer.header
      BY <1>1, <2>1
    <2>3. Ended(writer).offset + Ended(writer).length = Len(disk)
      <3>1. Len(disk) = writer.next + writer.header.length + writer.written
        BY <1>1
      <3> QED
        BY ONLY <1>2, <2>1, <3>1
    <2>4. Ended(writer).length = Len(disk) - Ended(writer).offset
      BY <1>2, <2>1, <2>3
    <2> QED
      BY <1>2, <1>5, <2>1, <2>2, <2>3, <2>4 DEF LiesIn
  <1> QED
    BY <1>1, <1>2, <1>3, <1>4, <1>6, Ends DEF NextAfter

LEMMA EndStep ==
  ASSUME IInv, HandleEvent(End)
  PROVE  IInv' \/ UNCHANGED vars
  <1> SUFFICES ASSUME Taken(writer, End)
               PROVE  IInv'
    BY DEF HandleEvent
  <1>1. /\ writer.state = "writing"
        /\ Declares(writer.header) => writer.written = PayloadLength(writer.header)
    BY DEF Taken, End
  <1>2. /\ writer' = [writer EXCEPT !.state = IF Declares(writer.header) THEN "open"
                                              ELSE "past the end of the file",
                                    !.next = NextAfter(writer)]
        /\ disk' = disk \o Written(Bytes(0))
        /\ given' = given \cup {Ended(writer)} /\ reserved' = reserved
    BY DEF HandleEvent, After, End, Written, Bytes
  <1>3. /\ disk' \in Seq(Cell)
        /\ Len(disk') = Len(disk)
        /\ \A k \in 1..Len(disk) : disk'[k] = disk[k]
    <2>1. Written(Bytes(0)) \in Seq(Cell) /\ Len(Written(Bytes(0))) = 0
      BY CellsOfPayload
    <2>2. disk \in Seq(Cell) /\ Len(disk) \in Nat
      BY Fields DEF IInv
    <2> HIDE DEF IInv, Cell
    <2> QED
      BY <1>2, <2>1, <2>2, Appending
  <1>4. /\ writer'.state = IF Declares(writer.header) THEN "open" ELSE "past the end of the file"
        /\ writer'.next = Len(disk')
    BY <1>1, <1>2, <1>3, EndedLies DEF IInv, TypeInv
  <1>5. BoxesEnd' = Len(disk)
    BY <1>3, <1>4 DEF BoxesEnd, IsOpen
  <1>6. Ended(writer).offset + 1 \in 1..Len(disk)
    BY <1>1, EndedLies, BoxNumbers, Ends
  <1>7. LiesIn(Ended(writer), disk', BoxesEnd')
    BY <1>1, <1>3, <1>5, <1>6, EndedLies, LiesOn, Ends
  <1>8. TypeInv'
    <2>1. writer \in Writer /\ given \subseteq GivenBox /\ reserved \subseteq [offset : Nat, length : Nat]
      BY DEF IInv, TypeInv
    <2>2. NextAfter(writer) \in Nat /\ Ended(writer) \in GivenBox
      BY <1>1, EndedLies, Ends
    <2>3. writer' \in Writer
      BY <1>2, <2>1, <2>2 DEF Writer
    <2> QED
      BY <1>2, <1>3, <2>1, <2>2, <2>3 DEF TypeInv
  <1>9. WriterInv'
    BY <1>4 DEF WriterInv
  <1>10. BoxesInv'
    <2>1. writer'.state \in {"open", "writing"} => Declares(disk'[Ended(writer).offset + 1])
      BY <1>1, <1>3, <1>4, <1>6, EndedLies
    <2> QED
      BY <1>1, <1>2, <1>3, <1>5, <1>7, <2>1, EndedLies, OneMoreBox
  <1> QED
    BY <1>8, <1>9, <1>10 DEF IInv, BoxesInv

LEMMA FinishStep ==
  ASSUME IInv, Finish
  PROVE  IInv' \/ UNCHANGED vars
  <1> SUFFICES ASSUME ~(writer.state = "finished" \/ (writer.state = "writing" /\ Declares(writer.header)))
               PROVE  IInv'
    BY DEF Finish
  <1>1. /\ writer' = [writer EXCEPT !.state = "finished"] /\ disk' = disk /\ reserved' = reserved
        /\ given' = IF writer.state = "writing" THEN given \cup {Ended(writer)} ELSE given
    BY DEF Finish
  <1>2. writer'.state = "finished" /\ BoxesEnd' = Len(disk) /\ writer' \in Writer
    BY <1>1 DEF BoxesEnd, IsOpen, IInv, TypeInv, Writer
  <1>3. WriterInv'
    BY <1>2 DEF WriterInv
  <1>4. CASE writer.state = "writing"
    <2>1. Declares(writer.header) => writer.written = PayloadLength(writer.header)
      BY <1>4
    <2>2. TypeInv'
      BY <1>1, <1>2, <1>4, <2>1, EndedLies DEF IInv, TypeInv
    <2>3. LiesIn(Ended(writer), disk', BoxesEnd')
      BY <1>1, <1>2, <1>4, <2>1, EndedLies
    <2>4. BoxesInv'
      <3>1. given' = given \cup {Ended(writer)} /\ reserved' = reserved
        BY <1>1, <1>4
      <3> QED
        BY <1>1, <1>2, <1>4, <2>1, <2>3, <3>1, EndedLies, OneMoreBox
    <2> QED
      BY <1>3, <2>2, <2>4 DEF IInv, BoxesInv
  <1>5. CASE writer.state # "writing"
    <2>1. BoxesEnd' = BoxesEnd
      BY <1>2, <1>5 DEF BoxesEnd, IsOpen
    <2>2. TypeInv'
      BY <1>1, <1>2, <1>5 DEF IInv, TypeInv
    <2>3. BoxesInv'
      BY <1>1, <1>2, <1>5, <2>1, SameBoxes
    <2> QED
      BY <1>3, <2>2, <2>3 DEF IInv, BoxesInv
  <1> QED
    BY <1>4, <1>5
-------------------------------------------------------------------------------
(* Boxes written whole, and spaces reserved.                               *)

(* A box whose header declares the payload it is given is refused before   *)
(* its first cell or not at all.                                           *)
LEMMA WholeStep ==
  ASSUME IInv, NEW type \in Types, NEW payload \in Nat,
         NEW spaces \in SUBSET [offset : Nat, length : Nat],
         \A space \in spaces :
           space.offset = writer.next /\ space.length = HeaderFor(type, payload).length + payload,
         WriteWhole(HeaderFor(type, payload), payload, spaces)
  PROVE  IInv' \/ UNCHANGED vars
  <1> DEFINE header == HeaderFor(type, payload)
             opened == After(writer, Open(header))
             filled == After(opened, Bytes(payload))
             new == Box(header, writer.next, payload)
  <1> SUFFICES ASSUME Taken(writer, Open(header))
               PROVE  IInv'
    BY DEF WriteWhole
  <1>1. /\ Valid(header) /\ Declares(header) /\ PayloadLength(header) = payload
        /\ header.type = type /\ header.total = header.length + payload
        /\ header.length \in 1..2
    BY HeaderForValid DEF Valid
  <1>2. writer.state = "open" /\ writer.next = Len(disk) /\ writer.next \in Nat
    BY Fields DEF Taken, Open, IInv, WriterInv
  <1>3. opened = [state |-> "writing", header |-> header, offset |-> writer.next,
                  written |-> 0, next |-> writer.next]
    <2>1. writer \in Writer
      BY DEF IInv, TypeInv
    <2> HIDE DEF header
    <2> QED
      BY <2>1 DEF After, Open, Writer
  <1>4. filled = [state |-> "writing", header |-> header, offset |-> writer.next,
                  written |-> payload, next |-> writer.next]
    <2> HIDE DEF header, opened
    <2> QED
      BY <1>3 DEF After, Bytes
  <1>5. Taken(opened, Bytes(payload)) /\ Taken(filled, End)
    <2> HIDE DEF header, opened, filled
    <2>1. opened.written + payload <= PayloadLength(opened.header)
      BY <1>1, <1>3
    <2>2. Taken(opened, Bytes(payload))
      BY <1>3, <2>1 DEF Taken, Bytes
    <2>3. Taken(filled, End)
      BY <1>1, <1>4 DEF Taken, End
    <2> QED
      BY <2>2, <2>3
  <1>6. After(filled, End) = [state |-> "open", header |-> header, offset |-> writer.next,
                              written |-> payload, next |-> writer.next + header.length + payload]
    <2> HIDE DEF header, opened, filled
    <2> QED
      BY <1>1, <1>4 DEF After, End, NextAfter
  <1>7. /\ writer' = After(filled, End)
        /\ disk' = disk \o Cells(header) \o Written(Bytes(payload))
        /\ given' = given \cup {new} /\ reserved' = reserved \cup spaces
    <2>1. Written(Open(header)) = Cells(header)
      BY DEF Written, Open
    <2> QED
      BY <1>5, <2>1 DEF WriteWhole
  <1> HIDE DEF opened, filled
  <1>8. header \in Cell
    BY <1>1 DEF Valid, Cell
  <1>9. \A space \in spaces : space.offset = writer.next /\ space.length = header.length + payload
    OBVIOUS
  <1> HIDE DEF header
  <1>10. /\ disk' \in Seq(Cell)
         /\ Len(disk') = Len(disk) + header.length + payload
         /\ \A n \in 1..Len(disk) : disk'[n] = disk[n]
         /\ disk'[Len(disk) + 1] = header
    <2> DEFINE cells == Cells(header)
               more == Written(Bytes(payload))
               opening == disk \o cells
    <2>1. cells \in Seq(Cell) /\ Len(cells) = header.length /\ cells[1] = header
      BY <1>1, CellsOfHeader
    <2>2. more \in Seq(Cell) /\ Len(more) = payload
      BY CellsOfPayload
    <2>3. disk \in Seq(Cell) /\ Len(disk) \in Nat
      BY Fields DEF IInv
    <2>4. disk' = opening \o more
      BY <1>7
    <2> HIDE DEF cells, more, IInv, Cell
    <2>5. /\ opening \in Seq(Cell) /\ Len(opening) = Len(disk) + header.length
          /\ \A n \in 1..Len(disk) : opening[n] = disk[n]
          /\ opening[Len(disk) + 1] = header
      BY <1>1, <2>1, <2>3, Appending
    <2> HIDE DEF opening
    <2>6. /\ disk' \in Seq(Cell)
          /\ Len(disk') = Len(opening) + payload
          /\ \A n \in 1..Len(opening) : disk'[n] = opening[n]
      BY <2>2, <2>4, <2>5, Appending
    <2>7. \A n \in 1..Len(disk) + 1 : n \in 1..Len(opening)
      BY <1>1, <2>3, <2>5
    <2>8. \A n \in 1..Len(disk) : n \in 1..Len(disk) + 1
      BY <2>3
    <2>9. Len(disk) + 1 \in 1..Len(disk) + 1
      BY <2>3
    <2>10. \A n \in 1..Len(disk) : disk'[n] = disk[n]
      BY <2>5, <2>6, <2>7, <2>8
    <2>11. disk'[Len(disk) + 1] = header
      BY <2>5, <2>6, <2>7, <2>9
    <2> QED
      BY <2>5, <2>6, <2>10, <2>11
  <1>11. /\ writer'.state = "open" /\ writer'.next = Len(disk') /\ writer' \in Writer
    BY <1>1, <1>2, <1>6, <1>7, <1>8, <1>10 DEF Writer
  <1>12. /\ new = [type |-> type, offset |-> writer.next, payload |-> payload,
                   length |-> header.length + payload]
         /\ new \in GivenBox
         /\ new.type = type /\ new.payload = payload
         /\ new.offset = Len(disk) /\ new.length = header.length + payload
    BY <1>1, <1>2 DEF Box, GivenBox
  <1> HIDE DEF new
  <1>13. TypeInv'
    BY <1>7, <1>10, <1>11, <1>12 DEF IInv, TypeInv
  <1>14. WriterInv'
    BY <1>11 DEF WriterInv
  <1>15. BoxesEnd = writer.next /\ BoxesEnd' = BoxesEnd + new.length
    <2>1. BoxesEnd' = Len(disk')
      BY <1>11 DEF BoxesEnd, IsOpen
    <2> QED
      BY <1>1, <1>2, <1>10, <1>12, <2>1, Ends
  <1>16. LiesIn(new, disk', BoxesEnd')
    <2>1. disk'[new.offset + 1] = header
      BY <1>10, <1>12
    <2>2. new.offset + new.length <= BoxesEnd'
      BY <1>1, <1>2, <1>12, <1>15
    <2>3. new.length = header.total
      BY <1>1, <1>12
    <2> QED
      BY ONLY <1>1, <1>12, <2>1, <2>2, <2>3 DEF LiesIn
  <1>17. BoxesInv'
    <2>1. disk'[new.offset + 1] = header /\ new.offset = BoxesEnd
      BY <1>2, <1>10, <1>12, <1>15
    <2>2. \A space \in reserved' :
            space \in reserved \/ (space.offset = new.offset /\ space.length = new.length)
      BY <1>7, <1>12, <1>9
    <2>3. Declares(disk'[new.offset + 1])
      BY <1>1, <2>1
    <2>4. given' = given \cup {new}
      BY <1>7
    <2> HIDE DEF IInv
    <2> QED
      BY <1>2, <1>10, <1>12, <1>15, <1>16, <2>1, <2>2, <2>3, <2>4, OneMoreBox
  <1> QED
    BY <1>13, <1>14, <1>17 DEF IInv, BoxesInv

LEMMA WriteBoxStep ==
  ASSUME IInv, NEW n \in Payloads, WriteBox("moov", n)
  PROVE  IInv' \/ UNCHANGED vars
  <1>1. n \in Nat /\ "moov" \in Types
    BY LengthAssumption DEF Types
  <1>2. WriteWhole(HeaderFor("moov", n), n, {})
    BY DEF WriteBox
  <1>3. /\ {} \in SUBSET [offset : Nat, length : Nat]
        /\ \A space \in {} :
             space.offset = writer.next /\ space.length = HeaderFor("moov", n).length + n
    OBVIOUS
  <1> QED
    BY <1>1, <1>2, <1>3, WholeStep

LEMMA ReserveStep ==
  ASSUME IInv, NEW total \in Totals, WriteReserved(total)
  PROVE  IInv' \/ UNCHANGED vars
  <1> SUFFICES ASSUME total # 0
               PROVE  IInv' \/ UNCHANGED vars
    BY DEF WriteReserved
  <1> DEFINE payload == total - 1
             space == [offset |-> writer.next, length |-> total]
  <1>1. total \in Nat /\ payload \in Nat /\ payload + 1 <= CompactTotal /\ payload + 1 = total
    BY LengthAssumption
  <1>2. "free" \in Types
    BY DEF Types
  <1>3. HeaderFor("free", payload).length = 1
    BY <1>1, <1>2, HeaderForValid
  <1>4. total - HeaderFor("free", payload).length = payload
    BY <1>1, <1>3
  <1>5. WriteWhole(HeaderFor("free", payload), payload, {space})
    BY <1>4 DEF WriteReserved
  <1>6. writer.next \in Nat
    BY Fields DEF IInv
  <1>7. {space} \in SUBSET [offset : Nat, length : Nat]
    BY <1>1, <1>6
  <1>8. \A s \in {space} :
          s.offset = writer.next /\ s.length = HeaderFor("free", payload).length + payload
    BY <1>1, <1>3
  <1> HIDE DEF payload, space
  <1> QED
    BY <1>1, <1>2, <1>5, <1>7, <1>8, WholeStep
-------------------------------------------------------------------------------
(* Spaces written over.                                                    *)

LEMMA RestHeaderValid ==
  ASSUME NEW rest \in 1..CompactTotal
  PROVE  /\ Valid(RestHeader(rest)) /\ Declares(RestHeader(rest))
         /\ RestHeader(rest).type = "free" /\ RestHeader(rest).length = 1
         /\ RestHeader(rest).total = rest
  <1>1. (rest - 1) + 1 = rest /\ rest \in Nat /\ rest > 0 /\ rest <= CompactTotal
    BY LengthAssumption
  <1>2. RestHeader(rest) = [type |-> "free", total |-> rest, length |-> 1]
    BY <1>1 DEF RestHeader, Compact, Header
  <1>3. "free" \in Types
    BY DEF Types
  <1> QED
    BY <1>1, <1>2, <1>3, LengthAssumption DEF Valid, Declares, IsCompact

(* A space is a box of the file.                                           *)
LEMMA SpaceIsABox ==
  ASSUME IInv, NEW space \in reserved
  PROVE  /\ space.offset \in Nat /\ space.length \in Nat
         /\ \E old \in given : old.offset = space.offset /\ old.length = space.length
  BY DEF IInv, TypeInv, ReservedInv

(* The other boxes lie clear of a space.                                   *)
LEMMA ClearOfASpace ==
  ASSUME IInv, NEW space \in reserved, NEW box \in given
  PROVE  \/ box.offset = space.offset /\ box.length = space.length
         \/ box.offset + box.length <= space.offset
         \/ space.offset + space.length <= box.offset
  <1>1. PICK old \in given : old.offset = space.offset /\ old.length = space.length
    BY SpaceIsABox
  <1>2. Disjoint(given)
    BY DEF IInv, ChainInv, Chained
  <1> QED
    BY <1>1, <1>2 DEF Disjoint

(* What is written over a space: a box, and the header of a free box over  *)
(* what is left.                                                           *)
FillCells(header, payload, rest) ==
  Cells(header) \o Written(Bytes(payload)) \o (IF rest = 0 THEN <<>> ELSE Cells(RestHeader(rest)))

LEMMA CellsOfFill ==
  ASSUME NEW header, Valid(header), NEW payload \in Nat, NEW rest \in 0..CompactTotal
  PROVE  /\ FillCells(header, payload, rest) \in Seq(Cell)
         /\ rest = 0 => Len(FillCells(header, payload, rest)) = header.length + payload
         /\ rest > 0 => Len(FillCells(header, payload, rest)) = header.length + payload + 1
         /\ FillCells(header, payload, rest)[1] = header
         /\ rest > 0 => FillCells(header, payload, rest)[header.length + payload + 1] = RestHeader(rest)
  <1> DEFINE cells == FillCells(header, payload, rest)
             first == Cells(header)
             more == Written(Bytes(payload))
             filled == first \o more
             last == IF rest = 0 THEN <<>> ELSE Cells(RestHeader(rest))
  <1>1. first \in Seq(Cell) /\ Len(first) = header.length /\ first[1] = header
    BY CellsOfHeader
  <1>2. more \in Seq(Cell) /\ Len(more) = payload
    BY CellsOfPayload
  <1>3. header.length \in 1..2
    BY DEF Valid
  <1>4. /\ last \in Seq(Cell)
        /\ Len(last) = IF rest = 0 THEN 0 ELSE 1
        /\ rest > 0 => last[1] = RestHeader(rest)
    <2>1. CASE rest = 0
      BY <2>1
    <2>2. CASE rest # 0
      <3>1. rest \in 1..CompactTotal
        BY <2>2, LengthAssumption
      <3>2. Valid(RestHeader(rest)) /\ RestHeader(rest).length = 1
        BY <3>1, RestHeaderValid
      <3>3. last = Cells(RestHeader(rest))
        BY <2>2
      <3> HIDE DEF last
      <3> QED
        BY <2>2, <3>2, <3>3, CellsOfHeader
    <2> QED
      BY <2>1, <2>2
  <1>5. cells = filled \o last
    BY DEF FillCells
  <1> HIDE DEF cells, first, more, last, Cell
  <1>6. /\ filled \in Seq(Cell) /\ Len(filled) = header.length + payload
        /\ filled[1] = header
    BY <1>1, <1>2, <1>3, Appending
  <1> HIDE DEF filled
  <1>7. /\ cells \in Seq(Cell) /\ Len(cells) = header.length + payload + Len(last)
        /\ \A n \in 1..Len(filled) : cells[n] = filled[n]
        /\ \A n \in 1..Len(last) : cells[Len(filled) + n] = last[n]
    <2>1. /\ filled \o last \in Seq(Cell) /\ Len(filled \o last) = Len(filled) + Len(last)
          /\ \A n \in 1..Len(filled) : (filled \o last)[n] = filled[n]
          /\ \A n \in 1..Len(last) : (filled \o last)[Len(filled) + n] = last[n]
      BY <1>4, <1>6, Appending
    <2> QED
      BY ONLY <1>5, <1>6, <2>1
  <1>8. 1 \in 1..Len(filled)
    BY <1>3, <1>6
  <1>9. rest > 0 => 1 \in 1..Len(last)
    BY <1>4
  <1>10. /\ cells \in Seq(Cell) /\ cells[1] = header
         /\ rest = 0 => Len(cells) = header.length + payload
         /\ rest > 0 => Len(cells) = header.length + payload + 1
         /\ rest > 0 => cells[header.length + payload + 1] = RestHeader(rest)
    BY <1>4, <1>6, <1>7, <1>8, <1>9
  <1> QED
    BY <1>10 DEF cells

(* A step that writes over places inside boxes only, and leaves the writer *)
(* alone.                                                                  *)
LEMMA OverwriteStep ==
  ASSUME IInv, NEW cells \in Seq(Cell), NEW offset \in Nat, offset + Len(cells) <= BoxesEnd,
         disk' = Overwritten(cells, offset), writer' = writer
  PROVE  /\ disk' \in Seq(Cell) /\ Len(disk') = Len(disk)
         /\ BoxesEnd' = BoxesEnd
         /\ WriterInv'
         /\ \A n \in 1..Len(disk) :
              n <= offset \/ n > offset + Len(cells) => disk'[n] = disk[n]
         /\ \A k \in 1..Len(cells) : disk'[offset + k] = cells[k]
  <1>1. disk \in Seq(Cell) /\ Len(disk) \in Nat /\ Len(cells) \in Nat
    <2>1. disk \in Seq(Cell) /\ Len(disk) \in Nat
      BY Fields DEF IInv
    <2>2. Len(cells) \in Nat
      BY ONLY cells \in Seq(Cell)
    <2> QED
      BY <2>1, <2>2
  <1>2. BoxesEnd \in Nat /\ BoxesEnd <= Len(disk)
    BY Ends
  <1>3. /\ disk' \in Seq(Cell) /\ Len(disk') = Len(disk)
        /\ \A n \in 1..Len(disk) :
             n <= offset \/ n > offset + Len(cells) => disk'[n] = disk[n]
    BY <1>1, Overwriting
  <1>4. \A k \in 1..Len(cells) : disk'[offset + k] = cells[k]
    <2> TAKE k \in 1..Len(cells)
    <2>1. offset + k \in 1..Len(disk)
      BY <1>1, <1>2
    <2> QED
      BY <1>1, <2>1, Overwriting
  <1>5. BoxesEnd' = BoxesEnd
    BY <1>3 DEF BoxesEnd, IsOpen
  <1>6. WriterInv'
    <2>1. CASE writer.state = "writing"
      <3>1. /\ Valid(writer.header) /\ writer.offset = writer.next
            /\ Len(disk) = writer.next + writer.header.length + writer.written
            /\ disk[writer.next + 1] = writer.header
            /\ Declares(writer.header) => writer.written <= PayloadLength(writer.header)
        BY <2>1 DEF IInv, WriterInv
      <3>2. /\ writer.next \in Nat /\ writer.written \in Nat /\ writer.next = BoxesEnd
            /\ writer.header.length \in 1..2
        BY <2>1, <3>1, Fields, Ends DEF IInv, Valid
      <3>3. writer.next + 1 \in 1..Len(disk) /\ writer.next + 1 > offset + Len(cells)
        BY <1>1, <3>1, <3>2
      <3>4. disk'[writer.next + 1] = writer.header
        BY <1>3, <3>1, <3>3
      <3> QED
        BY <1>3, <2>1, <3>1, <3>4 DEF WriterInv
    <2>2. CASE writer.state # "writing"
      BY <1>3, <2>2 DEF IInv, WriterInv
    <2> QED
      BY <2>1, <2>2
  <1> QED
    BY <1>3, <1>4, <1>5, <1>6

LEMMA FillStep ==
  ASSUME IInv, NEW space \in reserved, NEW payload \in Payloads, Fill(space, payload)
  PROVE  IInv'
  <1> DEFINE header == HeaderFor("moov", payload)
             filled == space.offset + header.length + payload
             rest == space.offset + space.length - filled
             cells == FillCells(header, payload, rest)
             first == Box(header, space.offset, payload)
             parts == {first} \cup { Box(RestHeader(rest), filled, n) : n \in {rest - 1} \cap Nat }
             kept == { box \in given : box.offset # space.offset }
  <1>1. /\ rest \in 0..CompactTotal
        /\ disk' = Overwritten(cells, space.offset)
        /\ given' = kept \cup parts
        /\ reserved' = reserved \ {space}
        /\ writer' = writer
    <2>1. FilledWith(space, payload) = [header |-> header, rest |-> rest, boxes |-> parts]
      BY DEF FilledWith
    <2> HIDE DEF header, rest, filled, parts
    <2>2. /\ FilledWith(space, payload).header = header
          /\ FilledWith(space, payload).rest = rest
          /\ FilledWith(space, payload).boxes = parts
      BY <2>1
    <2>3. PICK with \in {FilledWith(space, payload)} :
            /\ with.rest \in 0..CompactTotal
            /\ disk' = Overwritten(FillCells(with.header, payload, with.rest), space.offset)
            /\ given' = kept \cup with.boxes
            /\ reserved' = reserved \ {space}
            /\ UNCHANGED writer
      BY DEF Fill, FillCells
    <2>4. with.header = header /\ with.rest = rest /\ with.boxes = parts
      BY <2>2
    <2> QED
      BY <2>3, <2>4
  <1>2. payload \in Nat /\ "moov" \in Types
    BY LengthAssumption DEF Types
  <1>3. /\ Valid(header) /\ Declares(header)
        /\ header.type = "moov" /\ header.total = header.length + payload
        /\ header.length \in 1..2
    BY <1>2, HeaderForValid DEF Valid
  <1>4. PICK old \in given : old.offset = space.offset /\ old.length = space.length
    BY SpaceIsABox
  <1>5. /\ space.offset \in Nat /\ space.length \in Nat
        /\ space.offset + space.length <= BoxesEnd
        /\ BoxesEnd \in Nat /\ BoxesEnd <= Len(disk) /\ Len(disk) \in Nat
    BY <1>4, SpaceIsABox, Inside, Ends
  <1> HIDE DEF header
  <1>6. /\ filled \in Nat /\ filled + rest = space.offset + space.length
        /\ filled = space.offset + header.length + payload
    BY <1>2, <1>3, <1>5
  <1>7. /\ cells \in Seq(Cell)
        /\ rest = 0 => Len(cells) = header.length + payload
        /\ rest > 0 => Len(cells) = header.length + payload + 1
        /\ cells[1] = header
        /\ rest > 0 => cells[header.length + payload + 1] = RestHeader(rest)
    <2>1. rest \in 0..CompactTotal /\ payload \in Nat /\ Valid(header)
      BY <1>1, <1>2, <1>3
    <2> HIDE DEF rest, filled, parts, first
    <2> QED
      BY ONLY <2>1, CellsOfFill
  <1> HIDE DEF cells
  (* The parts that take the place of the space.                           *)
  <1>8. /\ first.type = "moov" /\ first.payload = payload
        /\ first.offset = space.offset /\ first.length = header.length + payload
        /\ first \in GivenBox
    BY <1>2, <1>3, <1>5 DEF Box, GivenBox, Types
  <1>9. \A part \in parts :
          \/ part = first
          \/ /\ rest > 0
             /\ part.type = "free" /\ part.payload = rest - 1
             /\ part.offset = filled /\ part.length = rest
             /\ part \in GivenBox
    <2> SUFFICES ASSUME NEW part \in parts, part # first
                 PROVE  /\ rest > 0
                        /\ part.type = "free" /\ part.payload = rest - 1
                        /\ part.offset = filled /\ part.length = rest
                        /\ part \in GivenBox
      OBVIOUS
    <2>1. part = Box(RestHeader(rest), filled, rest - 1) /\ rest - 1 \in Nat
      OBVIOUS
    <2>2. rest \in 1..CompactTotal /\ 1 + (rest - 1) = rest
      BY <1>1, <2>1, LengthAssumption
    <2> HIDE DEF rest, filled, parts
    <2>3. RestHeader(rest).type = "free" /\ RestHeader(rest).length = 1
      BY <2>2, RestHeaderValid
    <2>4. part = [type |-> "free", offset |-> filled, payload |-> rest - 1, length |-> 1 + (rest - 1)]
      BY <2>1, <2>3 DEF Box
    <2> QED
      BY <1>6, <2>1, <2>2, <2>4 DEF GivenBox, Types
  <1>10. rest > 0 => \E part \in parts : part.offset = filled
    <2> SUFFICES ASSUME rest > 0
                 PROVE  \E part \in parts : part.offset = filled
      OBVIOUS
    <2>1. rest - 1 \in {rest - 1} \cap Nat
      BY <1>1, LengthAssumption
    <2>2. Box(RestHeader(rest), filled, rest - 1).offset = filled
      BY DEF Box
    <2> QED
      BY <2>1, <2>2
  <1>11. first \in parts
    OBVIOUS
  <1>12. rest \in Nat /\ rest <= CompactTotal
    BY <1>1, LengthAssumption
  <1> HIDE DEF first, parts, filled, rest
  (* Where they lie.                                                       *)
  <1>13. Len(cells) <= space.length /\ 1 \in 1..Len(cells)
    <2>1. header.length + payload + rest = space.length
      <3>1. header.length \in Nat /\ payload \in Nat /\ rest \in Nat
        BY <1>2, <1>3, <1>12
      <3>2. /\ space.offset \in Nat /\ space.length \in Nat
            /\ filled = space.offset + header.length + payload
            /\ filled + rest = space.offset + space.length
        BY <1>5, <1>6
      <3> QED
        BY ONLY <3>1, <3>2
    <2>2. header.length \in 1..2 /\ payload \in Nat /\ rest \in Nat
      BY <1>2, <1>3, <1>12
    <2>3. CASE rest = 0
      <3>1. Len(cells) = header.length + payload
        BY <1>7, <2>3
      <3> QED
        BY ONLY <2>1, <2>2, <2>3, <3>1
    <2>4. CASE rest > 0
      <3>1. Len(cells) = header.length + payload + 1
        BY <1>7, <2>4
      <3> QED
        BY ONLY <2>1, <2>2, <2>4, <3>1
    <2> QED
      BY <2>2, <2>3, <2>4
  <1>14. /\ disk' \in Seq(Cell) /\ Len(disk') = Len(disk)
         /\ BoxesEnd' = BoxesEnd
         /\ WriterInv'
         /\ \A n \in 1..Len(disk) :
              n <= space.offset \/ n > space.offset + Len(cells) => disk'[n] = disk[n]
         /\ \A k \in 1..Len(cells) : disk'[space.offset + k] = cells[k]
    <2>1. space.offset + Len(cells) <= BoxesEnd
      BY <1>2, <1>3, <1>5, <1>7, <1>13
    <2> HIDE DEF IInv
    <2> QED
      BY <1>1, <1>5, <1>7, <2>1, OverwriteStep
  <1>15. \A box \in kept : disk'[box.offset + 1] = disk[box.offset + 1]
    <2> TAKE box \in kept
    <2>1. /\ box.offset \in Nat /\ box.length \in Nat /\ box.length > 0
          /\ box.offset + 1 \in 1..Len(disk)
      BY Inside
    <2>2. \/ box.offset + box.length <= space.offset
          \/ space.offset + space.length <= box.offset
      BY ClearOfASpace
    <2>3. box.offset + 1 <= space.offset \/ box.offset + 1 > space.offset + Len(cells)
      BY <1>2, <1>3, <1>5, <1>7, <1>13, <2>1, <2>2
    <2> QED
      BY <1>14, <2>1, <2>3
  <1>16. disk'[first.offset + 1] = header
    <2>1. disk'[space.offset + 1] = cells[1]
      BY <1>13, <1>14
    <2> QED
      BY <1>7, <1>8, <2>1
  <1>17. rest > 0 => disk'[filled + 1] = RestHeader(rest)
    <2> SUFFICES ASSUME rest > 0
                 PROVE  disk'[filled + 1] = RestHeader(rest)
      OBVIOUS
    <2> DEFINE k == header.length + payload + 1
    <2>1. k \in 1..Len(cells) /\ space.offset + k = filled + 1
      <3>1. Len(cells) = k /\ filled = space.offset + header.length + payload
        BY <1>6, <1>7
      <3>2. header.length \in Nat /\ payload \in Nat /\ space.offset \in Nat
        BY <1>2, <1>3, <1>5
      <3> QED
        BY ONLY <3>1, <3>2
    <2>2. cells[k] = RestHeader(rest)
      BY <1>7
    <2> HIDE DEF k
    <2> QED
      BY <1>14, <2>1, <2>2
  (* The invariant.                                                        *)
  <1>18. TypeInv'
    BY <1>1, <1>8, <1>9, <1>14 DEF IInv, TypeInv
  <1>19. \A part \in parts : LiesIn(part, disk', BoxesEnd) /\ Declares(disk'[part.offset + 1])
    <2> TAKE part \in parts
    <2>1. CASE part = first
      <3>1. first.offset + first.length <= BoxesEnd
        <4>1. /\ first.offset = space.offset /\ first.length = header.length + payload
              /\ header.length \in Nat /\ payload \in Nat /\ rest \in Nat
          BY <1>2, <1>3, <1>8, <1>12
        <4>2. /\ space.offset \in Nat /\ space.length \in Nat /\ BoxesEnd \in Nat
              /\ space.offset + space.length <= BoxesEnd
              /\ filled = space.offset + header.length + payload
              /\ filled + rest = space.offset + space.length
          BY <1>5, <1>6
        <4> QED
          BY ONLY <4>1, <4>2
      <3> QED
        BY <1>3, <1>8, <1>16, <2>1, <3>1 DEF LiesIn
    <2>2. CASE part # first
      <3>1. /\ rest > 0 /\ part.type = "free" /\ part.payload = rest - 1
            /\ part.offset = filled /\ part.length = rest
        BY <1>9, <2>2
      <3>2. rest \in 1..CompactTotal
        BY <1>12, <3>1, LengthAssumption
      <3>3. /\ Declares(RestHeader(rest)) /\ RestHeader(rest).type = "free"
            /\ RestHeader(rest).length = 1 /\ RestHeader(rest).total = rest
        BY <3>2, RestHeaderValid
      <3>4. disk'[part.offset + 1] = RestHeader(rest)
        BY <1>17, <3>1
      <3>5. part.offset + part.length <= BoxesEnd /\ 1 + part.payload = part.length
        BY <1>5, <1>6, <1>12, <3>1
      <3> QED
        BY <3>1, <3>3, <3>4, <3>5 DEF LiesIn
    <2> QED
      BY <2>1, <2>2
  <1>20. LieInv'
    <2> SUFFICES ASSUME NEW box \in kept
                 PROVE  LiesIn(box, disk', BoxesEnd)
      BY <1>1, <1>14, <1>19 DEF LieInv
    <2>1. LiesIn(box, disk, BoxesEnd) /\ box \in GivenBox
      BY Inside DEF IInv, LieInv
    <2> QED
      BY <1>5, <1>15, <2>1, LiesOn
  <1>21. DeclaredInv'
    BY <1>1, <1>15, <1>19 DEF IInv, DeclaredInv
  <1>22. ChainInv'
    <2>1. Chained(given, BoxesEnd) /\ given \in SUBSET GivenBox
      BY DEF IInv, ChainInv, TypeInv
    <2>2. parts \in SUBSET GivenBox
      BY <1>8, <1>9
    <2>3. first.offset + first.length = filled
      BY <1>2, <1>3, <1>5, <1>6, <1>8
    <2>4. Follows(parts, old.offset + old.length)
      <3> SUFFICES ASSUME NEW part \in parts
                   PROVE  \/ part.offset + part.length = old.offset + old.length
                          \/ \E next \in parts : next.offset = part.offset + part.length
        BY DEF Follows
      <3>1. CASE part = first /\ rest = 0
        BY <1>4, <1>6, <2>3, <3>1
      <3>2. CASE part = first /\ rest > 0
        BY <1>10, <2>3, <3>2
      <3>3. CASE part # first
        BY <1>4, <1>6, <1>9, <3>3
      <3> QED
        BY <1>12, <3>1, <3>2, <3>3
    <2>5. Disjoint(parts)
      <3> SUFFICES ASSUME NEW part \in parts, NEW other \in parts, part # other
                   PROVE  \/ part.offset + part.length <= other.offset
                          \/ other.offset + other.length <= part.offset
        BY DEF Disjoint
      <3>1. CASE part = first
        BY <1>6, <1>9, <2>3, <3>1
      <3>2. CASE other = first
        BY <1>6, <1>9, <2>3, <3>2
      <3>3. CASE part # first /\ other # first
        <4>1. part.type = other.type /\ part.offset = other.offset
              /\ part.payload = other.payload /\ part.length = other.length
              /\ part \in GivenBox /\ other \in GivenBox
          BY <1>9, <3>3
        <4>2. part = other
          BY <4>1 DEF GivenBox
        <4> QED
          BY <4>2
      <3> QED
        BY <3>1, <3>2, <3>3
    <2>6. \E part \in parts : part.offset = old.offset
      BY <1>4, <1>8, <1>11
    <2>7. \A part \in parts : /\ old.offset <= part.offset
                              /\ part.offset + part.length <= old.offset + old.length
      <3> TAKE part \in parts
      <3>1. CASE part = first
        BY <1>4, <1>5, <1>6, <1>8, <1>12, <2>3, <3>1
      <3>2. CASE part # first
        <4>1. part.offset = filled /\ part.length = rest
          BY <1>9, <3>2
        <4> QED
          BY <1>2, <1>3, <1>4, <1>5, <1>6, <1>12, <4>1
      <3> QED
        BY <3>1, <3>2
    <2>8. kept = { box \in given : box.offset # old.offset }
      BY <1>4
    <2>9. Chained(kept \cup parts, BoxesEnd)
      <3> HIDE DEF kept
      <3> QED
        BY <1>5, <2>1, <2>2, <2>4, <2>5, <2>6, <2>7, <2>8, ChainedInPlace
    <2> QED
      BY <1>1, <1>14, <2>9 DEF ChainInv
  <1>23. ReservedInv'
    <2> SUFFICES ASSUME NEW other \in reserved, other # space
                 PROVE  \E box \in kept : box.offset = other.offset /\ box.length = other.length
      BY <1>1 DEF ReservedInv
    <2>1. PICK box \in given : box.offset = other.offset /\ box.length = other.length
      BY SpaceIsABox
    <2>2. CASE box.offset = space.offset
      <3>1. box = old
        BY <1>4, <2>2, OneAtAPlace DEF IInv, TypeInv, ChainInv, Chained
      <3>2. other.offset = space.offset /\ other.length = space.length
        BY <1>4, <2>1, <3>1
      <3>3. other \in [offset : Nat, length : Nat] /\ space \in [offset : Nat, length : Nat]
        BY DEF IInv, TypeInv
      <3>4. other = space
        BY ONLY <3>2, <3>3
      <3> QED
        BY <3>4
    <2> QED
      BY <2>1, <2>2
  <1> QED
    BY <1>14, <1>18, <1>20, <1>21, <1>22, <1>23 DEF IInv

(* What is written over a placeholder: an mdat header as long as it is, or *)
(* an empty free box and a short one.                                      *)
NoBox == Compact("free", 0)
PlaceCells(header) == (IF IsCompact(header) THEN Cells(NoBox) ELSE <<>>) \o Cells(header)

LEMMA NoBoxValid == Valid(NoBox) /\ Declares(NoBox) /\ NoBox = [type |-> "free", total |-> 1, length |-> 1]
  <1>1. NoBox = [type |-> "free", total |-> 1, length |-> 1]
    BY DEF NoBox, Compact, Header
  <1>2. "free" \in Types
    BY DEF Types
  <1> QED
    BY <1>1, <1>2, LengthAssumption DEF Valid, Declares, IsCompact

LEMMA CellsOfPlace ==
  ASSUME NEW header, Valid(header)
  PROVE  /\ PlaceCells(header) \in Seq(Cell)
         /\ Len(PlaceCells(header)) = 2
         /\ IsCompact(header) => PlaceCells(header)[1] = NoBox /\ PlaceCells(header)[2] = header
         /\ ~IsCompact(header) => PlaceCells(header)[1] = header
  <1> DEFINE cells == PlaceCells(header)
             first == Cells(NoBox)
             last == Cells(header)
  <1>1. last \in Seq(Cell) /\ Len(last) = header.length /\ last[1] = header
    BY CellsOfHeader
  <1>2. first \in Seq(Cell) /\ Len(first) = 1 /\ first[1] = NoBox
    BY NoBoxValid, CellsOfHeader
  <1>3. header.length \in 1..2
    BY DEF Valid
  <1>4. CASE IsCompact(header)
    <2>1. cells = first \o last /\ Len(last) = 1
      BY <1>1, <1>4 DEF PlaceCells, IsCompact
    <2> HIDE DEF cells, first, last, Cell
    <2>2. /\ cells \in Seq(Cell) /\ Len(cells) = 2
          /\ \A n \in 1..1 : cells[n] = first[n]
          /\ \A n \in 1..1 : cells[1 + n] = last[n]
      BY <1>1, <1>2, <2>1, Appending
    <2>3. cells[1] = NoBox /\ cells[2] = header
      BY <1>1, <1>2, <2>2
    <2> QED
      BY <1>4, <2>2, <2>3 DEF cells
  <1>5. CASE ~IsCompact(header)
    <2>1. cells = <<>> \o last /\ Len(last) = 2
      BY <1>1, <1>3, <1>5 DEF PlaceCells, IsCompact
    <2>2. cells = last
      BY <1>1, <2>1, ConcatEmptySeq
    <2> HIDE DEF last
    <2> QED
      BY <1>1, <1>5, <2>1, <2>2
  <1> QED
    BY <1>4, <1>5

LEMMA MediaDataHeaderStep ==
  ASSUME IInv, NEW space \in reserved, MediaDataHeader(space)
  PROVE  IInv'
  <1> DEFINE payload == writer.next - (space.offset + space.length)
             header == HeaderFor("mdat", payload)
             free == IF IsCompact(header) THEN {Box(NoBox, space.offset, 0)} ELSE {}
             start == space.offset + Cardinality(free)
             cells == PlaceCells(header)
             data == Box(header, start, payload)
             parts == free \cup {data}
             kept == { box \in given : box.offset < space.offset }
  <1>1. /\ space.length = 2 /\ writer.state = "open"
        /\ disk' = Overwritten(cells, space.offset)
        /\ given' = kept \cup parts
        /\ reserved' = { s \in reserved : s.offset < space.offset }
        /\ writer' = writer
    BY DEF MediaDataHeader, PlaceCells, NoBox
  <1>2. PICK old \in given : old.offset = space.offset /\ old.length = space.length
    BY SpaceIsABox
  <1>3. /\ space.offset \in Nat /\ space.offset + 2 <= BoxesEnd
        /\ BoxesEnd \in Nat /\ BoxesEnd = Len(disk) /\ BoxesEnd = writer.next
    BY <1>1, <1>2, SpaceIsABox, Inside, Ends
  <1>4. payload \in Nat /\ space.offset + 2 + payload = BoxesEnd
    BY <1>1, <1>3
  <1> HIDE DEF payload
  <1>5. /\ Valid(header) /\ Declares(header)
        /\ header.type = "mdat" /\ header.total = header.length + payload
        /\ header.length \in 1..2
    <2>1. "mdat" \in Types
      BY DEF Types
    <2> QED
      BY <1>4, <2>1, HeaderForValid DEF Valid
  <1> HIDE DEF header
  <1>6. /\ cells \in Seq(Cell) /\ Len(cells) = 2
        /\ IsCompact(header) => cells[1] = NoBox /\ cells[2] = header
        /\ ~IsCompact(header) => cells[1] = header
    BY <1>5, CellsOfPlace
  <1> HIDE DEF cells
  <1>7. /\ disk' \in Seq(Cell) /\ Len(disk') = Len(disk)
        /\ BoxesEnd' = BoxesEnd
        /\ WriterInv'
        /\ \A n \in 1..Len(disk) :
             n <= space.offset \/ n > space.offset + 2 => disk'[n] = disk[n]
        /\ \A k \in 1..2 : disk'[space.offset + k] = cells[k]
    <2>1. space.offset + Len(cells) <= BoxesEnd
      BY <1>3, <1>6
    <2> HIDE DEF IInv
    <2>2. /\ disk' \in Seq(Cell) /\ Len(disk') = Len(disk)
          /\ BoxesEnd' = BoxesEnd
          /\ WriterInv'
          /\ \A n \in 1..Len(disk) :
               n <= space.offset \/ n > space.offset + Len(cells) => disk'[n] = disk[n]
          /\ \A k \in 1..Len(cells) : disk'[space.offset + k] = cells[k]
      BY <1>1, <1>3, <1>6, <2>1, OverwriteStep
    <2>3. Len(cells) = 2
      BY <1>6
    <2> QED
      BY ONLY <2>2, <2>3
  (* The parts that take the place of the space and all that is behind it. *)
  <1>8. \A part \in free : /\ IsCompact(header)
                           /\ part = [type |-> "free", offset |-> space.offset, payload |-> 0, length |-> 1]
                           /\ part \in GivenBox
    <2> SUFFICES ASSUME NEW part \in free
                 PROVE  /\ IsCompact(header)
                        /\ part = [type |-> "free", offset |-> space.offset, payload |-> 0, length |-> 1]
                        /\ part \in GivenBox
      OBVIOUS
    <2>1. IsCompact(header) /\ part = Box(NoBox, space.offset, 0)
      OBVIOUS
    <2>2. part = [type |-> "free", offset |-> space.offset, payload |-> 0, length |-> 1]
      BY <2>1, NoBoxValid DEF Box
    <2> QED
      BY <1>3, <2>1, <2>2 DEF GivenBox, Types
  <1>9. /\ IsCompact(header) => start = space.offset + 1
        /\ ~IsCompact(header) => start = space.offset
    <2>1. CASE IsCompact(header)
      <3>1. free = {Box(NoBox, space.offset, 0)}
        BY <2>1
      <3>2. Cardinality(free) = 1
        BY <3>1, FS_Singleton
      <3> HIDE DEF free
      <3> QED
        BY <2>1, <3>2
    <2>2. CASE ~IsCompact(header)
      <3>1. Cardinality(free) = 0
        BY <2>2, FS_EmptySet
      <3> HIDE DEF free
      <3> QED
        BY <1>3, <2>2, <3>1
    <2> QED
      BY <2>1, <2>2
  <1>10. IsCompact(header) => \E part \in free : part.offset = space.offset
    BY DEF Box
  <1> HIDE DEF free, start
  <1>11. /\ start \in Nat /\ space.offset <= start
         /\ start + (header.length + payload) = BoxesEnd
    <2>1. CASE IsCompact(header)
      BY <1>3, <1>4, <1>9, <2>1 DEF IsCompact
    <2>2. CASE ~IsCompact(header)
      <3>1. header.length = 2
        BY <1>5, <2>2 DEF IsCompact
      <3> QED
        BY <1>3, <1>4, <1>9, <2>2, <3>1
    <2> QED
      BY <2>1, <2>2
  <1>12. /\ data.type = "mdat" /\ data.payload = payload
         /\ data.offset = start /\ data.length = header.length + payload
         /\ data \in GivenBox
    BY <1>4, <1>5, <1>11 DEF Box, GivenBox, Types
  <1>13. \A part \in parts : part \in free \/ part = data
    OBVIOUS
  <1>14. data \in parts /\ free \subseteq parts
    OBVIOUS
  <1> HIDE DEF data, parts
  (* Where they lie.                                                       *)
  <1>15. disk'[data.offset + 1] = header
    <2>1. disk'[space.offset + 1] = cells[1] /\ disk'[space.offset + 2] = cells[2]
      BY <1>7
    <2>2. CASE IsCompact(header)
      <3>1. data.offset + 1 = space.offset + 2
        BY <1>3, <1>9, <1>12, <2>2
      <3> QED
        BY <1>6, <2>1, <2>2, <3>1
    <2>3. CASE ~IsCompact(header)
      BY <1>6, <1>9, <1>12, <2>1, <2>3
    <2> QED
      BY <2>2, <2>3
  <1>16. \A part \in free : disk'[part.offset + 1] = NoBox
    BY <1>6, <1>7, <1>8
  <1>17. \A box \in kept : box.offset + box.length <= space.offset
    <2> TAKE box \in kept
    <2>1. box.offset \in Nat /\ box.length \in Nat /\ box.offset < space.offset
      BY Inside
    <2> QED
      BY <1>1, <1>3, <2>1, ClearOfASpace
  <1>18. \A box \in kept : disk'[box.offset + 1] = disk[box.offset + 1]
    <2> TAKE box \in kept
    <2>1. box.offset \in Nat /\ box.offset < space.offset /\ box.offset + 1 \in 1..Len(disk)
      BY Inside
    <2>2. box.offset + 1 <= space.offset
      BY <1>3, <2>1
    <2> QED
      BY <1>7, <2>1, <2>2
  (* The invariant.                                                        *)
  <1>19. TypeInv'
    BY <1>1, <1>7, <1>8, <1>12, <1>13 DEF IInv, TypeInv
  <1>20. \A part \in parts : LiesIn(part, disk', BoxesEnd) /\ Declares(disk'[part.offset + 1])
    <2> TAKE part \in parts
    <2>1. CASE part \in free
      <3>1. /\ part.type = "free" /\ part.offset = space.offset
            /\ part.payload = 0 /\ part.length = 1
        BY <1>8, <2>1
      <3>2. disk'[part.offset + 1] = NoBox
        BY <1>16, <2>1
      <3>3. NoBox.type = "free" /\ NoBox.total = 1 /\ NoBox.length = 1 /\ Declares(NoBox)
        BY NoBoxValid
      <3>4. part.offset + part.length <= BoxesEnd
        BY <1>3, <3>1
      <3> QED
        BY <3>1, <3>2, <3>3, <3>4 DEF LiesIn
    <2>2. CASE part = data
      <3>1. data.offset + data.length <= BoxesEnd
        BY <1>3, <1>11, <1>12
      <3> QED
        BY <1>5, <1>12, <1>15, <2>2, <3>1 DEF LiesIn
    <2> QED
      BY <1>13, <2>1, <2>2
  <1>21. LieInv'
    <2> SUFFICES ASSUME NEW box \in kept
                 PROVE  LiesIn(box, disk', BoxesEnd)
      BY <1>1, <1>7, <1>20 DEF LieInv
    <2>1. LiesIn(box, disk, BoxesEnd) /\ box \in GivenBox
      BY Inside DEF IInv, LieInv
    <2> QED
      BY <1>3, <1>18, <2>1, LiesOn
  <1>22. DeclaredInv'
    BY <1>1, <1>18, <1>20 DEF IInv, DeclaredInv
  <1>23. ChainInv'
    <2>1. Chained(given, BoxesEnd) /\ given \in SUBSET GivenBox
      BY DEF IInv, ChainInv, TypeInv
    <2>2. parts \in SUBSET GivenBox
      BY <1>8, <1>12, <1>13
    <2>3. data.offset + data.length = BoxesEnd
      BY <1>11, <1>12
    <2>4. \A part \in free : part.offset + part.length = data.offset /\ part.offset = space.offset
      BY <1>3, <1>8, <1>9, <1>12
    <2>5. Follows(parts, BoxesEnd)
      BY <1>13, <1>14, <2>3, <2>4 DEF Follows
    <2>6. Disjoint(parts)
      <3> SUFFICES ASSUME NEW part \in parts, NEW other \in parts, part # other
                   PROVE  \/ part.offset + part.length <= other.offset
                          \/ other.offset + other.length <= part.offset
        BY DEF Disjoint
      <3>1. ~(part \in free /\ other \in free)
        BY <1>8
      <3> QED
        BY <1>11, <1>12, <1>13, <2>4, <3>1
    <2>7. \E part \in parts : part.offset = old.offset
      <3>1. CASE IsCompact(header)
        BY <1>2, <1>10, <1>14, <3>1
      <3>2. CASE ~IsCompact(header)
        BY <1>2, <1>9, <1>12, <1>14, <3>2
      <3> QED
        BY <3>1, <3>2
    <2>8. \A part \in parts : old.offset <= part.offset
      BY <1>2, <1>3, <1>11, <1>12, <1>13, <2>4
    <2>9. kept = { box \in given : box.offset < old.offset } /\ old.offset + old.length <= BoxesEnd
      BY <1>1, <1>2, <1>3
    <2>10. Chained(kept \cup parts, BoxesEnd)
      <3> HIDE DEF kept
      <3> QED
        BY <1>3, <2>1, <2>2, <2>5, <2>6, <2>7, <2>8, <2>9, ChainedFrom
    <2> QED
      BY <1>1, <1>7, <2>10 DEF ChainInv
  <1>24. ReservedInv'
    <2> SUFFICES ASSUME NEW other \in reserved, other.offset < space.offset
                 PROVE  \E box \in kept : box.offset = other.offset /\ box.length = other.length
      BY <1>1 DEF ReservedInv
    <2>1. PICK box \in given : box.offset = other.offset /\ box.length = other.length
      BY SpaceIsABox
    <2> QED
      BY <2>1
  <1> QED
    BY <1>7, <1>19, <1>21, <1>22, <1>23, <1>24 DEF IInv
-------------------------------------------------------------------------------
(* The boxes ended are found end to end, as given, whatever was refused    *)
(* and whatever was written over, and the box that is open can be ended.   *)

LEMMA Initially == Init => IInv
  <1> SUFFICES ASSUME Init
               PROVE  IInv
    OBVIOUS
  <1>1. NoHeader \in Cell
    <2>1. "none" \in Types /\ NoHeader = [type |-> "none", total |-> 0, length |-> 0]
      BY DEF Types, NoHeader, Header
    <2>2. 0 \in Nat /\ 0 \in 0..2
      OBVIOUS
    <2>3. 0 \in Nat \cup {ToEnd}
      BY ONLY <2>2, Zenon
    <2> QED
      BY ONLY <2>1, <2>2, <2>3 DEF Cell
  <1>2. /\ writer = [state |-> "open", header |-> NoHeader, offset |-> 0, written |-> 0, next |-> 0]
        /\ disk = <<>> /\ reserved = {} /\ given = {}
    BY DEF Init
  <1>3. TypeInv
    BY <1>1, <1>2 DEF TypeInv, Writer
  <1>4. WriterInv /\ BoxesEnd = 0
    BY <1>2 DEF WriterInv, BoxesEnd, IsOpen
  <1> QED
    BY <1>2, <1>3, <1>4
    DEF IInv, LieInv, DeclaredInv, ChainInv, Chained, Starts, Follows, Disjoint, ReservedInv

LEMMA Step == IInv /\ [Next]_vars => IInv'
  <1> SUFFICES ASSUME IInv, [Next]_vars
               PROVE  IInv'
    OBVIOUS
  <1>1. ASSUME NEW header \in Headers, HandleEvent(Open(header))
        PROVE  IInv' \/ UNCHANGED vars
    BY <1>1, OpenStep
  <1>2. ASSUME NEW n \in Payloads, HandleEvent(Bytes(n))
        PROVE  IInv' \/ UNCHANGED vars
    BY <1>2, PayloadStep
  <1>3. ASSUME HandleEvent(End)
        PROVE  IInv' \/ UNCHANGED vars
    BY <1>3, EndStep
  <1>4. ASSUME NEW n \in Payloads, WriteBox("moov", n)
        PROVE  IInv' \/ UNCHANGED vars
    BY <1>4, WriteBoxStep
  <1>5. ASSUME NEW total \in Totals, WriteReserved(total)
        PROVE  IInv' \/ UNCHANGED vars
    BY <1>5, ReserveStep
  <1>6. ASSUME NEW space \in reserved, NEW n \in Payloads, Fill(space, n)
        PROVE  IInv'
    BY <1>6, FillStep
  <1>7. ASSUME NEW space \in reserved, MediaDataHeader(space)
        PROVE  IInv'
    BY <1>7, MediaDataHeaderStep
  <1>8. ASSUME Finish
        PROVE  IInv' \/ UNCHANGED vars
    BY <1>8, FinishStep
  <1>9. ASSUME UNCHANGED vars
        PROVE  IInv'
    <2>1. writer' = writer /\ disk' = disk /\ given' = given /\ reserved' = reserved
      BY <1>9 DEF vars
    <2>2. BoxesEnd' = BoxesEnd
      BY <2>1 DEF BoxesEnd, IsOpen
    <2>3. TypeInv'
      BY <2>1 DEF IInv, TypeInv
    <2>4. WriterInv'
      BY <2>1 DEF IInv, WriterInv
    <2>5. BoxesInv'
      BY <2>1, <2>2, SameBoxes
    <2> QED
      BY <2>3, <2>4, <2>5 DEF IInv, BoxesInv
  <1> HIDE DEF IInv
  <1> QED
    BY <1>1, <1>2, <1>3, <1>4, <1>5, <1>6, <1>7, <1>8, <1>9 DEF Next

(* What is owed to the box that is open, and then its end, are taken.      *)
LEMMA OpenCanBeEnded ==
  ASSUME IInv, IsOpen
  PROVE  CanBeEnded
  <1>1. writer.state = "writing" /\ writer.written \in Nat
    BY Fields DEF IInv, IsOpen
  <1>2. /\ Valid(writer.header)
        /\ Len(disk) = writer.next + writer.header.length + writer.written
        /\ disk[writer.next + 1] = writer.header
        /\ Declares(writer.header) => writer.written <= PayloadLength(writer.header)
    BY <1>1 DEF IInv, WriterInv
  <1>3. disk[writer.next + 1] = Cells(writer.header)[1]
    BY <1>2, CellsOfHeader
  <1>4. ASSUME Declares(writer.header)
        PROVE  LET owed == Bytes(PayloadLength(writer.header) - writer.written)
               IN  Taken(writer, owed) /\ Taken(After(writer, owed), End)
    <2> DEFINE owed == PayloadLength(writer.header) - writer.written
               after == After(writer, Bytes(owed))
    <2>1. PayloadLength(writer.header) \in Nat /\ writer.written + owed = PayloadLength(writer.header)
      BY <1>1, <1>2, <1>4 DEF Valid, PayloadLength, Declares
    <2>2. Taken(writer, Bytes(owed))
      <3> HIDE DEF owed
      <3> QED
        BY <1>1, <2>1 DEF Taken, Bytes
    <2>3. /\ after.state = "writing" /\ after.header = writer.header
          /\ after.written = writer.written + owed
      <3>1. writer \in Writer
        BY DEF IInv, TypeInv
      <3> HIDE DEF owed
      <3> QED
        BY <1>1, <3>1 DEF After, Bytes, Writer
    <2>4. Taken(after, End)
      <3> HIDE DEF after, owed
      <3> QED
        BY <2>1, <2>3 DEF Taken, End
    <2> QED
      BY <2>2, <2>4
  <1> QED
    BY <1>2, <1>3, <1>4 DEF CanBeEnded

LEMMA WhatIsGivenIsFramed == IInv => FramesWhatWasGiven
  <1> SUFFICES ASSUME IInv
               PROVE  FramesWhatWasGiven
    OBVIOUS
  <1>1. \A box \in given : LiesThere(box)
    BY DEF IInv, LieInv, LiesIn, LiesThere
  <1>2. EndToEnd
    BY DEF IInv, ChainInv, Chained, Starts, Follows, Disjoint, EndToEnd
  <1>3. writer.state \in {"open", "past the end of the file"} => writer.next = Len(disk)
    BY DEF IInv, WriterInv
  <1> QED
    BY <1>1, <1>2, <1>3, OpenCanBeEnded DEF FramesWhatWasGiven

(* The inductive invariant holds of every file that is written.            *)
THEOREM Invariance == Spec => []IInv
  <1>1. Init => IInv
    BY Initially
  <1>2. IInv /\ [Next]_vars => IInv'
    BY Step
  <1> QED
    BY <1>1, <1>2, PTL DEF Spec

(* Whatever events came before it and were refused, and whatever was       *)
(* written over: the boxes ended so far are found end to end, as given,    *)
(* the next box starts where next_offset of box_writer.rs says, and the    *)
(* box that is open lies there and can be brought to its end.              *)
THEOREM FramedAsGiven == Spec => []FramesWhatWasGiven
  <1>1. IInv => FramesWhatWasGiven
    BY WhatIsGivenIsFramed
  <1> QED
    BY <1>1, Invariance, PTL
===============================================================================
