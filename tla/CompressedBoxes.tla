---------------------------- MODULE CompressedBoxes ----------------------------
(***************************************************************************)
(* CompressedBoxes of crates/isobmff/src/structure_data/compressed.rs: the *)
(* compressed boxes a reader has been told of, and the file offsets they   *)
(* move.  A record of them is a value [boxes, locatedEnd, resumed,         *)
(* transformed]; a call is an operator from one to the next.               *)
(***************************************************************************)
EXTENDS Integers, SequencesExt

CONSTANTS
  MaxPosition,       (* the largest file offset, at which offsets saturate *)
  CompressedBoxCount (* the compressed boxes whose places are kept         *)

Sum(a, b) == Min({a + b, MaxPosition})

(* `offset`, which lies past `from` where it is counted, counted where     *)
(* `from` is `to`.                                                         *)
Shifted(offset, from, to) == Sum(to, Max({offset - from, 0}))

(* A compressed box: where it lies in the file, and the box it replaces in *)
(* the file as it reads back, the uncompressed domain.                     *)
Compressed == [offset : 0..MaxPosition, length : 0..MaxPosition,
               readBackOffset : 0..MaxPosition, readBackLength : 0..MaxPosition]

EndOf(box) == Sum(box.offset, box.length)
ReadBackEnd(box) == Sum(box.readBackOffset, box.readBackLength)

NoCompressedBox ==
  [boxes |-> <<>>, locatedEnd |-> 0, resumed |-> FALSE, transformed |-> FALSE]

CompressedRecord ==
  [boxes : Seq(Compressed), locatedEnd : 0..MaxPosition,
   resumed : BOOLEAN, transformed : BOOLEAN]
-------------------------------------------------------------------------------
(* partition_point: how many of the boxes satisfy what the first of them   *)
(* do and the others do not.                                               *)
Count(boxes, Test(_)) == Cardinality({i \in DOMAIN boxes : Test(boxes[i])})

(* The offset in the uncompressed domain of a file offset.                 *)
Uncompressed(boxes, offset) ==
  LET before == Count(boxes, LAMBDA box : EndOf(box) <= offset)
  IN  IF before = 0 THEN offset
      ELSE Shifted(offset, EndOf(boxes[before]), ReadBackEnd(boxes[before]))

Nowhere == [start |-> 0, end |-> -1]

(* in_file: where a range of the uncompressed domain lies in the file,     *)
(* Nowhere if it runs into a box that a compressed box replaces.           *)
InFile(boxes, range) ==
  LET before == Count(boxes, LAMBDA box : ReadBackEnd(box) <= range.start)
      upTo == IF range.end <= range.start THEN range.start ELSE range.end
      Placed(offset) ==
        Shifted(offset, ReadBackEnd(boxes[before]), EndOf(boxes[before]))
  IN  IF before < Len(boxes) /\ boxes[before + 1].readBackOffset < upTo THEN Nowhere
      ELSE IF before = 0 THEN range
      ELSE [start |-> Placed(range.start), end |-> Placed(range.end)]
-------------------------------------------------------------------------------
(* Slip: a box is placed from those before it, and those after it stay.    *)
PlacedAlone(boxes, at) ==
  [boxes EXCEPT ![at].readBackOffset =
     IF at = 1 THEN boxes[at].offset
     ELSE Shifted(boxes[at].offset, EndOf(boxes[at - 1]), ReadBackEnd(boxes[at - 1]))]

(* Each box counts its place in the uncompressed domain from the one       *)
(* before it: those from `at` on are placed again.                         *)
Placed(boxes, at) ==
  LET place[i \in DOMAIN boxes] ==
        IF i < at THEN boxes[i].readBackOffset
        ELSE IF i = 1 THEN boxes[i].offset
        ELSE Shifted(boxes[i].offset, EndOf(boxes[i - 1]),
                     Sum(place[i - 1], boxes[i - 1].readBackLength))
  IN  [i \in DOMAIN boxes |-> [boxes[i] EXCEPT !.readBackOffset = place[i]]]

InsertedLast(boxes, at, box) == Append(boxes, box)  (* slip: as it was told *)
Inserted(boxes, at, box) == InsertAt(boxes, at, box)

FullPastLimit(boxes) == Len(boxes) > CompressedBoxCount  (* slip: one too many *)
Full(boxes) == Len(boxes) >= CompressedBoxCount

(* record: a box recorded before is recorded once; one that moves samples  *)
(* located already, or is one too many, is refused.                        *)
Record(record, offset, length, readBackLength) ==
  LET at == Count(record.boxes, LAMBDA box : box.offset < offset) + 1
      known == at <= Len(record.boxes) /\ record.boxes[at].offset = offset
      moved == readBackLength # length /\ offset < record.locatedEnd
      box == [offset |-> offset, length |-> length,
              readBackOffset |-> offset, readBackLength |-> readBackLength]
      noted == [record EXCEPT !.transformed = TRUE]
  IN  CASE known -> [answer |-> "ok", record |-> noted]
        [] ~known /\ moved -> [answer |-> "before located", record |-> noted]
        [] ~known /\ ~moved /\ Full(record.boxes) ->
             [answer |-> "past limit", record |-> noted]
        [] OTHER -> [answer |-> "ok",
                     record |-> [noted EXCEPT !.boxes = Placed(Inserted(@, at, box), at)]]

NoteTransformed(record) == [record EXCEPT !.transformed = TRUE]

Resumed(record) == [record EXCEPT !.resumed = TRUE]

NoteLocated(record, end) == [record EXCEPT !.locatedEnd = Max({@, end})]

Transformed(record) == record.transformed  (* slip: without a resume too *)

(* refuse_base_data_offset_past_skipped: boxes that a resume skipped may   *)
(* have moved what a base data offset names.                               *)
MayHaveMoved(record) == record.resumed /\ record.transformed
===============================================================================
