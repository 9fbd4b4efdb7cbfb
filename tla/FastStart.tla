------------------------------- MODULE FastStart -------------------------------
(***************************************************************************)
(* FastStart of crates/isobmff-mux/src/fast_start.rs: reads the boxes at   *)
(* file level of a movie file, then lays the file out again with its moov  *)
(* before its media data, the offsets in the moov moved with the boxes     *)
(* they lie in.                                                            *)
(*                                                                         *)
(* A box has a header of one byte.  How a header and a payload come out of *)
(* input cut anywhere is BoxReader's.  The bytes laid out are told apart:  *)
(* a byte passed through by its offset in the file read, the k-th byte of  *)
(* the moov laid out again by -k.  An entry of a table of offsets takes    *)
(* one byte where the table is compact (stco, saio of version 0) and two   *)
(* where it is wide (co64, saio of version 1).                             *)
(***************************************************************************)
EXTENDS Subsequences, SequencesExt

CONSTANTS
  Files,         (* the files: [boxes, toEnd, length, movie], where toEnd  *)
                 (* is whether the last box runs to the end of the file,   *)
                 (* and length the bytes there are of it                   *)
  MovieBytes,    (* FastStartLimits::movie_bytes                           *)
  BoxCount,      (* FastStartLimits::box_count                             *)
  CompactReach,  (* the largest offset a compact entry holds: u32::MAX     *)
  MaxPosition    (* the largest file offset: u64::MAX                      *)

ASSUME LimitsAssumption ==
  /\ MovieBytes \in Nat
  /\ BoxCount \in Nat
  /\ CompactReach \in Nat
  /\ MaxPosition \in Nat

(* A box, and what its payload comes to where it is a moov or a meta:      *)
(* whether it reads, whether the moov has a mvex, and how its items lie.   *)
FileBox ==
  [type : STRING, bytes : Nat \ {0}, reads : BOOLEAN, fragmented : BOOLEAN,
   items : Seq([method : Nat, reference : Nat])]

(* What the moov declares of a track: its chunk offsets, the offsets of    *)
(* each saio, the entries of its stsc, and the sample descriptions whose   *)
(* data is in this file.                                                   *)
OffsetTable ==
  { table \in [offsets : Seq(Nat), wide : BOOLEAN] :
      table.wide \/ \A n \in DOMAIN table.offsets : table.offsets[n] <= CompactReach }

FileTrack ==
  [chunks : OffsetTable, auxiliary : Seq(OffsetTable),
   entries : Seq([first : Nat, description : Nat]), local : SUBSET Nat]

BytesOf(list, n) ==
  LET upTo[k \in 0..Len(list)] == IF k = 0 THEN 0 ELSE upTo[k - 1] + list[k].bytes
  IN  upTo[n]

(* Every box of a file starts in it, and the last one ends with it or      *)
(* behind it; to the end of the file, it ends with it.                     *)
ASSUME FilesAssumption ==
  \A f \in Files :
    /\ f.boxes \in Seq(FileBox)
    /\ f.movie \in Seq(FileTrack)
    /\ f.toEnd \in BOOLEAN
    /\ f.length \in Nat
    /\ \A i \in DOMAIN f.boxes : BytesOf(f.boxes, i - 1) < f.length
    /\ f.length <= BytesOf(f.boxes, Len(f.boxes))
    /\ f.toEnd => f.length = BytesOf(f.boxes, Len(f.boxes))

VARIABLES
  file,      (* the file read                                              *)
  boxes,     (* how many boxes have a place: the first ones of the file    *)
  gathering, (* whether the last of them is being gathered                 *)
  position,  (* the file offset the reader of the boxes has reached        *)
  movie,     (* the tables of the moov, once read; moved once laid out     *)
  finished,  (* whether the file has ended                                 *)
  pieces,    (* what is left to output: numbers of boxes, 0 for the moov   *)
             (* laid out again                                             *)
  passed,    (* bytes of the first of them output already                  *)
  laid,      (* the bytes of the outputs, end to end                       *)
  failed     (* the failure, "none" before one                             *)

reading == <<boxes, gathering, position>>
layout == <<movie, pieces, passed, laid>>
vars == <<file, reading, finished, layout, failed>>

Init ==
  /\ file \in Files
  /\ boxes = 0
  /\ gathering = FALSE
  /\ position = 0
  /\ movie = <<>>
  /\ finished = FALSE
  /\ pieces = <<>>
  /\ passed = 0
  /\ laid = <<>>
  /\ failed = "none"
-------------------------------------------------------------------------------
(* The file: where box i starts and ends, as its header declares.          *)
Boxes == file.boxes
BoxStart(i) == BytesOf(Boxes, i - 1)
HeaderEnd(i) == BoxStart(i) + 1
RunsToFileEnd(i) == file.toEnd /\ i = Len(Boxes)
BoxEnd(i) == BoxStart(i) + Boxes[i].bytes
IsGathered(i) == Boxes[i].type \in {"moov", "meta"}
-------------------------------------------------------------------------------
(* TrackOffsets: the chunk offsets and those of each saio, each with       *)
(* whether it is in this file, as the sample entry of its chunk has it.    *)
(* The entry of the stsc that holds for chunk n: the last one reached.     *)
EntryOf(track, n) ==
  CHOOSE e \in 0..Len(track.entries) :
    /\ \A k \in 2..e : track.entries[k].first <= n
    /\ e = 0 => track.entries = <<>>
    /\ e \in 1..(Len(track.entries) - 1) => track.entries[e + 1].first > n

DescriptionOf(track, n) ==
  LET e == EntryOf(track, n)
  IN  IF e # 0 /\ track.entries[e].first <= n THEN track.entries[e].description ELSE 1

ChunkHere(track, n) == DescriptionOf(track, n) \in track.local

(* A saio offset lies where the samples of its chunk do; one offset for    *)
(* all chunks, where those of the first do.                                *)
AuxiliaryHere(track, n) ==
  IF n \in DOMAIN track.chunks.offsets THEN ChunkHere(track, n)
  ELSE track.chunks.offsets # <<>> => ChunkHere(track, 1)

(* The tables of a track: its chunk offsets, then each saio.               *)
TablesOf(track) ==
  << [offsets |-> track.chunks.offsets, wide |-> track.chunks.wide,
      here |-> [n \in DOMAIN track.chunks.offsets |-> ChunkHere(track, n)]] >>
  \o [k \in DOMAIN track.auxiliary |->
       [offsets |-> track.auxiliary[k].offsets, wide |-> track.auxiliary[k].wide,
        here |-> [n \in DOMAIN track.auxiliary[k].offsets |-> AuxiliaryHere(track, n)]]]

(* The tables of all tracks, in order: what the code zips back in.         *)
Tables(tracks) == FlattenSeq([t \in DOMAIN tracks |-> TablesOf(tracks[t])])

OffsetsHere(tables) ==
  UNION {{tables[k].offsets[n] : n \in {m \in DOMAIN tables[k].here : tables[k].here[m]}} :
         k \in DOMAIN tables}

(* encoded_len of the moov, its tables in `wide` the wide ones: a header,  *)
(* a byte, and the entries.                                                *)
MovieLength(tables, wide) ==
  LET EntryBytes(k) == IF k \in wide THEN 2 ELSE 1
      upTo[k \in 0..Len(tables)] ==
        IF k = 0 THEN 0 ELSE upTo[k - 1] + EntryBytes(k) * Len(tables[k].offsets)
  IN  2 + upTo[Len(tables)]
-------------------------------------------------------------------------------
(* Slip: of the boxes read, only the last is compared.                     *)
DuplicateOfLast(i) == Boxes[i].type = "moov" /\ i > 1 /\ Boxes[i - 1].type = "moov"
Duplicate(i) == Boxes[i].type = "moov" /\ \E k \in 1..(i - 1) : Boxes[k].type = "moov"

(* read_event of the header of box i.                                      *)
HeaderFailure(i) ==
  IF i > BoxCount THEN "too many boxes"
  ELSE IF Boxes[i].type = "moof" THEN "fragmented"
  ELSE IF Duplicate(i) THEN "duplicate"
  ELSE IF IsGathered(i) /\ ~RunsToFileEnd(i) /\ Boxes[i].bytes - 1 > MovieBytes THEN "past limit"
  ELSE "none"

(* check_item_locations: an item located by a file offset in the file.     *)
LocatesInFile(items) == \E k \in DOMAIN items : items[k] = [method |-> 0, reference |-> 0]

(* read_event of the end of box i, gathered.                               *)
EndFailure(i) ==
  IF ~Boxes[i].reads THEN "unreadable"
  ELSE IF Boxes[i].fragmented THEN "fragmented"
  ELSE IF LocatesInFile(Boxes[i].items) THEN "item locations"
  ELSE "none"

(* What input up to `upTo` shows of box i, its header read or to be read:  *)
(* a box to the end of the file is gathered up to the limit.               *)
FailureOf(i, upTo) ==
  IF HeaderFailure(i) # "none" THEN HeaderFailure(i)
  ELSE IF ~IsGathered(i) THEN "none"
  ELSE IF ~RunsToFileEnd(i) THEN IF upTo >= BoxEnd(i) THEN EndFailure(i) ELSE "none"
  ELSE IF upTo > HeaderEnd(i) + MovieBytes THEN "past limit"
  ELSE "none"

(* What the boxes come to, read up to the last: the end of the file, where *)
(* that one is skipped up to it, or else how far the input went.           *)
Read(last, reached, holds) ==
  [boxes |-> last, gathering |-> holds, failed |-> "none",
   position |-> IF last = 0 \/ holds THEN reached
                ELSE IF RunsToFileEnd(last) THEN HeaderEnd(last) ELSE BoxEnd(last),
   movie |-> IF \E i \in 1..last : Boxes[i].type = "moov" /\ ~(holds /\ i = last)
             THEN Tables(file.movie) ELSE <<>>,
   ends |-> last # 0 /\ RunsToFileEnd(last) /\ ~holds]

Failing(failure) ==
  [boxes |-> boxes, gathering |-> gathering, position |-> position, movie |-> movie,
   ends |-> FALSE, failed |-> failure]

(* The events of input up to `upTo`, one box after the other up to the     *)
(* first that fails: box `last` is the last whose header the input holds.  *)
EventsTo(upTo, last, failing) ==
  IF failing # {} THEN Failing(FailureOf(Min(failing), upTo))
  ELSE Read(last, Max({position, upTo}),
            last # 0 /\ IsGathered(last) /\ (RunsToFileEnd(last) \/ upTo < BoxEnd(last))
                     /\ (last = boxes => gathering))

Events(upTo) ==
  LET met == { i \in DOMAIN Boxes : IF i > boxes THEN BoxStart(i) < upTo ELSE i = boxes /\ gathering }
  IN  EventsTo(upTo, Max(met \cup {boxes}), { i \in met : FailureOf(i, upTo) # "none" })
-------------------------------------------------------------------------------
(* lay_out, of the boxes 1..last.                                          *)
MovieBox(last) == CHOOSE i \in 1..last : Boxes[i].type = "moov"

Order(last) ==
  LET Of(P(_)) == Where([i \in 1..last |-> i], P)
  IN  Of(LAMBDA i : Boxes[i].type = "ftyp") \o << MovieBox(last) >>
      \o Of(LAMBDA i : Boxes[i].type \notin {"ftyp", "moov"})

NewLength(i, movieLength) ==
  IF Boxes[i].type = "moov" THEN movieLength
  ELSE IF RunsToFileEnd(i) THEN MaxPosition ELSE Boxes[i].bytes

(* Where each box of `order` starts in the file laid out again.            *)
NewStarts(order, movieLength) ==
  LET upTo[k \in 0..Len(order)] ==
        IF k = 0 THEN 0 ELSE Min({MaxPosition, upTo[k - 1] + NewLength(order[k], movieLength)})
  IN  [k \in DOMAIN order |-> upTo[k - 1]]

(* The box of `order` an offset lies in, 0 for none.                       *)
LiesIn(offset, order) ==
  LET Holds(k) == offset >= BoxStart(order[k])
                  /\ (RunsToFileEnd(order[k]) \/ offset < BoxEnd(order[k]))
  IN  IF \E k \in DOMAIN order : Holds(k) THEN CHOOSE k \in DOMAIN order : Holds(k) ELSE 0

(* Where an offset moves to, or why it cannot: no offset is negative.      *)
OutOfFile == -1
InMovie == -2
Failure(code) == IF code = OutOfFile THEN "offset out of file" ELSE "offset in movie"

MovedWith(offset, order, starts, k) ==
  IF k = 0 THEN OutOfFile
  ELSE IF Boxes[order[k]].type = "moov" THEN InMovie
  ELSE IF starts[k] + (offset - BoxStart(order[k])) > MaxPosition THEN OutOfFile
  ELSE starts[k] + (offset - BoxStart(order[k]))

Moved(offset, order, starts) == MovedWith(offset, order, starts, LiesIn(offset, order))

(* move_offsets: every offset into this file moved from where it was read. *)
MovedTables(tables, order, starts) ==
  [k \in DOMAIN tables |->
    [n \in DOMAIN tables[k].offsets |->
       IF tables[k].here[n] THEN Moved(tables[k].offsets[n], order, starts)
       ELSE tables[k].offsets[n]]]

(* A pass of move_offsets widens the tables whose offsets outgrow them,    *)
(* and leaves them wide.                                                   *)
Pass(tables, order, wide) ==
  LET moved == MovedTables(tables, order, NewStarts(order, MovieLength(tables, wide)))
  IN  wide \cup { k \in DOMAIN tables : \E n \in DOMAIN moved[k] : moved[k][n] > CompactReach }

WideAsRead(tables) == { k \in DOMAIN tables : tables[k].wide }

(* The loop: as long as a pass widens a table.                             *)
WideAfterOne(tables, order) == Pass(tables, order, WideAsRead(tables))  (* slip: one pass *)
WideAfter(tables, order) ==
  LET after[pass \in 0..Len(tables)] ==
        IF pass = 0 THEN WideAsRead(tables)
        ELSE UNION { Pass(tables, order, wide) : wide \in {after[pass - 1]} }
  IN  after[Len(tables)]

(* What the moved offsets come to: the first failure among them, or the    *)
(* pieces and the new moov.                                                *)
Relaid(tables, order, wide, moved) ==
  LET failures == Where(FlattenSeq(moved), LAMBDA offset : offset < 0)
  IN  IF failures # <<>>
      THEN [failed |-> Failure(Head(failures)), pieces |-> <<>>, movie |-> tables]
      ELSE [failed |-> "none",
            movie |-> [k \in DOMAIN tables |->
                         [tables[k] EXCEPT !.offsets = moved[k], !.wide = k \in wide]],
            pieces |-> [k \in DOMAIN order |->
                          IF Boxes[order[k]].type = "moov" THEN 0 ELSE order[k]]]

AsItIs(tables, last) == \A offset \in OffsetsHere(tables) : offset >= BoxStart(MovieBox(last))

(* lay_out, the tables in `wide` widened by its loop.                      *)
LayOut(tables, last, order, wide) ==
  IF AsItIs(tables, last)
  THEN [failed |-> "none", pieces |-> [i \in 1..last |-> i], movie |-> tables]
  ELSE Relaid(tables, order, wide,
              MovedTables(tables, order, NewStarts(order, MovieLength(tables, wide))))
-------------------------------------------------------------------------------
(* output_movie, where the moov comes next in `rest`.                      *)
Output(rest, tables, bytes) ==
  IF rest # <<>> /\ Head(rest) = 0
  THEN /\ pieces' = Tail(rest)
       /\ laid' = bytes \o [k \in 1..MovieLength(tables, WideAsRead(tables)) |-> -k]
  ELSE /\ pieces' = rest
       /\ laid' = bytes

(* The end of the file, the boxes read as `r` has them.                    *)
FailAtEnd(r, failure) ==
  /\ failed' = failure
  /\ movie' = r.movie
  /\ UNCHANGED <<pieces, laid>>

LaidOut(out) ==
  /\ failed' = out.failed
  /\ movie' = out.movie
  /\ Output(out.pieces, out.movie, laid)

EndFile(r) ==
  /\ finished' = TRUE
  /\ passed' = 0
  /\ IF r.failed # "none" THEN FailAtEnd(r, r.failed)
     ELSE IF ~\E i \in 1..r.boxes : Boxes[i].type = "moov" THEN FailAtEnd(r, "missing movie")
     ELSE \E order \in {Order(r.boxes)} :
          \E wide \in {WideAfter(r.movie, order)} :
          \E out \in {LayOut(r.movie, r.boxes, order, wide)} : LaidOut(out)

KeepReading(r) == boxes' = r.boxes /\ gathering' = r.gathering /\ position' = r.position

(* handle_input until the file ends, of the bytes from `offset` to `upTo`. *)
ReadInput(offset, upTo) ==
  /\ ~finished
  /\ failed = "none"
  /\ \E r \in {IF offset > position THEN Failing("unwanted")
               ELSE Events(upTo)} :
       /\ KeepReading(r)
       /\ IF r.ends THEN EndFile(r)
          ELSE movie' = r.movie /\ failed' = r.failed /\ UNCHANGED <<finished, pieces, passed, laid>>
  /\ UNCHANGED file

(* next_piece, after output of `bytes`.                                    *)
NextKeepsCount(bytes) ==  (* slip: the count of the box before *)
  /\ passed' = passed
  /\ Output(Tail(pieces), movie, bytes)
NextPiece(bytes) ==
  /\ passed' = 0
  /\ Output(Tail(pieces), movie, bytes)

(* What is wanted of the box that is passed through: from where, to where. *)
PassFrom == BoxStart(Head(pieces)) + passed
PassToBefore(upTo) ==  (* slip: the last byte waits for one after it *)
  IF RunsToFileEnd(Head(pieces)) \/ upTo < BoxEnd(Head(pieces)) THEN upTo - 1
  ELSE BoxEnd(Head(pieces))
PassTo(upTo) ==
  IF RunsToFileEnd(Head(pieces)) \/ upTo < BoxEnd(Head(pieces)) THEN upTo ELSE BoxEnd(Head(pieces))

PassedWhole(upTo) == ~RunsToFileEnd(Head(pieces)) /\ upTo >= BoxEnd(Head(pieces))

(* handle_input, once the file has ended: pass_through.                    *)
PassThrough(offset, upTo) ==
  /\ finished
  /\ failed = "none"
  /\ pieces # <<>>
  /\ \/ /\ offset > PassFrom
        /\ failed' = "unwanted"
        /\ UNCHANGED layout
     \/ /\ offset <= PassFrom
        /\ upTo > PassFrom
        /\ \E bytes \in {laid \o [k \in 1..(PassTo(upTo) - PassFrom) |-> PassFrom + k - 1]} :
             IF PassedWhole(upTo) THEN NextPiece(bytes)
             ELSE /\ passed' = passed + (PassTo(upTo) - PassFrom)
                  /\ laid' = bytes
                  /\ UNCHANGED pieces
        /\ UNCHANGED <<movie, failed>>
  /\ UNCHANGED <<file, reading, finished>>

(* finish until the file ends: a box to the end of the file closes, another*)
(* that is being gathered falls short.                                     *)
LastEvent ==
  IF ~gathering THEN Failing("none")
  ELSE IF ~RunsToFileEnd(boxes) THEN Failing("unfinished")
  ELSE IF EndFailure(boxes) # "none" THEN Failing(EndFailure(boxes))
  ELSE Read(boxes, position, FALSE)

FinishReading ==
  /\ ~finished
  /\ failed = "none"
  /\ position >= file.length
  /\ \E r \in {LastEvent} : KeepReading(r) /\ EndFile(r)
  /\ UNCHANGED file

(* finish, once the file has ended: end_pass_through.                      *)
FinishPassing ==
  /\ finished
  /\ failed = "none"
  /\ pieces # <<>>
  /\ PassFrom >= file.length
  /\ IF RunsToFileEnd(Head(pieces)) THEN NextPiece(laid) /\ UNCHANGED <<movie, failed>>
     ELSE failed' = "unfinished" /\ UNCHANGED layout
  /\ UNCHANGED <<file, reading, finished>>
-------------------------------------------------------------------------------
(* wanted_input: the offset it starts at.                                  *)
Wants == failed = "none" /\ (finished => pieces # <<>>)
WantedFrom == IF finished THEN PassFrom ELSE position

(* Input from before, at or past what is wanted; and that of the caller    *)
(* the documentation shows, from the offset wanted, or the end of the file.*)
HandleInput ==
  /\ Wants
  /\ \E offset \in {0, WantedFrom, WantedFrom + 1} : \E upTo \in offset..file.length :
    ReadInput(offset, upTo) \/ PassThrough(offset, upTo)

Finish == FinishReading \/ FinishPassing

Serve ==
  \/ Finish
  \/ /\ Wants
     /\ \E upTo \in (WantedFrom + 1)..file.length :
          ReadInput(WantedFrom, upTo) \/ PassThrough(WantedFrom, upTo)

Next == HandleInput \/ Finish

Spec == Init /\ [][Next]_vars /\ WF_vars(Serve)
-------------------------------------------------------------------------------
(* PROPERTIES                                                              *)

Done == finished /\ failed = "none" /\ pieces = <<>>

DeclaredEnd == BoxEnd(Len(Boxes))
AsRead == Tables(file.movie)
MovieStart == BoxStart(CHOOSE i \in DOMAIN Boxes : Boxes[i].type = "moov")
HasMovie == \E i \in DOMAIN Boxes : Boxes[i].type = "moov"
Rearranged == HasMovie /\ \E offset \in OffsetsHere(AsRead) : offset < MovieStart

(* Every byte of the file comes out once, cut as the input may be: those   *)
(* of the ftyp, then the others, each box whole and in its order, but for  *)
(* those of a moov that is laid out again; or all of them in file order.   *)
KeepsEveryByte ==
  LET ThereOf(i) == [k \in 1..(Min({BoxEnd(i), file.length}) - BoxStart(i)) |-> BoxStart(i) + k - 1]
      All(P(_)) == FlattenSeq([i \in DOMAIN Boxes |-> IF P(Boxes[i].type) THEN ThereOf(i) ELSE <<>>])
      expected == IF Rearranged THEN All(LAMBDA type : type = "ftyp")
                                     \o All(LAMBDA type : type \notin {"ftyp", "moov"})
                  ELSE [k \in 1..file.length |-> k - 1]
      through == Where(laid, LAMBDA byte : byte >= 0)
  IN  /\ IsPrefix(through, expected)
      /\ Done => through = expected

(* An offset into this file names in the file laid out again the byte it   *)
(* named before, behind the moov; the others stay.  Each fits its table,   *)
(* which was widened if need be, and the moov has the length all this was  *)
(* reckoned with.                                                          *)
OffsetsFollow ==
  Done =>
    LET InFtyp(old) == \E i \in DOMAIN Boxes : Boxes[i].type = "ftyp" /\ old \in BoxStart(i)..BoxEnd(i) - 1
        Follows(old, new) ==
          /\ old < file.length => new + 1 \in DOMAIN laid
          /\ new + 1 \in DOMAIN laid => laid[new + 1] = old
          /\ new < Len(laid) =>
               InFtyp(old) \/ \A k \in (new + 1)..Len(laid) : laid[k] >= 0
    IN  \A t \in DOMAIN AsRead : \A n \in DOMAIN AsRead[t].offsets :
          LET old == AsRead[t].offsets[n]
              new == movie[t].offsets[n]
          IN  /\ IF AsRead[t].here[n] THEN Follows(old, new) ELSE new = old
              /\ movie[t].wide \/ new <= CompactReach

(* The failures a file calls for.  An ftyp that runs to the end of the     *)
(* file has no length the boxes after it could be placed by.               *)
Causes ==
  { cause \in {"too many boxes"} : Len(Boxes) > BoxCount }
  \cup { cause \in {"fragmented"} :
           \E i \in DOMAIN Boxes : Boxes[i].type = "moof" \/ (IsGathered(i) /\ Boxes[i].fragmented) }
  \cup { cause \in {"duplicate"} : \E i, k \in DOMAIN Boxes : i # k /\ Boxes[i].type = "moov" /\ Boxes[k].type = "moov" }
  \cup { cause \in {"past limit"} : \E i \in DOMAIN Boxes : IsGathered(i) /\ Boxes[i].bytes > MovieBytes + 1 }
  \cup { cause \in {"unreadable"} : \E i \in DOMAIN Boxes : IsGathered(i) /\ ~Boxes[i].reads }
  \cup { cause \in {"item locations"} : \E i \in DOMAIN Boxes : IsGathered(i) /\ LocatesInFile(Boxes[i].items) }
  \cup { cause \in {"unfinished"} : Boxes # <<>> /\ file.length < DeclaredEnd }
  \cup { cause \in {"missing movie"} : ~HasMovie }
  \cup { cause \in {"offset out of file"} :
           Rearranged /\ IF file.toEnd THEN Last(Boxes).type = "ftyp"
                         ELSE \E o \in OffsetsHere(AsRead) : o >= DeclaredEnd }
  \cup { cause \in {"offset in movie"} :
           Rearranged /\ \E i \in DOMAIN Boxes : Boxes[i].type = "moov" /\
             \E o \in OffsetsHere(AsRead) : o >= BoxStart(i) /\ (o < BoxEnd(i) \/ RunsToFileEnd(i)) }

(* A file is refused for what the documentation names only, a box that is  *)
(* cut short among it, and is laid out whole only where there is nothing   *)
(* to refuse.                                                              *)
RefusedForCause ==
  /\ failed \notin {"none", "unwanted"} => failed \in Causes
  /\ Done => Causes = {}

(* The caller the documentation shows is through at last.                  *)
Ends == <>~Wants
===============================================================================
