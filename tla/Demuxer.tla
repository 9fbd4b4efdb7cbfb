-------------------------------- MODULE Demuxer --------------------------------
(***************************************************************************)
(* Demuxer of crates/isobmff-mux/src/demuxer.rs: the framing of boxes, the *)
(* structure-data and the gathering of media data put together.  Its       *)
(* caller passes bytes of a file from any offset, takes samples, discards  *)
(* tracks, resumes at a later box, and finishes.                           *)
(*                                                                         *)
(* The boxes are those of FileContents, each a header of one byte and its  *)
(* payload; the identifier of an imda is one byte too.  How a header and a *)
(* payload come out of input cut anywhere is BoxReader's; here the box at  *)
(* `position` is the one numbered `open`, of a payload of a byte at least. *)
(* A refused call that leaves the demuxer as it was, and a call after its  *)
(* failure, are stuttering steps.                                          *)
(***************************************************************************)
EXTENDS StructureData

CONSTANTS
  Files,              (* the files: [boxes, toEnd, length], where toEnd is *)
                      (* whether the last box runs to the end of the file  *)
                      (* and length the bytes there are of it              *)
  PayloadBytes,       (* DemuxLimits::payload_bytes                        *)
  HeldLocationCount,  (* DemuxLimits::held_location_count                  *)
  SampleBytes,        (* DemuxLimits::sample_bytes                         *)
  HeldBytes,          (* DemuxLimits::held_bytes                           *)
  Blank               (* what an allocation holds before a byte arrives    *)

VARIABLES
  file,       (* the file                                                  *)
  from,       (* the box the reading started at, or was last resumed at    *)
  open,       (* the box being read, or to be read next                    *)
  position,   (* the file offset the reader of the boxes has reached       *)
  atEnd,      (* whether finish has ended the file                         *)
  reader,     (* the StructureDataReader                                   *)
  held,       (* the samples being gathered: those of MediaDataReader      *)
  discarded,  (* the tracks discarded                                      *)
  answer,     (* how the last call ended: no event, an event, the end of   *)
              (* the file, or the failure                                  *)
  located,    (* the samples of this file in the events since `from`       *)
  taken       (* the samples poll_sample has returned since `from`         *)

boxReader == <<from, open, position, atEnd>>
vars == <<file, boxReader, reader, held, discarded, answer, located, taken>>

(* No box is empty, and the offsets that one declares are numbers.         *)
ASSUME FilesAssumption ==
  \A f \in Files :
    /\ f.boxes \in Seq(Contents!FileBox)
    /\ f.length \in Nat
    /\ f.length <= Contents!LengthBefore(f.boxes, Len(f.boxes) + 1)
    /\ \A i \in DOMAIN f.boxes :
         /\ f.boxes[i].payload > 0
         /\ \A run \in Range(Contents!Declares(f.boxes, i)) : run.offset \in Int

(* The MediaDataReader that holds them.                                    *)
Media == INSTANCE MediaDataReader WITH
  toHand <- <<>>, taken <- <<>>, result <- "ok", Scripts <- {}, FileLength <- 0

Failed == answer \notin {"none", "event", "end"}

Init ==
  /\ file \in Files
  /\ from = 1 /\ open = 1 /\ position = 0
  /\ atEnd = FALSE
  /\ reader = NewReader
  /\ held = <<>>
  /\ discarded = {}
  /\ answer = "none"
  /\ located = <<>>
  /\ taken = <<>>
-------------------------------------------------------------------------------
(* The file: where box i starts and ends.                                  *)
Boxes == file.boxes
BoxStart(i) == Contents!LengthBefore(Boxes, i)
HeaderEnd(i) == BoxStart(i) + 1
IdentifierEnd(i) == HeaderEnd(i) + 1
BoxEnd(i) == BoxStart(i) + Contents!Length(Boxes[i])
RunsToFileEnd(i) == file.toEnd /\ i = Len(Boxes)

Skipped(box) == box.kind \in {"media", "other"}
GathersHead(box) == box.kind = "identified"

(* What is gathered of the box that is open.                               *)
GatheredUpTo(i) ==
  CASE Skipped(Boxes[i]) -> HeaderEnd(i)
    [] GathersHead(Boxes[i]) -> IdentifierEnd(i)
    [] OTHER -> BoxEnd(i)

(* Nothing is wanted of a box to the end of the file once its head is in.  *)
BoxesWant ==
  /\ ~Failed
  /\ ~atEnd
  /\ ~ /\ open \in DOMAIN Boxes
       /\ RunsToFileEnd(open)
       /\ Skipped(Boxes[open]) \/ GathersHead(Boxes[open])
       /\ position >= GatheredUpTo(open)
-------------------------------------------------------------------------------
(* `read` of a box gathered whole: a compressed box is read back into the  *)
(* box it replaces, the reader told of it before.                          *)
ReadValue(i) ==
  LET told == IF Boxes[i].compressed THEN HandleCompressedBox(reader, Boxes, i)
              ELSE Outcome("ok", reader, <<>>)
  IN  IF Boxes[i].compressed /\ Boxes[i].readBack > PayloadBytes
      THEN Refusal("past limit", reader)
      ELSE IF told.answer # "ok" THEN told ELSE HandleBox(told.reader, Boxes, i)

(* What a step of the boxes comes to.                                      *)
Step(event, at, next) ==
  [answer |-> event, position |-> at, open |-> next,
   reader |-> reader, held |-> held, samples |-> <<>>]

(* gather hands over samples of other files too (slip).                    *)
OfEveryFile(samples) == samples
InThisFile(samples) == Where(samples, LAMBDA sample : sample.here)

IsKept(sample) == sample.track \notin discarded

(* close: the value of box i handled, and its samples held.                *)
Closed(read, i, at) ==
  LET kept == Where(InThisFile(read.samples), IsKept)
      closed == [Step(read.answer, at, i + 1) EXCEPT !.reader = read.reader]
  IN  IF read.answer # "ok" THEN closed
      ELSE IF ~Media!AllFit(held, kept) THEN [closed EXCEPT !.answer = "past limit"]
      ELSE [closed EXCEPT !.answer = "event",
                          !.held = Media!HeldWith(held, kept),
                          !.samples = InThisFile(read.samples)]

Close(i, at) == Closed(ReadValue(i), i, at)

(* What input up to `upTo` comes to: at most one event is read out of it.  *)
(* A box that is skipped, or whose head is gathered, is moved past once    *)
(* that has come.                                                          *)
BoxStep(upTo) ==
  LET box == Boxes[open]
      end == GatheredUpTo(open)
      pastLimit == HeaderEnd(open) + PayloadBytes + 1
      pastPayload == ~GathersHead(box) /\ end >= pastLimit
  IN  IF ~BoxesWant \/ upTo <= position \/ open > Len(Boxes)
      THEN Step("none", position, open)
      ELSE IF Skipped(box)
      THEN IF RunsToFileEnd(open) THEN Step("event", end, open)
                                  ELSE Step("event", BoxEnd(open), open + 1)
      ELSE IF pastPayload /\ (upTo >= pastLimit \/ ~RunsToFileEnd(open))
      THEN Step("past limit", position, open)
      ELSE IF upTo >= end /\ ~RunsToFileEnd(open)
      THEN Close(open, BoxEnd(open))
      ELSE Step("none", Min({upTo, end}), open)

(* Slip: the input of a call that fails is left to the next.               *)
GatheredOnSuccess(step, input) ==
  IF step.answer \notin {"none", "event"} \/ Media!Fails(step.held, input)
  THEN [answer |-> "full", held |-> step.held]
  ELSE [answer |-> "none", held |-> Media!HeldAfter(step.held, input)]

(* What the samples held after the step gather of the input.               *)
Gathered(step, input) ==
  IF Media!Fails(step.held, input)
  THEN [answer |-> "full", held |-> step.held]
  ELSE [answer |-> "none", held |-> Media!HeldAfter(step.held, input)]

(* handle_input(offset, input), of the bytes from `offset` up to `upTo`.   *)
(* The samples gather what they lack of the input also where the boxes     *)
(* fail, and an event is returned whatever becomes of the samples.         *)
HandleInput(offset, upTo) ==
  /\ ~Failed
  /\ BoxesWant => offset <= position
  /\ \E step \in {BoxStep(upTo)} :
     \E gathered \in {Gathered(step, [start |-> offset, end |-> upTo])} :
       /\ answer' = IF step.answer = "none" THEN gathered.answer ELSE step.answer
       /\ held' = gathered.held
       /\ open' = step.open
       /\ position' = step.position
       /\ reader' = step.reader
       /\ located' = located \o step.samples
  /\ UNCHANGED <<file, from, atEnd, discarded, taken>>

(* finish, which the caller calls once the boxes want nothing that the     *)
(* file has.  A box to the end of the file closes there, an imda that ends *)
(* before its identifier fails.                                            *)
Truncated ==
  /\ open \in DOMAIN Boxes
  /\ position > BoxStart(open)
  /\ ~RunsToFileEnd(open) \/ (GathersHead(Boxes[open]) /\ position < IdentifierEnd(open))

EndsWithFile ==
  open \in DOMAIN Boxes /\ position > BoxStart(open) /\ ~Skipped(Boxes[open]) /\ ~Truncated

Unfinished == \E k \in DOMAIN held : held[k].missing # <<>>

LastStep ==
  IF ~atEnd /\ Truncated THEN Step("truncated", position, open)
  ELSE IF ~atEnd /\ EndsWithFile THEN Close(open, position)
  ELSE Step("none", position, open)

Finish ==
  /\ ~Failed
  /\ ~BoxesWant \/ position >= file.length
  /\ \E step \in {LastStep} :
       /\ answer' = CASE step.answer # "none" -> step.answer
                      [] step.answer = "none" /\ Unfinished -> "unfinished sample"
                      [] step.answer = "none" /\ ~Unfinished /\ reader.waiting # <<>> -> "missing imda"
                      [] OTHER -> "end"
       /\ open' = step.open
       /\ reader' = step.reader
       /\ held' = step.held
       /\ located' = located \o step.samples
  /\ atEnd' = TRUE
  /\ UNCHANGED <<file, from, position, discarded, taken>>

(* poll_sample, where it returns a sample, as it does after a failure too. *)
PollSample ==
  /\ held # <<>>
  /\ Head(held).missing = <<>>
  /\ held' = Tail(held)
  /\ taken' = Append(taken, [location |-> Head(held).location, data |-> Head(held).data])
  /\ UNCHANGED <<file, boxReader, reader, discarded, answer, located>>

DiscardTrack(track) ==
  /\ discarded' = discarded \cup {track}
  /\ held' = Where(held, LAMBDA sample : sample.location.track # track)
  /\ UNCHANGED <<file, boxReader, reader, answer, located, taken>>

ResumeKeepsHeld == held  (* slip: the samples being gathered stay held *)
HeldOnResume == <<>>

(* resume_at, of where box i starts, after the moov.                       *)
ResumeAt(i) ==
  /\ ~Failed
  /\ reader.movie
  /\ \E m \in 1..(i - 1) : Boxes[m].kind = "movie"
  /\ from' = i
  /\ open' = i
  /\ position' = BoxStart(i)
  /\ atEnd' = FALSE
  /\ reader' = Resume(reader)
  /\ held' = HeldOnResume
  /\ answer' = "none"
  /\ located' = <<>>
  /\ taken' = <<>>
  /\ UNCHANGED <<file, discarded>>
-------------------------------------------------------------------------------
(* wanted_input: the offset it starts at, if any.                          *)
WantedOffsets ==
  IF Failed THEN {}
  ELSE (IF BoxesWant THEN {position} ELSE {}) \cup {range.start : range \in Media!Wanted(held)}

WantedBoxesFirst(offsets) == IF BoxesWant THEN position ELSE Min(offsets)  (* slip *)
WantedFirst(offsets) == Min(offsets)

Read == \E offset \in 0..file.length : \E upTo \in offset..file.length : HandleInput(offset, upTo)

Next ==
  \/ Read
  \/ Finish
  \/ PollSample
  \/ \E track \in Tracks : DiscardTrack(track)
  \/ \E i \in DOMAIN Boxes : ResumeAt(i)

Spec == Init /\ [][Next]_vars
-------------------------------------------------------------------------------
(* PROPERTIES                                                              *)

What(sample) == [track |-> sample.track, time |-> sample.time, start |-> sample.start, end |-> sample.end]

(* The samples of this file that box i declares, as they truly are.        *)
TrueHere(i) ==
  LET runs == Boxes[i].runs
      true == Contents!TrueSamples(Boxes, i)
      run(n) == Min({j \in DOMAIN runs :
                  n <= FoldLeft(LAMBDA sum, r : sum + Len(r.sizes), 0, SubSeq(runs, 1, j))})
      here == SetToSortSeq({n \in DOMAIN true : runs[run(n)].media # 0}, <)
  IN  [k \in DOMAIN here |-> true[here[k]]]

Declaring(i) == Contents!Declaring(Boxes[i])

(* Every sample taken is one the file has, at its decoding time, with the  *)
(* bytes that the file has where its media data lies.                      *)
TakenTrue ==
  \A k \in DOMAIN taken :
    LET sample == taken[k].location
    IN  /\ \E i \in {n \in from..Len(Boxes) : Declaring(n)} :
             \E n \in DOMAIN TrueHere(i) : TrueHere(i)[n] = What(sample)
        /\ taken[k].data = [n \in 1..(sample.end - sample.start) |-> sample.start + n - 1]

Through ==
  [k \in DOMAIN taken |-> taken[k].location] \o [k \in DOMAIN held |-> held[k].location]

(* The samples taken and those still held are the ones that the events     *)
(* located, in their order, each once, but for the tracks discarded.       *)
InOrderLocated ==
  answer # "past limit" => Where(Through, IsKept) = Where(located, IsKept)

(* Once finish returns no event and no failure, the samples of all boxes   *)
(* from where the reading started or resumed have come, whole.             *)
CompleteAtEnd ==
  LET true == FlattenSeq([i \in DOMAIN Boxes |->
                IF i >= from /\ Declaring(i) THEN TrueHere(i) ELSE <<>>])
      come == [k \in DOMAIN located |-> What(located[k])]
  IN  answer = "end" =>
        /\ ToBag(Where(come, IsKept)) = ToBag(Where(true, IsKept))
        /\ ~Unfinished

(* The wanted offset goes back only where a box has located samples or the *)
(* reading resumes: a caller that seeks goes back for media data only.     *)
GoesBackToLocated ==
  [][ \/ WantedOffsets = {} \/ WantedOffsets' = {}
      \/ WantedFirst(WantedOffsets)' >= WantedFirst(WantedOffsets)
      \/ Len(located') > Len(located)
      \/ located' = <<>> /\ held' = <<>> ]_vars
===============================================================================
