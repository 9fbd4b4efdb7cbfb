----------------------------- MODULE StructureData -----------------------------
(***************************************************************************)
(* The calls of StructureDataReader of                                     *)
(* crates/isobmff/src/structure_data/reader.rs, with those of              *)
(* movie_fragment.rs and compressed.rs below them: the samples that a      *)
(* movie and its fragments declare, resolved to their decoding times and   *)
(* to where their media data lies in the file.                             *)
(*                                                                         *)
(* The reader is a value; a call is an operator that gives [answer,        *)
(* reader, samples], the answer "ok" or why the call is refused.  Boxes    *)
(* are those of FileContents, as they declare their samples.               *)
(***************************************************************************)
EXTENDS CompressedBoxes, Subsequences

CONSTANTS
  Tracks,              (* the track IDs                                    *)
  None,                (* no identifier, an absent tfdt, an unknown time   *)
  SampleCount,         (* StructureDataLimits::sample_count                *)
  LeniencyCount,       (* StructureDataLimits::leniency_count              *)
  IdentifiedCount,     (* .. ::identified_media_data_count                 *)
  UnresolvedCount,     (* .. ::unresolved_sample_count                     *)
  SegmentIndexCount,   (* .. ::segment_index_count                         *)
  SubsegmentCount      (* .. ::subsegment_count                            *)

ASSUME StructureAssumption ==
  /\ MaxPosition \in Nat
  /\ None \notin Nat
  /\ Tracks \subseteq Nat

Contents == INSTANCE FileContents WITH HeaderLength <- 1

(* The reader: times is of the tracks of the movie, empty before it is     *)
(* read; identified maps the identifier of each imda read to where its     *)
(* payload starts in the uncompressed domain; waiting is the samples whose *)
(* imda has not come, each with its identifier, in its place of `start`    *)
(* the offset from that payload.                                           *)
NewReader ==
  [movie |-> FALSE, times |-> <<>>, leniencies |-> <<>>,
   identified |-> <<>>, waiting |-> <<>>, indexes |-> <<>>,
   randomAccess |-> FALSE, compressed |-> NoCompressedBox]

Outcome(answer, reader, samples) ==
  [answer |-> answer, reader |-> reader, samples |-> samples]

Refusal(answer, reader) == Outcome(answer, reader, <<>>)
-------------------------------------------------------------------------------
(* resolve_fragment, one run of it after the other.  What is resolved so   *)
(* far holds the times and leniencies, the samples, and where the data     *)
(* before ends and what that counts from (previous_end).                   *)

StartTime(run, reached) == IF run.tfdt # None THEN run.tfdt ELSE reached.time

(* A tfdt other than the time the earlier samples reached is a leniency.   *)
TellsLeniency(run, reached) ==
  run.tfdt # None /\ reached.time # None /\ reached.afterSample /\ run.tfdt # reached.time

LeniencyOf(run, reached) ==
  IF ~TellsLeniency(run, reached) THEN <<>>
  ELSE IF run.tfdt > reached.time
  THEN << [kind |-> "gap", track |-> run.track, by |-> run.tfdt - reached.time] >>
  ELSE << [kind |-> "overlap", track |-> run.track, by |-> reached.time - run.tfdt] >>

(* What the offset of a run counts from, an imda or the file, and its base *)
(* there.  A run of no samples names no imda.                              *)
Counts(run) == IF run.sizes = <<>> THEN None ELSE run.id

(* Slip: the first-of-the-moof rule for every run.                         *)
BaseNeverPrevious(run, first, previous, moof) ==
  CASE run.base = "given" -> [counts |-> Counts(run), offset |-> run.offset]
    [] run.base = "moof" -> [counts |-> None, offset |-> moof]
    [] OTHER -> [counts |-> Counts(run), offset |-> IF Counts(run) = None THEN moof ELSE 0]

(* Table 6 of 8.8.7.1.                                                     *)
BaseOf(run, first, previous, moof) ==
  CASE run.base = "given" -> [counts |-> Counts(run), offset |-> run.offset]
    [] run.base = "moof" -> [counts |-> None, offset |-> moof]
    [] run.base = "default" /\ first ->
         [counts |-> Counts(run), offset |-> IF Counts(run) = None THEN moof ELSE 0]
    [] OTHER -> previous

Start(run, base) == base.offset + (IF run.base = "given" THEN 0 ELSE run.offset)

(* The samples of a run, end to end from `start`, each lasting 1.          *)
Samples(run, time, start, counts) ==
  LET at(k) == start + Contents!BytesBefore(run.sizes, k)
  IN  [k \in DOMAIN run.sizes |->
         [track |-> run.track, time |-> time + k - 1, counts |-> counts, here |-> run.here,
          start |-> at(k), end |-> at(k) + run.sizes[k]]]

ResolveRun(resolved, run, moof) ==
  IF resolved.answer # "ok" THEN resolved
  ELSE IF run.track \notin DOMAIN resolved.times
  THEN [resolved EXCEPT !.answer = "unknown track"]
  ELSE
  LET reached == resolved.times[run.track]
      time == StartTime(run, reached)
      base == BaseOf(run, resolved.first, resolved.previous, moof)
      samples == Samples(run, time, Start(run, base), base.counts)
      end == IF samples = <<>> THEN base.offset ELSE Last(samples).end
  IN  IF time = None
      THEN [resolved EXCEPT !.answer = "missing decoding time"]
      ELSE IF samples # <<>> /\ (end > MaxPosition \/ Start(run, base) < 0)
      THEN [resolved EXCEPT !.answer = "out of range"]
      ELSE [resolved EXCEPT
              !.first = FALSE,
              !.previous = [counts |-> base.counts, offset |-> end],
              !.times[run.track] =
                 [time |-> time + (IF run.empty THEN 1 ELSE Len(samples)),
                  afterSample |-> reached.afterSample \/ samples # <<>>],
              !.leniencies = @ \o LeniencyOf(run, reached),
              !.samples = @ \o samples]

Unresolved(times, moof) ==
  [answer |-> "ok", times |-> times, leniencies |-> <<>>, samples |-> <<>>,
   first |-> TRUE, previous |-> [counts |-> None, offset |-> moof]]

Resolve(times, runs, moof) ==
  LET after[n \in 0..Len(runs)] ==
        IF n = 0 THEN Unresolved(times, moof) ELSE ResolveRun(after[n - 1], runs[n], moof)
  IN  after[Len(runs)]
-------------------------------------------------------------------------------
(* located: a sample of an imda whose payload starts at `payload`.         *)
Located(sample, payload) ==
  [sample EXCEPT !.start = @ + payload, !.end = @ + payload, !.counts = None]

Earlier(a, b) ==
  \/ a.start < b.start
  \/ a.start = b.start /\ a.track < b.track
  \/ a.start = b.start /\ a.track = b.track /\ a.time < b.time

(* Sorted: each sample put behind those that do not come later.            *)
InFileOrder(samples) ==
  LET Behind(sorted, sample) ==
        Cardinality({k \in DOMAIN sorted : ~Earlier(sample, sorted[k])})
      sorted[n \in 0..Len(samples)] ==
        IF n = 0 THEN <<>>
        ELSE InsertAt(sorted[n - 1], Behind(sorted[n - 1], samples[n]) + 1, samples[n])
  IN  sorted[Len(samples)]

(* locate_in_this_file: the places of samples in this file, moved from the *)
(* uncompressed domain into the file.                                      *)
PlaceInThisFile(boxes, sample) ==
  IF ~sample.here THEN sample
  ELSE LET place == InFile(boxes, sample)
       IN  [sample EXCEPT !.start = place.start, !.end = place.end]

(* The end of every call that locates samples: sorted, moved into the      *)
(* file, and the end of the media data noted for later compressed boxes.   *)
Locate(reader, samples, returned) ==
  LET boxes == reader.compressed.boxes
      inOrder == InFileOrder(samples)
      moved == [k \in DOMAIN inOrder |-> PlaceInThisFile(boxes, inOrder[k])]
      ends == {moved[k].end : k \in {n \in DOMAIN moved : moved[n].here}}
  IN  IF \E k \in DOMAIN moved : inOrder[k].end > MaxPosition \/ moved[k].end < moved[k].start
      THEN Refusal("out of range", returned)
      ELSE Outcome("ok",
                   [reader EXCEPT !.compressed = NoteLocated(@, Max(ends \cup {0}))],
                   moved)
-------------------------------------------------------------------------------
WaitingPastLimitAlone(reader, waiting) == Len(waiting) > UnresolvedCount  (* slip *)
WaitingPastLimit(reader, waiting) ==
  Len(reader.waiting) + Len(waiting) > UnresolvedCount

(* place: samples counted from an imda that has been read are located, the *)
(* others wait.  `after` is the reader that the call leaves if it is taken.*)
Place(reader, after, samples) ==
  LET Waits(sample) == sample.counts # None /\ sample.counts \notin DOMAIN reader.identified
      waiting == Where(samples, Waits)
      placed == Where(samples, LAMBDA sample : ~Waits(sample))
      located == [k \in DOMAIN placed |->
                    IF placed[k].counts = None THEN placed[k]
                    ELSE Located(placed[k], reader.identified[placed[k].counts])]
  IN  IF /\ \E k \in DOMAIN samples : samples[k].counts # None
         /\ WaitingPastLimit(reader, waiting)
      THEN Refusal("past limit", reader)
      ELSE Locate([after EXCEPT !.waiting = @ \o waiting], located, reader)

Declared(runs) == FoldLeft(LAMBDA sum, run : sum + Len(run.sizes), 0, runs)

(* What handle_movie and handle_movie_fragment share, from the times that  *)
(* the tracks have reached on.                                             *)
HandleRuns(reader, after, runs, moof) ==
  LET resolved == Resolve(after.times, runs, moof)
      leniencies == reader.leniencies \o resolved.leniencies
  IN  IF Declared(runs) > SampleCount THEN Refusal("past limit", reader)
      ELSE IF resolved.answer # "ok" THEN Refusal(resolved.answer, reader)
      ELSE IF Len(leniencies) > LeniencyCount THEN Refusal("past limit", reader)
      ELSE Place(reader,
                 [after EXCEPT !.times = resolved.times, !.leniencies = leniencies],
                 resolved.samples)

(* handle_movie: the decoding time of each track starts at 0.              *)
HandleMovie(reader, tracks, runs) ==
  IF reader.movie
  THEN Refusal("duplicate movie", reader)
  ELSE HandleRuns(reader,
                  [reader EXCEPT
                     !.movie = TRUE,
                     !.times = [t \in tracks |-> [time |-> 0, afterSample |-> FALSE]]],
                  runs, 0)

MoofInFile(reader, offset) == offset  (* slip: not of the uncompressed domain *)
MoofOffset(reader, offset) == Uncompressed(reader.compressed.boxes, offset)

HandleMovieFragment(reader, runs, offset) ==
  IF MayHaveMoved(reader.compressed) /\ \E j \in DOMAIN runs : runs[j].base = "given"
  THEN Refusal("moved past skipped", reader)
  ELSE IF ~reader.movie
  THEN Refusal("missing movie", reader)
  ELSE HandleRuns(reader, reader, runs, MoofOffset(reader, offset))

ForgetsWaiting(reader, id) == <<>>  (* slip: those of other imdas too *)
StillWaiting(reader, id) == Where(reader.waiting, LAMBDA sample : sample.counts # id)

HandleIdentified(reader, id, payloadOffset) ==
  LET payload == Uncompressed(reader.compressed.boxes, payloadOffset)
      samples == Where(reader.waiting, LAMBDA sample : sample.counts = id)
      located == [k \in DOMAIN samples |-> Located(samples[k], payload)]
      after == [reader EXCEPT
                  !.identified = [j \in DOMAIN @ \cup {id} |-> IF j = id THEN payload ELSE @[j]],
                  !.waiting = StillWaiting(reader, id)]
  IN  IF id \in DOMAIN reader.identified
      THEN Refusal("duplicate imda", reader)
      ELSE IF Cardinality(DOMAIN reader.identified) >= IdentifiedCount
      THEN Refusal("past limit", reader)
      ELSE Locate(after, located, reader)

(* handle_segment_index: an index read again is kept once.                 *)
HandleSegmentIndex(reader, index) ==
  LET kept == FoldLeft(LAMBDA sum, i : sum + i.subsegments, 0, reader.indexes)
  IN  IF index.subsegments > SubsegmentCount THEN Refusal("past limit", reader)
      ELSE IF Contains(reader.indexes, index) THEN Outcome("ok", reader, <<>>)
      ELSE IF \/ Len(reader.indexes) >= SegmentIndexCount
              \/ kept + index.subsegments > SubsegmentCount
      THEN Refusal("past limit", reader)
      ELSE Outcome("ok", [reader EXCEPT !.indexes = Append(@, index)], <<>>)

(* A file with a compressed box has no mfra, whichever comes first.        *)
HandleRandomAccess(reader) ==
  IF reader.compressed.boxes # <<>>
  THEN Refusal("mfra with compressed", reader)
  ELSE Outcome("ok", [reader EXCEPT !.randomAccess = TRUE], <<>>)

(* What the reader is told of box i of a file, before the box it replaces  *)
(* is handed to it.                                                        *)
HandleCompressedBox(reader, boxes, i) ==
  LET recorded == Record(reader.compressed, Contents!LengthBefore(boxes, i),
                         Contents!Length(boxes[i]), Contents!ReadBackLength(boxes[i]))
  IN  IF reader.randomAccess
      THEN Refusal("mfra with compressed", reader)
      ELSE Outcome(recorded.answer, [reader EXCEPT !.compressed = recorded.record], <<>>)

HandleOriginalFileType(reader) ==
  Outcome("ok", [reader EXCEPT !.compressed = NoteTransformed(@)], <<>>)

ResumeKeepsTimes(reader) ==  (* slip: the times reached are kept *)
  [reader EXCEPT !.waiting = <<>>, !.compressed = Resumed(@)]

Resume(reader) ==
  [reader EXCEPT
     !.times = [t \in DOMAIN @ |-> [time |-> None, afterSample |-> FALSE]],
     !.waiting = <<>>,
     !.compressed = Resumed(@)]
-------------------------------------------------------------------------------
(* The call that takes box i of a file, by its kind.  The bytes of a       *)
(* segment index count from the end of its sidx, in the file as it is.     *)
HandleBox(reader, boxes, i) ==
  LET box == boxes[i]
      start == Contents!LengthBefore(boxes, i)
      runs == Contents!Declares(boxes, i)
  IN  CASE box.kind = "movie" -> HandleMovie(reader, box.tracks, runs)
        [] box.kind = "fragment" -> HandleMovieFragment(reader, runs, start)
        [] box.kind = "identified" -> HandleIdentified(reader, box.id, start + 1)
        [] box.kind = "index" ->
             HandleSegmentIndex(reader, [start |-> start + Contents!Length(box),
                                         subsegments |-> box.subsegments])
        [] box.kind = "random access" -> HandleRandomAccess(reader)
        [] box.kind = "original type" -> HandleOriginalFileType(reader)
        [] OTHER -> Outcome("ok", reader, <<>>)
===============================================================================
