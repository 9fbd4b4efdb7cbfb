----------------------------- MODULE FileContents -----------------------------
(***************************************************************************)
(* What a file is to the layers above the framing: boxes end to end, the   *)
(* samples they declare, and where the media data of these truly lies.     *)
(* The offsets that boxes declare are derived from the true places, as     *)
(* ISO/IEC 14496-12 has the writer of a file derive them: they count in    *)
(* the file as its compressed boxes read back, the uncompressed domain     *)
(* (8.16.1).  Shared by what a caller is promised and by the readers.      *)
(***************************************************************************)
EXTENDS Integers, SequencesExt

CONSTANTS
  MaxPosition,   (* the largest file offset: u64::MAX in the code          *)
  Tracks,        (* the track IDs                                          *)
  HeaderLength,  (* bytes of the header of a box                           *)
  None           (* an absent tfdt, an unknown time                        *)

(* A run: the samples a track fragment, or a chunk of a moov, declares.    *)
(*   media   the box their media data lies in: 0 for another file          *)
(*   from    the bytes of its payload before them                          *)
(*   base    what the offset counts from: "given" by a base_data_offset or *)
(*           a chunk offset, the "moof", or neither, the "default"         *)
(*   tfdt    the decoding time of the first sample, or None                *)
(*   sizes   their sizes; each of them lasts 1                             *)
(*   empty   duration_is_empty: no sample, and the time moves on           *)
Base == {"given", "moof", "default"}

Kind == {"movie", "fragment", "identified", "media", "index", "random access",
         "original type", "other"}

(* A box: the bytes of its payload in the file and, where it is            *)
(* compressed, those of the box it replaces; the identifier of an imda.    *)
FileRun ==
  [track : Nat, media : Nat, from : Nat, base : Base, tfdt : Nat \cup {None},
   sizes : Seq(Nat), empty : BOOLEAN]

FileBox ==
  [kind : Kind, payload : Nat, readBack : Nat, compressed : BOOLEAN,
   id : Nat \cup {None}, runs : Seq(FileRun), tracks : SUBSET Tracks, subsegments : Nat]

Length(box) == HeaderLength + box.payload
ReadBackLength(box) == HeaderLength + box.readBack

LengthBefore(boxes, i) ==
  LET upTo[n \in 0..Len(boxes)] == IF n = 0 THEN 0 ELSE upTo[n - 1] + Length(boxes[n])
  IN  upTo[i - 1]

ReadBackBefore(boxes, i) ==
  LET upTo[n \in 0..Len(boxes)] == IF n = 0 THEN 0 ELSE upTo[n - 1] + ReadBackLength(boxes[n])
  IN  upTo[i - 1]
-------------------------------------------------------------------------------
(* Where a run lies: in the file, and where its offset counts.             *)
InImda(boxes, run) == run.media # 0 /\ boxes[run.media].kind = "identified"

(* The identifier of the imda that the data reference of the run names.    *)
Identifier(boxes, run) == IF InImda(boxes, run) THEN boxes[run.media].id ELSE None

PlaceInFile(boxes, run) ==
  IF run.media = 0 THEN run.from
  ELSE LengthBefore(boxes, run.media) + HeaderLength + run.from

(* In the uncompressed domain, which another file does not have.           *)
PlaceReadBack(boxes, run) ==
  IF run.media = 0 THEN run.from
  ELSE ReadBackBefore(boxes, run.media) + HeaderLength + run.from

(* The bytes of the samples of these sizes before the one numbered k.      *)
BytesBefore(sizes, k) ==
  LET upTo[n \in 0..Len(sizes)] == IF n = 0 THEN 0 ELSE upTo[n - 1] + sizes[n]
  IN  upTo[k - 1]

RunBytes(run) == BytesBefore(run.sizes, Len(run.sizes) + 1)

(* Table 6 of 8.8.7.1: which imda the offset of each run counts from the   *)
(* payload of, None for the file, and the offset its base lies at.         *)
Bases(boxes, i) ==
  LET runs == boxes[i].runs
      moof == ReadBackBefore(boxes, i)
      At(run, counts) == IF counts = None THEN PlaceReadBack(boxes, run) ELSE run.from
      base[j \in DOMAIN runs] ==
        LET run == runs[j]
            id == Identifier(boxes, run)
        IN  CASE run.base = "given" -> [counts |-> id, offset |-> 0]
              [] run.base = "moof" -> [counts |-> None, offset |-> moof]
              [] run.base = "default" /\ j = 1 ->
                   [counts |-> id, offset |-> IF id = None THEN moof ELSE 0]
              [] OTHER ->
                   IF RunBytes(runs[j - 1]) = 0 THEN base[j - 1]
                   ELSE [counts |-> base[j - 1].counts,
                         offset |-> At(runs[j - 1], base[j - 1].counts) + RunBytes(runs[j - 1])]
  IN  [j \in DOMAIN runs |->
         [counts |-> base[j].counts, offset |-> At(runs[j], base[j].counts) - base[j].offset]]

(* What box i declares of its runs: an offset that counts from their base, *)
(* which for a "given" one is the base itself, and no place.               *)
Declares(boxes, i) ==
  [j \in DOMAIN boxes[i].runs |->
     LET run == boxes[i].runs[j]
     IN  [track |-> run.track, here |-> run.media # 0, id |-> Identifier(boxes, run),
          base |-> run.base, offset |-> Bases(boxes, i)[j].offset,
          tfdt |-> run.tfdt, sizes |-> run.sizes, empty |-> run.empty]]
-------------------------------------------------------------------------------
(* The samples as they truly are, those of box i: the decoding times run   *)
(* on through the boxes from where a tfdt last set them (8.8.12).          *)
Declaring(box) == box.kind \in {"movie", "fragment"}

Duration(run) == IF run.empty THEN 1 ELSE Len(run.sizes)

Advance(times, run) ==
  [times EXCEPT ![run.track] = (IF run.tfdt = None THEN @ ELSE run.tfdt) + Duration(run)]

TimesBefore(boxes, i, j) ==
  LET earlier == FlattenSeq([k \in 1..i |->
                   IF ~Declaring(boxes[k]) THEN <<>>
                   ELSE IF k < i THEN boxes[k].runs ELSE SubSeq(boxes[k].runs, 1, j - 1)])
  IN  FoldLeft(Advance, [t \in Tracks |-> 0], earlier)

(* A sample: what the code locates, and as it is by its place and time.    *)
SamplesOf(run, time, start) ==
  [k \in DOMAIN run.sizes |->
     LET at == start + BytesBefore(run.sizes, k)
     IN  [track |-> run.track, time |-> time + k - 1,
          start |-> at, end |-> at + run.sizes[k]]]

TrueSamples(boxes, i) ==
  FlattenSeq([j \in DOMAIN boxes[i].runs |->
    LET run == boxes[i].runs[j]
        time == IF run.tfdt = None THEN TimesBefore(boxes, i, j)[run.track] ELSE run.tfdt
    IN  SamplesOf(run, time, PlaceInFile(boxes, run))])
===============================================================================
