-------------------------- MODULE StructureDataReader --------------------------
(***************************************************************************)
(* StructureDataReader of crates/isobmff/src/structure_data/reader.rs      *)
(* under the caller its documentation has: one that reads the boxes of a   *)
(* file in their order, tells the reader of each compressed box before it  *)
(* hands over the box this replaces, and may resume at any box after the   *)
(* moov.  It stops where a call is refused.                                *)
(***************************************************************************)
EXTENDS StructureData

CONSTANTS
  Files,         (* the files that are read: sequences of boxes, valid ones *)
  BackOverImda   (* whether the caller resumes before an imda it has met    *)

VARIABLES
  file,      (* the file                                                   *)
  at,        (* the box to read next                                       *)
  told,      (* whether the reader has been told of it, a compressed box   *)
  reader,    (* the reader                                                 *)
  answer,    (* how the last call ended                                    *)
  returned,  (* the samples that the last call returned                    *)
  given,     (* all samples returned since the reading was last resumed    *)
  read,      (* the boxes handed over since the reading was last resumed   *)
  handed,    (* the boxes ever handed over                                 *)
  met        (* the boxes ever told of or handed over                      *)

vars == <<file, at, told, reader, answer, returned, given, read, handed, met>>

Init ==
  /\ file \in Files
  /\ at = 1
  /\ told = FALSE
  /\ reader = NewReader
  /\ answer = "ok"
  /\ returned = <<>>
  /\ given = <<>>
  /\ read = {}
  /\ handed = {}
  /\ met = {}
-------------------------------------------------------------------------------
BoxStart(i) == Contents!LengthBefore(file, i)

(* Where box i would start were every box before it the longer of what it  *)
(* is in the file and of what it reads back as.                            *)
Farthest(boxes, i) ==
  LET upTo[n \in 0..Len(boxes)] ==
        IF n = 0 THEN 0
        ELSE upTo[n - 1] + Max({Contents!Length(boxes[n]), Contents!ReadBackLength(boxes[n])})
  IN  upTo[i - 1]

(* Files end before the offsets do, however many of their compressed boxes *)
(* are read back.                                                          *)
ASSUME FilesAssumption ==
  /\ Files \subseteq Seq(Contents!FileBox)
  /\ \A boxes \in Files : Farthest(boxes, Len(boxes) + 1) <= MaxPosition

ASSUME LimitsAssumption ==
  {SampleCount, LeniencyCount, IdentifiedCount, UnresolvedCount, SegmentIndexCount,
   SubsegmentCount, CompressedBoxCount} \subseteq Nat

Answer(outcome) ==
  /\ answer' = outcome.answer
  /\ reader' = outcome.reader
  /\ returned' = outcome.samples
  /\ given' = given \o outcome.samples

CanRead == answer = "ok" /\ at <= Len(file)

Tell ==
  /\ CanRead
  /\ ~told
  /\ file[at].compressed
  /\ Answer(HandleCompressedBox(reader, file, at))
  /\ told' = (answer' = "ok")
  /\ met' = met \cup {at}
  /\ UNCHANGED <<file, at, read, handed>>

Read ==
  /\ CanRead
  /\ told \/ ~file[at].compressed
  /\ Answer(HandleBox(reader, file, at))
  /\ at' = at + 1
  /\ told' = FALSE
  /\ read' = read \cup {at}
  /\ handed' = handed \cup {at}
  /\ met' = met \cup {at}
  /\ UNCHANGED file

(* As after a seek, to where a box after the moov starts.                  *)
ResumeAt(i) ==
  /\ answer = "ok"
  /\ reader.movie
  /\ ~BackOverImda => \A k \in i..Len(file) : k \in met => file[k].kind # "identified"
  /\ \E m \in 1..(i - 1) : file[m].kind = "movie"
  /\ at' = i
  /\ told' = FALSE
  /\ reader' = Resume(reader)
  /\ returned' = <<>>
  /\ given' = <<>>
  /\ read' = {}
  /\ UNCHANGED <<file, answer, handed, met>>

Next ==
  \/ Tell
  \/ Read
  \/ \E i \in 1..Len(file) : ResumeAt(i)

Spec == Init /\ [][Next]_vars
-------------------------------------------------------------------------------
(* PROPERTIES                                                              *)

What(sample) == [track |-> sample.track, time |-> sample.time]

(* Every sample of the boxes read since the reader last resumed has been   *)
(* returned, or waits for its imda, at its true decoding time: none is     *)
(* lost, none returned twice, and none timed by what the reader knew       *)
(* before a seek.                                                          *)
EachOnceInTime ==
  answer = "ok" =>
    LET located == given \o reader.waiting
        true == FlattenSeq([i \in 1..Len(file) |->
                  IF i \in read /\ Contents!Declaring(file[i])
                  THEN Contents!TrueSamples(file, i) ELSE <<>>])
    IN  /\ ToBag([k \in DOMAIN located |-> What(located[k])])
             = ToBag([k \in DOMAIN true |-> What(true[k])])
        /\ \A k \in DOMAIN reader.waiting :
             reader.waiting[k].counts \notin DOMAIN reader.identified

Changes(i) == file[i].compressed /\ file[i].readBack # file[i].payload

(* What the offset of run j of box i counts from in the end.               *)
Root(i, j) ==
  LET runs == file[i].runs
      root[k \in DOMAIN runs] ==
        IF runs[k].base = "default" /\ k > 1 THEN root[k - 1] ELSE runs[k].base
  IN  root[j]

(* The boxes whose change in length moves run j of box i away from what    *)
(* its offset counts from.                                                 *)
Between(i, j) ==
  LET media == file[i].runs[j].media
  IN  IF Contents!InImda(file, file[i].runs[j]) /\ Contents!Bases(file, i)[j].counts # None
      THEN {}
      ELSE {k \in 1..Len(file) : /\ Changes(k)
                                 /\ Root(i, j) = "given" \/ k >= i \/ k >= media
                                 /\ k < media \/ (Root(i, j) # "given" /\ k < i)}

(* A sample is located at its media data whenever the reader has met every *)
(* compressed box that can move it, wherever in the file it has resumed.   *)
PlacesTrue ==
  \A k \in DOMAIN returned :
    \E i \in read : Contents!Declaring(file[i]) /\ \E j \in DOMAIN file[i].runs :
      \/ ~(Between(i, j) \subseteq met)
      \/ LET sample == returned[k]
             run == file[i].runs[j]
             place == Contents!PlaceInFile(file, run)
         IN  /\ sample.track = run.track
             /\ \E n \in DOMAIN run.sizes :
                  /\ sample.start = place + Contents!BytesBefore(run.sizes, n)
                  /\ sample.end = sample.start + run.sizes[n]

(* "It can tell only once it is told of every compressed box before the    *)
(* media data": a sample located after that is where its media data lies.  *)
LocatedOnceTold ==
  \A k \in DOMAIN returned :
    \E i \in read : Contents!Declaring(file[i]) /\ \E n \in DOMAIN Contents!TrueSamples(file, i) :
      LET true == Contents!TrueSamples(file, i)[n]
          sample == returned[k]
      IN  /\ What(sample) = What(true)
          /\ \/ sample.start = true.start
             \/ \E b \in 1..Len(file) : Changes(b) /\ BoxStart(b) < true.start /\ b \notin met

(* A file as a writer lays it out is refused for what the documentation    *)
(* names only: a limit, a compressed box met after samples it moves, one   *)
(* in a file with an mfra, and after a seek what the seek skipped.         *)
RefusedForCause ==
  LET box == file[Min({at, Len(file)})]
      before == file[Max({at - 1, 1})]
  IN  CASE answer = "before located" ->
             Changes(at) /\ reader.compressed.locatedEnd > BoxStart(at)
        [] answer = "mfra with compressed" ->
             \E i, j \in met : file[i].compressed /\ file[j].kind = "random access"
        [] answer = "missing decoding time" ->
             /\ reader.compressed.resumed
             /\ \E j \in DOMAIN before.runs : before.runs[j].tfdt = None
        [] answer \in {"moved past skipped", "out of range"} ->
             /\ reader.compressed.resumed
             /\ \E i \in met : file[i].compressed \/ file[i].kind = "original type"
        [] OTHER -> answer \in {"ok", "past limit"}

WithinLimits ==
  /\ Len(reader.waiting) <= UnresolvedCount
  /\ Cardinality(DOMAIN reader.identified) <= IdentifiedCount
  /\ Len(reader.indexes) <= SegmentIndexCount
  /\ Len(reader.compressed.boxes) <= CompressedBoxCount
  /\ Len(reader.leniencies) <= LeniencyCount

(* What the reader keeps of the boxes it has met, over every seek: of those*)
(* handed over each segment index and imda once, of those it was told of   *)
(* each once and as they lie, and never more of them, or of the samples    *)
(* that wait, than its limits.                                             *)
KeepsWhatItMet ==
  LET Handed(kind) == {i \in handed : file[i].kind = kind}
      indexed == {BoxStart(i + 1) : i \in Handed("index")}
      boxes == reader.compressed.boxes
  IN  /\ WithinLimits
      /\ \A k, l \in DOMAIN boxes : k < l => boxes[k].offset < boxes[l].offset
      /\ answer = "ok" =>
           /\ {reader.indexes[k].start : k \in DOMAIN reader.indexes} = indexed
           /\ Len(reader.indexes) = Cardinality(indexed)
           /\ DOMAIN reader.identified = {file[i].id : i \in Handed("identified")}
           /\ {boxes[k].offset : k \in DOMAIN boxes}
                = {BoxStart(i) : i \in {n \in met : file[n].compressed}}

(* Between compressed boxes, the offsets of the file and those of the file *)
(* as it reads back name the same bytes, one for one and in their order,   *)
(* in whatever order the boxes were met.                                   *)
PlacesInvert ==
  LET boxes == reader.compressed.boxes
      outside == {p \in 0..Contents!LengthBefore(file, Len(file) + 1) :
                    \A k \in DOMAIN boxes : p \notin boxes[k].offset..EndOf(boxes[k]) - 1}
  IN  /\ \A p \in outside :
           InFile(boxes, [start |-> Uncompressed(boxes, p), end |-> Uncompressed(boxes, p) + 1]).start = p
      /\ \A p, q \in outside : p < q => Uncompressed(boxes, p) < Uncompressed(boxes, q)
===============================================================================
