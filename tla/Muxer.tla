---------------------------------- MODULE Muxer ----------------------------------
(***************************************************************************)
(* Muxer of crates/isobmff-mux/src/muxer.rs, with the writers it composes: *)
(* BoxWriter and the reserved space of crates/isobmff/src/framing, the     *)
(* MediaDataWriter, and the MovieFragmentWriter and SampleTableWriter of   *)
(* structure_data/writer.rs.  Its outputs are written by a sink to a disk, *)
(* which may stop at any state: what a crash leaves is the disk of some    *)
(* state, so what holds of `disk` always holds after a crash.              *)
(*                                                                         *)
(* A disk is a sequence of cells: the first byte of a box carries what its *)
(* header declares and what the reader finds in it, a byte of media data   *)
(* carries the sample it belongs to, and every other byte is Rest.  The    *)
(* samples are numbered in the order they are accepted.                    *)
(***************************************************************************)
EXTENDS Integers, SequencesExt

CONSTANTS
  Structures,         (* the structures to write: [kind, mfra, subsegments]*)
  Calls,              (* the lists of samples handed over, by structure    *)
  Tracks,             (* the tracks of the movie                           *)
  EditStart,          (* where the first edit of a track starts, or NoEdit *)
  HeaderBytes,        (* bytes of a header of a 32-bit size: 8             *)
  PayloadBytes,       (* bytes of the payload of any ftyp, moov or mfra    *)
  CompactTotal,       (* the largest total of a 32-bit size                *)
  DataReach,          (* the farthest a trun reaches: 2^31 - 1             *)
  ReferenceReach,     (* the most bytes of a subsegment: 2^31 - 1          *)
  TickReach,          (* the longest duration of a subsegment: 2^32 - 1    *)
  SequenceNumbers,    (* how many sequence numbers there are: 2^32         *)
  HeldLocationCount,  (* MuxLimits::held_location_count                    *)
  MaxSamples,         (* bound: how many samples are accepted              *)
  MaxPending,         (* bound: how many outputs are left while calls come *)
  MaxLost,            (* bound: how many boxes refused calls lose          *)
  None,
  NoEdit

Duration == 1  (* of every sample *)

(* A sample is encoded, or has flags or a composition offset that no field *)
(* of a box holds.                                                         *)
Sample == [track : Nat, time : Nat, length : Nat, sync : BOOLEAN, encodes : BOOLEAN]

Kind == {"NonFragmented", "Recoverable", "Fragmented", "Segment"}

Structure == [kind : Kind, mfra : BOOLEAN, subsegments : Nat \cup {None}]

(* A movie is refused for tables that declare samples, or taken; one that  *)
(* does not write is taken where its moov is not written yet.              *)
Movie == {"writes", "declares samples", "does not write"}

ASSUME MuxerAssumption ==
  /\ Structures \subseteq Structure
  /\ \A s \in Structures : Calls[s] \subseteq Seq(Sample)
  /\ EditStart \in [Tracks -> Nat \cup {NoEdit}]
  /\ HeaderBytes \in Nat \ {0}
  /\ Tracks \subseteq Nat /\ Tracks # {}
  /\ None \notin Nat
  /\ EditStart[Min(Tracks)] = NoEdit
  /\ PayloadBytes \in Nat
  /\ CompactTotal \in Nat /\ CompactTotal >= 2 * HeaderBytes
  /\ SequenceNumbers \in Nat \ {0}

VARIABLES
  structure,       (* the structure of the file, and its options           *)
  movie,           (* whether the muxer holds a movie                      *)
  nextOffset,      (* BoxWriter::next_offset                               *)
  output,          (* outputs not polled, or not on disk yet               *)
  reserved,        (* file offset of the space reserved for a sidx         *)
  placeholder,     (* file offset of the free of a recoverable file        *)
  fileType,        (* whether the brands are written                       *)
  finished,        (* whether the file is finished                         *)
  tables,          (* the sample tables: [state, declared, held]           *)
  sequenceNumber,  (* of the next movie fragment                           *)
  syncSamples,     (* what the mfra is to list                             *)
  references,      (* subsegments the sidx is to reference: [size, ticks]  *)
  lastPresented,   (* [index, start] of the last of the first track        *)
  accepted,        (* how many samples are accepted                        *)
  result,          (* how the last call ended                              *)
  disk,            (* what the sink has written                            *)
  lost             (* history: boxes refused calls counted: [free, moof]   *)

muxer == <<structure, movie, nextOffset, reserved, placeholder, fileType, finished,
           tables, sequenceNumber, syncSamples, references, lastPresented, accepted>>
vars == <<muxer, output, result, disk, lost>>

Recoverable == structure.kind = "Recoverable"
Fragments == structure.kind # "NonFragmented"
Indexed == structure.subsegments # None

Init ==
  /\ structure \in Structures
  /\ movie = FALSE
  /\ nextOffset = 0
  /\ output = <<>>
  /\ reserved = None
  /\ placeholder = None
  /\ fileType = FALSE
  /\ finished = FALSE
  /\ tables = [state |-> "declaring", declared |-> <<>>, held |-> 0]
  /\ sequenceNumber = 0
  /\ syncSamples = {}
  /\ references = <<>>
  /\ lastPresented = None
  /\ accepted = 0
  /\ result = "ok"
  /\ disk = <<>>
  /\ lost = [free |-> 0, moof |-> 0]
-------------------------------------------------------------------------------
(* BOXES                                                                   *)

Rest == [rest |-> TRUE]
Hole == [hole |-> TRUE]

Rests(n) == [i \in 1..n |-> Rest]

(* The bytes of a box of `total` bytes without media data.                 *)
Box(type, total, holds) ==
  <<[box |-> type, total |-> total, holds |-> holds]>> \o Rests(total - 1)

Free(total) == Box("free", total, {})

Plain(type, holds) == Box(type, HeaderBytes + PayloadBytes, holds)

At(offset, cells) == [offset |-> offset, cells |-> cells]

(* BoxHeader::with_payload_len: the length of the header of a payload.     *)
HeaderLength(payload) ==
  IF HeaderBytes + payload <= CompactTotal THEN HeaderBytes ELSE 2 * HeaderBytes

(* Slip: the payload is counted from the free box, not from behind it.     *)
HeaderFromFree(payload) ==
  Free(HeaderBytes) \o
  <<[box |-> "mdat", total |-> 2 * HeaderBytes + payload, holds |-> {}]>> \o
  Rests(HeaderBytes - 1)

(* media_data_header: what turns the free of two headers at `offset` into  *)
(* the header of an mdat of the `payload` bytes that follow it.            *)
MediaDataHeader(payload) ==
  IF HeaderLength(payload) = HeaderBytes
  THEN Free(HeaderBytes) \o
       <<[box |-> "mdat", total |-> HeaderBytes + payload, holds |-> {}]>> \o
       Rests(HeaderBytes - 1)
  ELSE <<[box |-> "mdat", total |-> 2 * HeaderBytes + payload, holds |-> {}]>> \o
       Rests(2 * HeaderBytes - 1)
-------------------------------------------------------------------------------
(* SAMPLES                                                                 *)

BytesBefore(call, i) ==
  LET first[n \in 0..Len(call)] == IF n = 0 THEN 0 ELSE first[n - 1] + call[n].length
  IN  first[i - 1]

DataBytes(call) == BytesBefore(call, Len(call) + 1)

(* located_in_file: the samples of a call, end to end from `origin`.       *)
Located(call, origin) ==
  [i \in DOMAIN call |->
     [sample |-> accepted + i, track |-> call[i].track, time |-> call[i].time,
      length |-> call[i].length, start |-> origin + BytesBefore(call, i),
      encodes |-> call[i].encodes]]

(* MediaDataWriter::write: the mdat of the samples of a call.              *)
MediaData(call) ==
  LET header == HeaderLength(DataBytes(call))
  IN  <<[box |-> "mdat", total |-> header + DataBytes(call), holds |-> {}]>> \o
      Rests(header - 1) \o
      FlattenSeq([i \in DOMAIN call |->
                    [k \in 1..call[i].length |-> [sample |-> accepted + i, byte |-> k]]])

Known(call) == \A i \in DOMAIN call : call[i].track \in Tracks

(* Each run of samples of one track in a call.                             *)
RunStarts(call) == {i \in DOMAIN call : i = 1 \/ call[i].track # call[i - 1].track}

(* runs: the decoding times of a track follow from one another in a call,  *)
(* from `ends[track]` where that is known.                                 *)
FollowOn(call, ends) ==
  \A i \in DOMAIN call :
    LET track == call[i].track
        earlier == {j \in 1..(i - 1) : call[j].track = track}
    IN  IF earlier # {} THEN call[i].time = call[Max(earlier)].time + Duration
        ELSE ends[track] # None => call[i].time = ends[track]

NoEnds == [track \in Tracks |-> None]

(* The decoding time past the samples the tables declare of a track; that  *)
(* of a track without edits starts at 0.                                   *)
DecodingEnds ==
  [track \in Tracks |->
     LET declared == {i \in DOMAIN tables.declared : tables.declared[i].track = track}
     IN  IF declared # {} THEN tables.declared[Max(declared)].time + Duration
         ELSE IF EditStart[track] = NoEdit THEN 0 ELSE None]

(* An edit starts before the first sample of its track, which moving it    *)
(* back by the decoding time of that sample could not reach.               *)
EditOutOfReach(call) ==
  \E i \in DOMAIN call :
    LET track == call[i].track
    IN  /\ DecodingEnds[track] = None
        /\ \A j \in 1..(i - 1) : call[j].track # track
        /\ EditStart[track] < call[i].time

(* SampleTableWriter::handle_locations refuses the samples of the call.    *)
TablesRefuse(call) ==
  \/ ~Known(call)
  \/ ~FollowOn(call, DecodingEnds)
  \/ EditOutOfReach(call)
-------------------------------------------------------------------------------
(* handle_file_type, with brands that name `iso5` or later or do not.      *)
HandleFileType(iso5) ==
  LET type == IF structure.kind = "Segment" THEN "styp" ELSE "ftyp"
      cells == Plain(type, {})
  IN  IF finished \/ fileType \/ nextOffset > 0 \/ (Fragments /\ ~iso5)
      THEN result' = "refused" /\ UNCHANGED <<muxer, output, disk, lost>>
      ELSE /\ result' = "ok"
           /\ output' = Append(output, At(nextOffset, cells))
           /\ nextOffset' = nextOffset + Len(cells)
           /\ fileType' = TRUE
           /\ UNCHANGED <<structure, movie, reserved, placeholder, finished, tables,
                          sequenceNumber, syncSamples, references, lastPresented, accepted, disk, lost>>

(* Bound: no more boxes are lost than MaxLost.                             *)
LosesMore == lost.free + lost.moof < MaxLost

(* handle_movie.                                                           *)
FragmentedMovie == Plain("moov", {})

RefuseMovie(offered) ==
  /\ \/ finished
     \/ movie
     \/ offered = "declares samples"
     \/ offered = "does not write" /\ structure.kind = "Fragmented"
  /\ result' = "refused"
  /\ UNCHANGED <<muxer, output, disk, lost>>

(* The placeholder of a recoverable file is counted before its moov is     *)
(* written, which fails and drops it.                                      *)
LoseMovie(offered) ==
  /\ ~finished
  /\ ~movie
  /\ offered = "does not write" /\ Recoverable
  /\ LosesMore
  /\ result' = "refused"
  /\ nextOffset' = nextOffset + 2 * HeaderBytes
  /\ lost' = [lost EXCEPT !.free = @ + 1]
  /\ UNCHANGED <<structure, movie, output, reserved, placeholder, fileType, finished, tables,
                 sequenceNumber, syncSamples, references, lastPresented, accepted, disk>>

TakeMovie(offered) ==
  /\ ~finished
  /\ ~movie
  /\ \/ offered = "writes"
     \/ offered = "does not write" /\ structure.kind \in {"NonFragmented", "Segment"}
  /\ result' = "ok"
  /\ movie' = TRUE
  /\ LET free == IF Recoverable THEN 2 * HeaderBytes ELSE 0
         moov == IF structure.kind \in {"Fragmented", "Recoverable"}
                 THEN <<At(nextOffset + free, FragmentedMovie)>> ELSE <<>>
     IN  /\ output' = output \o (IF Recoverable THEN <<At(nextOffset, Free(free))>> ELSE <<>>)
                             \o moov
         /\ nextOffset' = nextOffset + free + (IF moov = <<>> THEN 0 ELSE Len(FragmentedMovie))
         /\ placeholder' = IF Recoverable THEN nextOffset ELSE None
  /\ UNCHANGED <<structure, reserved, fileType, finished, tables, sequenceNumber,
                 syncSamples, references, lastPresented, accepted, disk, lost>>

HandleMovie(offered) == RefuseMovie(offered) \/ LoseMovie(offered) \/ TakeMovie(offered)
-------------------------------------------------------------------------------
(* Slip: a call that is refused has written its mdat.                      *)
TableSamplesWritten(call) ==
  /\ result' = IF TablesRefuse(call) THEN "refused" ELSE "ok"
  /\ tables' = IF TablesRefuse(call) THEN tables
               ELSE [tables EXCEPT !.declared =
                       @ \o Located(call, nextOffset + HeaderLength(DataBytes(call)))]
  /\ accepted' = IF TablesRefuse(call) THEN accepted ELSE accepted + Len(call)
  /\ output' = Append(output, At(nextOffset, MediaData(call)))
  /\ nextOffset' = nextOffset + Len(MediaData(call))
  /\ UNCHANGED <<structure, movie, reserved, placeholder, fileType, finished,
                 sequenceNumber, syncSamples, references, lastPresented, lost>>

(* handle_samples of a file that is not fragmented: the mdat is written    *)
(* through a copy of the box writer, so a refusal leaves no trace of it.   *)
TableSamples(call) ==
  LET origin == nextOffset + HeaderLength(DataBytes(call))
      mdat == MediaData(call)
  IN  IF TablesRefuse(call)
      THEN result' = "refused" /\ UNCHANGED <<muxer, output, lost>>
      ELSE /\ result' = "ok"
           /\ tables' = [tables EXCEPT !.declared = @ \o Located(call, origin)]
           /\ output' = Append(output, At(nextOffset, mdat))
           /\ nextOffset' = nextOffset + Len(mdat)
           /\ accepted' = accepted + Len(call)
           /\ UNCHANGED <<structure, movie, reserved, placeholder, fileType, finished,
                          sequenceNumber, syncSamples, references, lastPresented, lost>>

(* The length of a moof grows with its track runs.                         *)
FragmentBytes(call) == HeaderBytes + Cardinality(RunStarts(call))

(* The sidx is as long as the subsegments it is to index take.             *)
SegmentIndexBytes == HeaderBytes + structure.subsegments

(* segment_index_len, while the space is still to be reserved.             *)
Reserving == IF Indexed /\ reserved = None THEN SegmentIndexBytes ELSE 0

(* Slip: the header of the mdat is always taken for a compact one.         *)
DataOffsetCompact(call, i) == FragmentBytes(call) + HeaderBytes + BytesBefore(call, i)

(* Where the media data of the fragment starts, counted from its moof.     *)
DataOffset(call, i) ==
  FragmentBytes(call) + HeaderLength(DataBytes(call)) + BytesBefore(call, i)

(* Slip: the subsegment is counted without the header of its mdat.         *)
ReferencedWithoutHeader(call) == FragmentBytes(call) + DataBytes(call)

ReferencedBytes(call) == DataOffset(call, Len(call) + 1)

(* SubsegmentTable: a subsegment is presented by its samples of the first  *)
(* track, and lasts until the next that has some.                          *)
Presented(call) == {call[i].time : i \in {i \in DOMAIN call : call[i].track = Min(Tracks)}}

TicksRefuse(call) ==
  /\ Presented(call) # {}
  /\ lastPresented # None
  /\ Min(Presented(call)) - lastPresented.start \notin 0..TickReach

(* Slip: the subsegment before lasts until its own end.                    *)
ReferencesNotPatched(call) ==
  Append(references, [size |-> ReferencedBytes(call), ticks |-> Cardinality(Presented(call))])

(* SubsegmentTable::handle_movie_fragment.                                 *)
ReferencesWith(call) ==
  Append(IF Presented(call) # {} /\ lastPresented # None
         THEN [references EXCEPT ![lastPresented.index].ticks =
                                   Min(Presented(call)) - lastPresented.start]
         ELSE references,
         [size |-> ReferencedBytes(call), ticks |-> Cardinality(Presented(call))])

FragmentRefuses(call) ==
  \/ ~Known(call)
  \/ ~FollowOn(call, NoEnds)
  \/ \E i \in RunStarts(call) : DataOffset(call, i) > DataReach
  \/ Indexed /\ (ReferencedBytes(call) > ReferenceReach \/ TicksRefuse(call)
                 \/ Len(references) + 1 > structure.subsegments)

(* Slip: the fragment is numbered by the samples before it.                *)
FragmentNumbered(call) ==
  Box("moof", FragmentBytes(call),
      { [sample |-> accepted + i, offset |-> DataOffset(call, i),
         length |-> call[i].length, track |-> call[i].track, time |-> call[i].time,
         number |-> accepted % SequenceNumbers] : i \in DOMAIN call })

(* The samples are declared by their offsets from the moof.                *)
Fragment(call) ==
  Box("moof", FragmentBytes(call),
      { [sample |-> accepted + i, offset |-> DataOffset(call, i),
         length |-> call[i].length, track |-> call[i].track, time |-> call[i].time,
         number |-> sequenceNumber] : i \in DOMAIN call })

(* RandomAccessTables lists the first sync sample of each track.           *)
ListedSync(call, moofOffset) ==
  { [moof |-> moofOffset, track |-> call[i].track, time |-> call[i].time] :
      i \in {i \in DOMAIN call :
               /\ call[i].sync
               /\ \A j \in 1..(i - 1) : call[j].track = call[i].track => ~call[j].sync} }

(* Recoverable::handle_locations.                                          *)
TablesAfter(call, locations) ==
  LET held == tables.held + Len(call)
  IN  IF ~Recoverable THEN tables
      ELSE IF tables.state # "declaring" THEN [tables EXCEPT !.held = held]
      ELSE IF held > HeldLocationCount
           THEN [state |-> "past limit", declared |-> <<>>, held |-> held]
      ELSE IF TablesRefuse(call)
           THEN [state |-> "refused", declared |-> <<>>, held |-> held]
      ELSE [tables EXCEPT !.declared = @ \o locations, !.held = held]

(* movie_fragment numbers and indexes the fragment of a call, and the      *)
(* space for a sidx is counted, before its moof is written.                *)
CountFragment(call) ==
  /\ reserved' = IF Reserving > 0 THEN nextOffset ELSE reserved
  /\ sequenceNumber' = (sequenceNumber + 1) % SequenceNumbers
  /\ syncSamples' = IF structure.mfra
                    THEN syncSamples \cup ListedSync(call, nextOffset + Reserving)
                    ELSE syncSamples
  /\ references' = IF Indexed THEN ReferencesWith(call) ELSE references
  /\ lastPresented' = IF Indexed /\ Presented(call) # {}
                      THEN [index |-> Len(references) + 1, start |-> Min(Presented(call))]
                      ELSE lastPresented

Encodes(call) == \A i \in DOMAIN call : call[i].encodes

WriteFragment(call) ==
  LET moofOffset == nextOffset + Reserving
      mdatOffset == moofOffset + FragmentBytes(call)
      mdat == MediaData(call)
  IN  /\ Encodes(call)
      /\ CountFragment(call)
      /\ result' = "ok"
      /\ output' = output
           \o (IF Reserving > 0 THEN <<At(nextOffset, Free(Reserving))>> ELSE <<>>)
           \o <<At(moofOffset, Fragment(call)), At(mdatOffset, mdat)>>
      /\ nextOffset' = mdatOffset + Len(mdat)
      /\ tables' = TablesAfter(call, Located(call, moofOffset + DataOffset(call, 1)))
      /\ accepted' = accepted + Len(call)
      /\ UNCHANGED <<structure, movie, placeholder, fileType, finished, lost>>

(* The moof does not write, and what is counted for it stays so; the free  *)
(* over the space for a sidx is dropped with it.                           *)
LoseFragment(call) ==
  /\ ~Encodes(call)
  /\ LosesMore
  /\ CountFragment(call)
  /\ result' = "refused"
  /\ nextOffset' = nextOffset + Reserving
  /\ lost' = [free |-> lost.free + (IF Reserving > 0 THEN 1 ELSE 0), moof |-> lost.moof + 1]
  /\ UNCHANGED <<structure, movie, output, placeholder, fileType, finished, tables, accepted>>

(* handle_samples of movie fragments.                                      *)
FragmentSamples(call) ==
  IF FragmentRefuses(call)
  THEN result' = "refused" /\ UNCHANGED <<muxer, output, lost>>
  ELSE WriteFragment(call) \/ LoseFragment(call)

(* handle_samples.  No sample writes nothing.                              *)
HandleSamples(call) ==
  /\ UNCHANGED disk
  /\ \/ /\ finished \/ ~movie
        /\ result' = "refused"
        /\ UNCHANGED <<muxer, output, lost>>
     \/ /\ ~finished /\ movie
        /\ call = <<>>
        /\ result' = "ok"
        /\ UNCHANGED <<muxer, output, lost>>
     \/ /\ ~finished /\ movie
        /\ call # <<>>
        /\ accepted + Len(call) <= MaxSamples
        /\ IF Fragments THEN FragmentSamples(call) ELSE TableSamples(call)
-------------------------------------------------------------------------------
(* The moov of the samples declared: each at its own file offset.          *)
TableMovie ==
  Plain("moov", { [sample |-> tables.declared[i].sample, start |-> tables.declared[i].start,
                   length |-> tables.declared[i].length] : i \in DOMAIN tables.declared })

RefuseFinish ==
  /\ finished \/ ~movie
  /\ result' = "refused"
  /\ UNCHANGED <<muxer, output>>

(* A finish that fails once the muxer holds a movie ends the file.         *)
FailFinish ==
  /\ result' = "failed"
  /\ UNCHANGED <<nextOffset, output, tables, references>>

FinishTables ==
  /\ structure.kind = "NonFragmented"
  /\ \/ FailFinish  (* the moov does not write *)
     \/ /\ \A i \in DOMAIN tables.declared : tables.declared[i].encodes
        /\ result' = "ok"
        /\ output' = Append(output, At(nextOffset, TableMovie))
        /\ nextOffset' = nextOffset + Len(TableMovie)
        /\ UNCHANGED <<tables, references>>

(* Slip: the header is put out before the moov it makes room for.          *)
FinishHeaderFirst ==
  /\ Recoverable
  /\ \/ FailFinish
     \/ /\ tables.state = "declaring"
        /\ result' = "ok"
        /\ tables' = [tables EXCEPT !.state = "laid out"]
        /\ output' = output \o
             << At(placeholder, MediaDataHeader(nextOffset - placeholder - 2 * HeaderBytes)),
                At(nextOffset, TableMovie) >>
        /\ nextOffset' = nextOffset + Len(TableMovie)
        /\ UNCHANGED references

(* Recoverable::finish: the mdat that takes the place of the placeholder   *)
(* holds all there is up to the moov.                                      *)
FinishRecoverable ==
  /\ Recoverable
  /\ \/ FailFinish  (* the tables are dropped, or the moov does not write *)
     \/ /\ tables.state = "declaring"
        /\ result' = "ok"
        /\ tables' = [tables EXCEPT !.state = "laid out"]
        /\ LET payload == nextOffset - placeholder - 2 * HeaderBytes
           IN  output' = output \o << At(nextOffset, TableMovie),
                                      At(placeholder, MediaDataHeader(payload)) >>
        /\ nextOffset' = nextOffset + Len(TableMovie)
        /\ UNCHANGED references

(* A fragmented file ends with its mfra.                                   *)
FinishFragmented ==
  /\ structure.kind = "Fragmented"
  /\ \/ structure.mfra /\ FailFinish  (* the mfra does not write *)
     \/ /\ structure.mfra
        /\ result' = "ok"
        /\ output' = Append(output, At(nextOffset, Plain("mfra", syncSamples)))
        /\ nextOffset' = nextOffset + Len(Plain("mfra", syncSamples))
        /\ UNCHANGED <<tables, references>>
     \/ /\ ~structure.mfra
        /\ result' = "ok"
        /\ UNCHANGED <<nextOffset, output, tables, references>>

(* Slip: the sidx is written in a version longer than the space for it.    *)
SegmentIndexLonger ==
  Box("sidx", SegmentIndexBytes + 1,
      { [index |-> i, size |-> references[i].size, ticks |-> references[i].ticks] :
          i \in DOMAIN references })

(* The sidx goes over the space reserved, or, of no subsegment, at the end.*)
SegmentIndex ==
  Box("sidx", SegmentIndexBytes,
      { [index |-> i, size |-> references[i].size, ticks |-> references[i].ticks] :
          i \in DOMAIN references })

FinishSegment ==
  /\ structure.kind = "Segment"
  /\ \/ /\ Indexed /\ Len(references) # structure.subsegments
        /\ FailFinish
     \/ /\ ~Indexed
        /\ result' = "ok"
        /\ UNCHANGED <<nextOffset, output, tables, references>>
     \/ /\ Indexed /\ Len(references) = structure.subsegments
        /\ result' = "ok"
        /\ LET offset == IF reserved = None THEN nextOffset ELSE reserved
           IN  output' = Append(output, At(offset, SegmentIndex))
        /\ nextOffset' = IF reserved = None THEN nextOffset + SegmentIndexBytes ELSE nextOffset
        /\ UNCHANGED <<tables, references>>

Finish ==
  /\ UNCHANGED <<disk, lost>>
  /\ \/ RefuseFinish
     \/ /\ ~finished /\ movie
        /\ finished' = TRUE
        /\ FinishTables \/ FinishRecoverable \/ FinishFragmented \/ FinishSegment
        /\ UNCHANGED <<structure, movie, reserved, placeholder, fileType, sequenceNumber,
                       syncSamples, lastPresented, accepted>>
-------------------------------------------------------------------------------
(* The sink: it polls an output and writes it where it goes, byte by byte. *)
(* Bytes that go over a free box are written together.                     *)
Overlaid(cells, offset) ==
  [i \in 1..Max({Len(disk), offset + Len(cells)}) |->
     IF i - offset \in DOMAIN cells THEN cells[i - offset]
     ELSE IF i \in DOMAIN disk THEN disk[i] ELSE Hole]

Write ==
  LET next == Head(output)
      n == IF next.offset < Len(disk) THEN Len(next.cells) ELSE 1
  IN  /\ output # <<>>
      /\ disk' = Overlaid(SubSeq(next.cells, 1, n), next.offset)
      /\ output' = IF n = Len(next.cells)
                   THEN Tail(output)
                   ELSE <<At(next.offset + n, SubSeq(next.cells, n + 1, Len(next.cells)))>>
                        \o Tail(output)
      /\ result' = "ok"
      /\ UNCHANGED <<muxer, lost>>

Call ==
  \/ \E iso5 \in BOOLEAN : HandleFileType(iso5)
  \/ \E offered \in Movie : HandleMovie(offered)
  \/ \E call \in Calls[structure] : HandleSamples(call)
  \/ Finish

Next ==
  \/ Len(output) <= MaxPending /\ Call
  \/ Write

Spec == Init /\ [][Next]_vars
-------------------------------------------------------------------------------
(* WHAT A READER FINDS ON DISK                                             *)

IsBox(cell) == "box" \in DOMAIN cell

(* The boxes at file level, end to end from the first byte; the last may   *)
(* be cut short.  Where no box starts, the walk breaks off.                *)
TopLevel ==
  LET From[o \in 0..Len(disk)] ==
        IF o = Len(disk) \/ ~IsBox(disk[o + 1]) THEN {}
        ELSE {o} \cup IF o + disk[o + 1].total < Len(disk) THEN From[o + disk[o + 1].total]
                                                         ELSE {}
  IN  From[0]

Total(o) == disk[o + 1].total

Whole(o) == o + Total(o) <= Len(disk)

OfType(type) == {o \in TopLevel : disk[o + 1].box = type /\ Whole(o)}

(* Where a moov or a moof says its samples lie.                            *)
DeclaredAt(o) ==
  CASE disk[o + 1].box = "moov" -> disk[o + 1].holds
    [] disk[o + 1].box = "moof" ->
         { [sample |-> held.sample, start |-> o + held.offset, length |-> held.length] :
             held \in disk[o + 1].holds }
    [] OTHER -> {}

(* Where the boxes say so to a reader that reads to the end or to a second *)
(* moov, which handle_movie refuses.                                       *)
Declared ==
  LET Ends(o) == o = Len(disk) \/ ~IsBox(disk[o + 1]) \/ ~Whole(o)
      Behind[o \in 0..Len(disk)] ==
        IF Ends(o) \/ disk[o + 1].box = "moov" THEN {}
        ELSE DeclaredAt(o) \cup Behind[o + Total(o)]
      From[o \in 0..Len(disk)] ==
        IF Ends(o) THEN {}
        ELSE DeclaredAt(o) \cup IF disk[o + 1].box = "moov" THEN Behind[o + Total(o)]
                                                           ELSE From[o + Total(o)]
  IN  From[0]

(* A sample is found once what is on disk reaches its end.                *)
Present(location) ==
  /\ location.start + location.length <= Len(disk)
  /\ \A k \in 1..location.length :
       disk[location.start + k] = [sample |-> location.sample, byte |-> k]

Kept == { location.sample : location \in {location \in Declared : Present(location)} }
-------------------------------------------------------------------------------
(* PROPERTIES                                                              *)

(* "Each at the end of the boxes before it": the boxes on disk lie end to  *)
(* end from its first byte to its last, no gap and nothing between two.    *)
LiesEndToEnd ==
  disk # <<>> =>
    /\ 0 \in TopLevel
    /\ \A o \in TopLevel : o + Total(o) >= Len(disk) \/ o + Total(o) \in TopLevel
    /\ \A i \in DOMAIN disk : disk[i] # Hole

(* So they lie, wherever the writing stopped, unless a refused call has    *)
(* lost a free it had counted: the placeholder of a movie that does not    *)
(* write, or the space for a sidx in front of a moof that does not.  No    *)
(* other call, refused or not, and no stop of the sink leaves a gap.       *)
EndToEnd == lost.free = 0 => LiesEndToEnd

(* A reader finds the first of the samples accepted, in their order, each  *)
(* with its own bytes, and never loses one it has found: also not while a  *)
(* recoverable file is laid out again.                                     *)
Recording == INSTANCE RecordedFile WITH given <- accepted, kept <- Kept

ImplementsRecording == Recording!Spec

(* Slip: a recoverable file that is finished is taken to be laid out again.*)
FileStructureFinished ==
  IF Recoverable /\ ~finished THEN "Fragmented"
  ELSE IF Recoverable THEN "NonFragmented" ELSE structure.kind

(* file_structure.                                                         *)
FileStructure ==
  IF Recoverable /\ finished /\ movie /\ tables.state # "laid out" THEN "Fragmented"
  ELSE IF Recoverable THEN "NonFragmented" ELSE structure.kind

(* Once the outputs are on disk a reader finds every sample accepted: of a *)
(* file of fragments at any time, of another once its moov is written.  A  *)
(* recoverable file that is finished then has the structure the muxer      *)
(* tells.  So it is where no free has been lost, behind which no reader    *)
(* finds a box, though moofs may have been.                                *)
AllKept ==
  lost.free = 0 /\ output = <<>> =>
    /\ Fragments \/ OfType("moov") # {} => Kept = 1..accepted
    /\ Recoverable /\ finished =>
         (FileStructure = "NonFragmented" <=> OfType("mdat") # {} /\ OfType("moof") = {})

(* What is on disk is written over only where it is a free box, unless one *)
(* has been lost, whose gap a sidx may fill.                               *)
OverwritesFree ==
  [][ \A i \in DOMAIN disk :
        lost.free = 0 /\ disk'[i] # disk[i] =>
          \E o \in OfType("free") : i \in o + 1..o + Total(o) ]_vars

(* Where the n-th subsegment of the sidx at `o` starts: end to end from    *)
(* right behind the sidx.                                                  *)
SubsegmentOffset(o, n) ==
  o + Total(o) + MapThenSumSet(LAMBDA entry : entry.size,
                               {entry \in disk[o + 1].holds : entry.index < n})

(* By the durations the sidx gives the subsegments, each starts where its  *)
(* first sample of the first track does, though the next fragment may      *)
(* overlap it, leave a gap behind it, or hold no sample of that track.     *)
TimedBySubsegments(o) ==
  LET entries == disk[o + 1].holds
      Times(n) == {held.time : held \in {held \in disk[SubsegmentOffset(o, n) + 1].holds :
                                          held.track = Min(Tracks)}}
      presented == {entry.index : entry \in {entry \in entries : Times(entry.index) # {}}}
  IN  \A n \in presented :
        Min(Times(n)) = Min(Times(Min(presented)))
                        + MapThenSumSet(LAMBDA entry : entry.ticks,
                                        {entry \in entries : entry.index < n})

(* The entries of the mfra name a moof that is there and holds a sample of *)
(* that track at that time, the subsegments of the sidx are the fragments  *)
(* of the segment, end to end from right behind it to the end, each at the *)
(* time the durations of those before it make up, and the fragments are    *)
(* numbered one after another: whatever calls between them were refused,   *)
(* but for those refused for a moof that does not write, which they count. *)
IndexesPoint ==
  lost.moof = 0 =>
    /\ \A o \in OfType("mfra") : \A entry \in disk[o + 1].holds :
         /\ entry.moof \in OfType("moof")
         /\ \E held \in disk[entry.moof + 1].holds :
              held.track = entry.track /\ held.time = entry.time
    /\ \A o \in OfType("sidx") :
         /\ \A entry \in disk[o + 1].holds : SubsegmentOffset(o, entry.index) \in OfType("moof")
         /\ SubsegmentOffset(o, Cardinality(disk[o + 1].holds) + 1) = Len(disk)
         /\ TimedBySubsegments(o)
    /\ \A o \in OfType("moof") : \A held \in disk[o + 1].holds :
         held.number = Cardinality({p \in OfType("moof") : p < o}) % SequenceNumbers

(* "A refused call leaves the muxer as it was" but where it loses a box:   *)
(* it never takes a sample, puts anything out or ends anything, a movie    *)
(* that does not write moves the next offset by the placeholder, samples   *)
(* whose moof does not write move it by the space for the sidx, and add a  *)
(* subsegment to the references of an indexed segment.                     *)
RefusedOnlyLoses ==
  [][ result' = "refused" =>
        /\ UNCHANGED <<structure, movie, output, placeholder, fileType, finished, tables, accepted>>
        /\ lost' = lost => UNCHANGED muxer
        /\ nextOffset' - nextOffset = IF lost'.free = lost.free THEN 0
                                      ELSE IF movie THEN SegmentIndexBytes ELSE 2 * HeaderBytes
        /\ lost'.moof # lost.moof /\ Indexed => Len(references') = Len(references) + 1 ]_vars
===============================================================================
