# isobmff-rs in TLA+

A verification project for `isobmff-rs`, a Rust library that reads and writes
files of the ISO base media file format (ISO/IEC 14496-12) without doing any
I/O of its own: its readers are handed pieces of a file and say which bytes
they want next, its writers return bytes and say where in the file they go.
All of its difficulty follows from that shape. The caller decides how input is
cut, what is passed twice, when samples are taken and when to stop; the library
must give the same file, sample by sample, whatever the caller does, within
limits on what it keeps.

The project holds TLA+ modules of the parts of the library that have state, TLC
configurations that check them on small instances, and TLAPS proofs for every
value of the constants.

| file | what it is |
| --- | --- |
| `FileLayout.tla` | a file as the framing layer sees it: bytes named by their offsets, headers |
| `BoxFraming.tla` | abstract: what a caller of `BoxReader` is promised |
| `BoxReader.tla` | `BoxReader`, shown to implement `BoxFraming` |
| `BoxReaderMC.tla`, `BoxReader.cfg` | its instances for TLC |
| `BoxReaderProofs.tla` | its theorems |
| `SampleQueue.tla` | abstract: what a caller of `MediaDataReader` is promised |
| `MediaDataReader.tla` | `MediaDataReader`, shown to implement `SampleQueue` |
| `MediaDataReaderMC.tla`, `MediaDataReader*.cfg` | its instances for TLC |
| `Subsequences.tla` | the elements picked out of a sequence, as both modules have them |
| `MediaDataReaderProofs.tla` | its theorems |
| `RecordedFile.tla` | abstract: what is found on disk of a recording |
| `Muxer.tla` | `Muxer` with the writers below it and a sink that may stop anywhere, shown to implement `RecordedFile` |
| `MuxerMC.tla`, `Muxer.cfg` | its instances for TLC |
| `MuxerProofs.tla` | its theorems |
| `SequenceLemmas.tla` | lemmas on numbers, sequences of any elements, recursive sums and walks, which the proofs share |
| `FileContents.tla` | a file as the structure-data layer sees it: boxes, what they declare, and the samples as they truly are |
| `CompressedBoxes.tla` | `CompressedBoxes`: the offsets that compressed boxes move, as operators |
| `StructureData.tla` | the calls of `StructureDataReader`, as operators on its value |
| `StructureDataReader.tla` | those calls under a caller that reads, seeks, and stops when refused |
| `StructureDataReaderMC.tla`, `StructureDataReader*.cfg` | its instances for TLC |
| `StructureDataProofs.tla` | its theorems, and those of the compressed boxes below it |
| `Demuxer.tla` | `Demuxer`: the structure-data, the media data and the boxes put together |
| `DemuxerCallers.tla` | its callers: the two of the documentation, and one that does as it pleases |
| `DemuxerCallersMC.tla`, `DemuxerCallers.cfg` | their instances for TLC |
| `DemuxerProofs.tla` | the theorems of the demuxer and its callers |
| `FastStart.tla` | `FastStart`: reads a file, lays it out again with its `moov` in front |
| `FastStartMC.tla`, `FastStart.cfg` | its instances for TLC |
| `FastStartProofs.tla` | its theorems |
| `Timeline.tla`, `TimelineMC.tla`, `Timeline.cfg` | `Timeline` and `Presentations`: a sample through the edit list of its track |
| `SampleTables.tla` | the tables of an `stbl`, filled and read, as operators |
| `SampleTableWriter.tla`, `SampleTableWriterMC.tla`, `SampleTableWriter.cfg` | `SampleTableWriter` over them, and the movie it finishes, read back and presented |
| `BoxWriter.tla`, `BoxWriterMC.tla`, `BoxWriter.cfg` | `BoxWriter` event by event, and reserved space |
| `BoxWriterProofs.tla` | its theorems |
| `BoxFields.tla` | the kinds of fields a box is laid out of, and the rules values obey |
| `BoxCodec.tla` | encode, decode and `encoded_len`, as operators on a layout |
| `FileBoxes.tla`, `MovieBoxes.tla`, `TableBoxes.tla`, `SampleEntryBoxes.tla`, `TrackBoxes.tla` | the layouts of the boxes, one definition per box |
| `BoxSamples.tla`, `BoxCodecs.tla`, `BoxCodecsMC.tla`, `BoxCodecs.cfg` | values for every layout, encoded, damaged, decoded and encoded again |

## 1. The system

Paths are relative to the repository root. `crates/isobmff-core` and
`crates/isobmff-boxes` encode and decode the fields of boxes; `crates/isobmff`
holds the machines that frame boxes, keep the structure-data (`moov`, `moof`,
`sidx`, ...) and gather media data; `crates/isobmff-mux` composes them into a
`Muxer`, a `Demuxer` and a `FastStart`. Nothing is concurrent inside of the
library: every machine is a value whose methods take `&mut self`. What
interleaves are the calls, and at the far end the sink that writes a muxer's
outputs and may stop between any two bytes of them.

### Components

**BoxReader** (`isobmff/src/framing/box_reader.rs`). Frames the boxes of a file.
*State*: the file offset wanted next, a progress of five variants (a header being
read; opened, waiting for the caller's answer; its payload being read; gathered;
failed), the header of the box, the bytes gathered, and whether the file has
ended. *Operations*: `handle_input(offset, bytes)` returns one event at most;
`gather`, `gather_head`, `stream`, `skip` answer an opened header; `finish`.
*Used by* the `Demuxer` and `FastStart`. *Hard*: input cut anywhere, in the
middle of a header of unknown length too; input passed again; boxes that run to
the end of the file and have no length; offsets of 64 bits that saturate; a box
that stays gathered until the next call and no longer. *Correct when* the boxes
a caller sees do not depend on how the input was cut, it holds nothing it was
not asked to, wants nothing it skips, and comes to an end.

**MediaDataReader** (`isobmff/src/media_data/reader.rs`). Gathers the bytes of
samples. *State*: a queue of locations, each with its data (allocated at its
first byte) and the runs of bytes still missing, the tracks discarded, limits.
*Operations*: `handle_sample_locations`, `handle_input`, `poll_sample`,
`wanted_input`, `clear`, `discard_track`, `finish`. *Hard*: pieces in any order,
overlapping samples, samples that share bytes, memory that runs out while the
piece at hand is needed by several samples. *Correct when* samples come out in
the order they were located, each whole and with its own bytes, the memory
stays within its limit, and a caller that takes samples always gets further.

**Muxer** (`isobmff-mux/src/muxer.rs`, `muxer/recoverable.rs`). Writes a file of
one of four structures: not fragmented (samples declared by a `moov` at the
end); recoverable (written as a fragmented file, laid out again at the end by a
`moov` and a header written over a placeholder, so a crash loses nothing);
fragmented, with or without an `mfra`; a segment, with or without a `sidx` over
space reserved for it. *State*: the box writer's offset, the writer of the
structure-data, the outputs not polled, the reserved spaces, whether finished.
*Operations*: `handle_file_type`, `handle_movie`, `handle_samples`, `finish`,
`poll_output`, `file_structure`. *Hard*: a sink that stops; a call that fails
after it has written something; offsets that count lengths of boxes not written
yet; indexes that name boxes by where they lie. *Correct when* the boxes lie end
to end, every sample accepted is found, at every moment, and refusals leave no
trace. (Two refusals do: see the divergences.)

**BoxWriter, reserved space** (`isobmff/src/framing/box_writer.rs`,
`reserved.rs`). Writes boxes, whole or event by event, and counts file offsets;
reserves space as a `free` box and fills it later. *State*: open, writing (with the
header, its offset and the bytes written of it), past the end of the file, or
finished; the next offset. *Correct when* a box is as long as its header says,
whatever events were refused in it, and what is filled in covers what was reserved.

**MediaDataWriter** (`isobmff/src/media_data/writer.rs`). Writes one `mdat` of
the samples of a call, end to end. No state between calls.

**MovieFragmentWriter, SubsegmentTable, RandomAccessTables**
(`structure_data/writer.rs`, `movie_fragment.rs`, `segment_index.rs`,
`random_access.rs`). Write a `moof` for the samples of a call, and collect what
the `sidx` and the `mfra` are to list. *State*: the sequence number, the
subsegments and when the last one was presented, the sync samples. *Hard*:
lengths that must be known before the boxes they count are written; the
duration of a subsegment is known only when the next one comes.

**SampleTableWriter** (`structure_data/writer.rs`, `sample_table.rs`,
`sample_table/sample_flags.rs`, `sample_description.rs`). Collects the tables of a
`moov`: run-length coded durations and offsets, sizes, chunks, flags; and gives the
movie edits and durations of its own once it is finished. The same file reads
tables, whoever wrote them, and gets past tables that disagree. *Correct when* it
takes exactly the samples that follow on from those before, declares each where it
lies, and presents each when the movie it was given did.

**Demuxer** (`isobmff-mux/src/demuxer.rs`). Composes a `BoxReader`, a
`StructureDataReader` and a `MediaDataReader`: it answers each header, hands the
gathered boxes to the structure-data reader and the locations this returns to
the media-data reader. *State*: theirs, a failure that sticks, what was
discarded. *Operations*: `handle_input`, `finish`, `poll_sample`, `resume_at`,
`discard_track`. *Hard*: an event and a refusal of the media data in the same
call; seeking with state kept and state dropped.

**StructureDataReader** (`structure_data/reader.rs`). Resolves the samples of
`moov` and `moof` boxes to locations. *State*: the movie, the decoding time each
track has reached, samples whose `imda` box has not come, limits.

**CompressedBoxes** (`structure_data/compressed.rs`, `framing/compressed.rs`).
Shifts offsets that were written before boxes were compressed.

**FastStart** (`isobmff-mux/src/fast_start.rs`). Lays a file out again with its
`moov` in front: moving it moves offsets, which may widen a table, which
lengthens the `moov`. *State*: the boxes placed so far, the box being gathered, the
offset wanted, the `moov`, the pieces left to put out, a failure. *Operations*:
`handle_input`, `finish` (once the file has ended it is laid out), `poll_output`,
`wanted_input`. *Correct when* every byte comes out once and every offset names the
byte it named before.

**Timeline** (`isobmff/src/timeline.rs`). Maps composition times through edit
lists. *State*, of the iterator: a stage (whole passes over a repeated list, the last
pass, the edit after the list, done). *Hard*: a repeated list is not walked, the next
pass in which an edit presents the sample is computed; movie times are rounded to media
times, so an edit lasts a tick more in some passes. *Correct when* it returns what
walking the list would.

**Box codecs** (`isobmff-boxes`, `isobmff-core`). `encode`, `decode` and
`encoded_len` of some 220 kinds of boxes. *Hard*: a length that is announced before the
fields are written, versions and flags that change the layout, fields of a width that an
earlier field gives, boxes inside that no field claims and that must be kept.
*Correct when* what is encoded decodes to the value it was, in the length announced.

**File-level dispatch, limits and other plain values**, **examples, fuzz targets, test
support**.

### How they interact

```
 caller ── input ──> Demuxer ── input ──> BoxReader ── boxes ──> StructureDataReader
   ^                    |                                             | locations
   └──── samples ───────┴───────────── MediaDataReader <──────────────┘

 caller ── samples ─> Muxer ─> MediaDataWriter, MovieFragmentWriter | SampleTableWriter
                        |             └── BoxWriter, reserved space
                        └─ outputs [offset, bytes] ─> sink ─> disk ─> (a Demuxer)
```

Every arrow is a method call that returns; there are no callbacks and no
threads. A machine never waits: it says what input it wants, and it is up to the
caller to pass it.

## 2. What is modelled

Common to all: a byte of a file is named by its **file offset**, so "the right
bytes" is equality of sequences of numbers; contents, field layouts, and every
kind of error value are left out (an error is a failed or refused call). A call
that is refused *and changes nothing* is a stuttering step where nothing is
claimed about refusals (`BoxReader`), and an explicit step that sets `result`
where something is (`MediaDataReader`, `Muxer`).

Definitions marked `slip` in their comment are not part of the model: each is a
plausible mistake in the code next to the definition it would replace. A property
listed in `PROJECT.json` was seen to fail with one of them in that place.

### BoxReader

`position`, `progress`, `needed`, `box`, `answer`, `gathered`, `atEndOfFile` are
the fields of the struct and of its enum `Progress`; `seen` records what the
calls returned and nothing reads it. A file maps *every* offset to a header, so
what the code finds there is decided whatever path led to it; a header has its
own length (known from its first `ShortestHeader` bytes, 8 in the code) and a
total, or runs to the end of the file. `HandleInput(offset, upTo)` is
`handle_input` for any piece that starts at or before the wanted offset, with
`read_header` and `read_payload` below it, one operator per answer; `Respond` is
the four answers; `Finish` is `finish`. `BoxEnd` saturates at `MaxPosition` as
the code saturates at `u64::MAX`.

`BoxFraming` is what this is for. It has the file and `seen` only, no cuts and
no buffer: boxes open, are answered, deliver the payload asked for, close, and
the framing is refused in exactly the cases that depend on the file alone.

### MediaDataReader

`held` is the queue of `HeldLocation`s, `discarded` the tracks; `taken` and
`result` record what calls returned. `Scripts` are the lists of locations still
to be handed over: they may overlap, share bytes, be empty, inverted, or too
long. `HandleInput` is the whole loop of the call: what is allocated, for which
samples it is refused, what each filled sample still lacks (`LeftOf`), and that
the call fails only where it keeps nothing. Memory is a set of cells, a sample and an offset
each (`InMemory`), so `Allocated` is a cardinality, not a sum. `SampleQueue` is the promise: lists
held together or not at all, samples taken whole in order.

### Muxer

The disk is a sequence of cells; the first byte of a box carries its header and
what a reader finds in it, media bytes carry the sample they belong to. An
accepted sample is a number. `Write` is the sink: it polls an output and writes
it **byte by byte**, so *a crash is any state*, and whatever holds of `disk` in
every state holds after a crash. Bytes that go over a `free` box are written
together (see the bounds). `HandleSamples` is the whole call in each structure,
with the writers below it: `Located` and `MediaData` (media data writer),
`FragmentRefuses`, `CountFragment`, `Fragment`, `DataOffset` (movie fragment writer),
`ReferencesWith`, `SegmentIndex` (subsegment table), `ListedSync` (random access
tables), `TablesRefuse`, `TablesAfter`, `TableMovie` (sample tables).
What a reader makes of a disk is `TopLevel`, `Declared` and `Kept`: boxes end to
end, the samples the first `moov` and the `moof`s declare, those of them whose
bytes are there. `RecordedFile` is the promise: a reader finds the first so many
of the accepted samples and never loses one again.

Two calls may be refused *after* the muxer has changed, and both are actions. `LoseMovie`:
the movie of a recoverable file does not write, its placeholder is counted and its
`free` dropped. `LoseFragment`: the flags or the composition offset of a sample fit no
field (`encodes`), so the `moof` does not write; by then `CountFragment` has numbered
and indexed the fragment and counted the space for the `sidx`, whose `free` is dropped
with the `moof`. In a file that is not fragmented such a sample is taken, and the `moov`
fails at `finish`. The history variable `lost` counts the `free` and the `moof` boxes lost so; it
guards nothing but the bound `MaxLost`, and the properties that cannot hold behind a
lost box say so by it.

Not in `Muxer`: the codec configuration of sample entries (one per track),
the edit lists but for where the first edit starts, stream access points of
subsegments, reserved space filled short of its length (the muxer always fills
it whole), and the outputs a caller never polls.

### FileContents, CompressedBoxes, StructureData, StructureDataReader

`FileContents` is a file before any reader: a sequence of boxes, each with its
payload in the file and the payload it reads back to (another where the box is
compressed), and the runs of samples it declares, each by *where its media data
truly is*: so many bytes into the payload of that box. `Declares` derives the
offsets a writer puts down for that, in the file as it reads back, by the base
the run takes (given, the `moof`, the end of the run before, an `imda`).
`TrueSamples` are the samples with their true times and places. The readers get
what is declared, and the properties compare with what is true: a reader that
resolves an offset by the wrong rule, or in the wrong domain, is found out.

`CompressedBoxes` is the record `compressed.rs` keeps: boxes in the order they
lie, each with its place in the *uncompressed domain*, the file as it would read
back. `Uncompressed` and `InFile` go from one to the other; `Record` inserts a
box where it lies and places those after it again.

`StructureData` has the reader as a value and each call as an operator that
gives `[answer, reader, samples]`, so that the `Demuxer` can use them inside a
call of its own. `HandleRuns` is what `handle_movie` and `handle_movie_fragment`
share: `Resolve` is `resolve_fragment`, one track fragment after the other (a
`moov` is a list of runs with given bases and no `tfdt`), `Place` splits the
samples into those located and those that wait for their `imda`, `Locate` sorts
them and moves them into the file. The order of the checks is that of the code,
and a refused call gives the reader back as it was, but for `transformed`, which
`record` sets before it refuses.

`StructureDataReader` is the caller: `Tell` of a compressed box, then `Read` the
box it replaces; `ResumeAt` any box after the `moov`, forward or back. `given`
and `read` record what the caller got and handed over since the last seek, `handed` and `met` what it
ever handed over or told of.

### Demuxer

The reader of boxes is `open`, `position` and `atEnd`: `BoxStep` says what input
up to an offset comes to (nothing, or one event, after which the rest of the
input waits for the next call), which is what `BoxReader` was shown to promise
for a box skipped, gathered, or gathered by its head. The reader of structure-data
is the value of `StructureData`, the reader of media data is
`MediaDataReader` itself, by `INSTANCE`, its operators applied to `held`: `HandleInput` first takes a step of the
boxes, hands the samples located to the media data (`Close`, `InThisFile`), and
then *the whole input again* to the media data (`Gathered`), whatever became of
the boxes; an event wins over a refusal of the media data, a failure of the boxes
over both. `Finish`, `PollSample`, `DiscardTrack` and `ResumeAt` are the other
calls. A failure sticks: `answer` is the failure from then on.

`DemuxerCallers` has three callers. The freest (`caller = "any"`) passes any piece of the
file that starts at or before the wanted offset, in any order, again and again, resumes
and discards tracks. The two of the documentation are loops with a `turn`: pass a
piece, take the samples, and then decide what to pass next (`Seek`: from where
bytes are wanted; `Follow`: the piece again, or the next).

### FastStart

`boxes`, `gathering`, `position` are what it has read, `movie` the tables of offsets of
the `moov`, `pieces` and `passed` the layout it puts out, `laid` the bytes put out: a byte
passed through is named by its offset in the file read, the k-th byte of the `moov` laid
out again by -k. `HandleInput` frames boxes as `BoxReader` was shown to, refuses by type,
gathers `moov` and `meta`; at the end of the file `LayOut` decides whether the
`moov` moves, and moves every offset into this file by the boxes that pass it, widening
tables until no offset needs it (`WideAfter`). Passing the file through in its new order
follows, from any offset before the one wanted.

### Timeline

`track` and `composition` are the arguments, `stage` the enum `Stage`, `returned` what
the iterator returned; a step is one turn of the loop of `Presentations::next`. The
computation of the next pass (`FirstPass`, `FirstInRange`, `FirstMultipleInRange`) is
translated as it is. The property lays the edits of every pass out one by one and asks of
each media tick whether it is presented.

### SampleTables, SampleTableWriter

`SampleTables` has `TrackTable` as a value (`PushChunk`, `Fill`) and the samples that
tables declare (`Resolve`, a fold over the chunks, with `ReadSample` for one sample and
`NextMarks` for the `stss`). `SampleTableWriter` is the machine: `HandleLocations` takes a
call of samples of up to two tracks, splits it into runs of samples that lie one after
another, or refuses all of it; `Finish` fills the tables and gives the movie its
durations and edits; `Read` reads every table. The other initial states have tables
that nobody here wrote. `PresentedAsGiven` takes the presentations of `Timeline`, by
`INSTANCE` with the track and the sample as parameters.

### BoxWriter

The file is a sequence of cells: a header is one (two where it has a largesize), the rest
is payload. `Taken` and `After` are `handle_event`, for any event in any state; `WriteBox`
is the three events of a whole box; `WriteReserved`, `Fill` and `MediaDataHeader` are the
spaces. `given` is what a reader is to find: the boxes the caller ended, each with its place,
its payload and its length; a space that is written over is replaced in it by what was put
there. A cell is 8 bytes, so that `fill` leaves nothing of a space, or enough for the header of
a free box. A space is at most `CompactTotal` long: past
32 bits `reserve` announces more than it writes (see the known disagreements).

### Box codecs

A layout is a sequence of fields, each with a kind (`BoxFields`: numbers, bits, text,
counted entries, parts by flag, version or variant, child boxes) and the rules that tie it to
other fields (`Ruled`). Each box is one definition, `layout` from its `decode` and
`encode`, `length` from its `encoded_len`, which the code computes by a sum of its own.
`BoxCodec` interprets a layout: `Decode` and `Encode` give a set that is empty when they
refuse. A payload is the bytes before the child boxes and the child boxes: how a box is
framed is in `BoxFraming`. `BoxSamples` makes values for any layout from a few seeds: every
number zero, one, all ones and half of its width; no, one and two entries; each
version and variant; and in turn each field with what its encoder must refuse.
`BoxCodecs` encodes such a value, decodes it, or first damages the payload (cut, changed or
lengthened bytes; child boxes missing, twice, reversed, empty, or of a type nobody
knows), and encodes what was decoded again.

## 3. What the runs check

| run | states | question |
| --- | --- | --- |
| `BoxReader` | 15 422 | is the reader a framing, whatever the cuts and answers, and does it end? |
| `MediaDataReader` | 17 423 | is it a queue of whole samples, within its limits? |
| `MediaDataReaderStalls` | violated | can it be left with samples none of which can be taken? |
| `Muxer` | 184 574 | is every sample on disk, at every moment, in every structure, whatever calls are refused? |
| `StructureDataReader` | 124 819 | is every sample located once, at its time and place, through compressed boxes and seeks? |
| `StructureDataReaderStale` | violated | ... and after a seek back over an `imda`? |
| `DemuxerCallers` | 13 622 | are samples true and complete whatever a caller passes, and do the callers of the documentation read every sample, and stop? |
| `FastStart` | 40 726 | does every byte come out once, and every offset follow its byte? |
| `Timeline` | 180 035 | does jumping over passes present what walking through them would? |
| `SampleTableWriter` | 130 590 | do the tables written read back, and present every sample when the movie given did? are other tables read as they state? |
| `BoxWriter` | 123 566 | does a reader find the boxes given, whatever events were refused and spaces written over? |
| `BoxCodecs` | 480 331 | does every box decode to the value it was encoded from, in the length announced? |

**BoxReader**: `ImplementsFraming` (the events are those of `BoxFraming`, however
the input is cut), `GatheredIsOneRun` (what is gathered is one run of the file
from the box's first byte: nothing missing, twice, or left over from the last
box), `GatheredWithinAsked` (no more memory than was asked for, for a box of
unknown length too), `NeverWantsSkipped` (a caller that seeks is never sent to
skipped bytes), `NeverGoesBack` (a caller that cannot seek may drop what it
passed). `Ends`: under the fair caller, reading ends or fails.

**MediaDataReader**: `ImplementsQueue`, `WithinLimits`, `MissingIsBlank` (the runs
a sample lacks are exactly the bytes that have not arrived, in order and apart),
`NoSilentStall` (a call given wanted bytes takes some or fails aloud). `Gathers` (every
sample is taken in the end) is what `MediaDataReaderStalls` refutes; that samples
located in the order they lie are all taken is part of `DemuxerCallers`.

**Muxer**: `ImplementsRecording` (no sample found is ever lost, the layout of a recoverable
file included, also behind a gap); `EndToEnd` (boxes end to end, wherever writing stopped,
while no `free` is lost), `AllKept` (then none accepted is missing once outputs are on disk, lost
`moof`s or not, and `file_structure` says what is on disk), `OverwritesFree` (then only free space
is written over); `IndexesPoint` (`mfra` and `sidx` name boxes that are there and hold what they say,
the durations of the `sidx` put each subsegment where its samples of the first track are,
through gaps, overlaps and fragments without any, and refused calls use up no sequence
number, which wraps: all while no `moof` is lost); `RefusedOnlyLoses` (a refused call takes nothing, puts
nothing out and ends nothing, and changes the muxer only where it loses a box: the next offset by
the placeholder or the space for the `sidx`, exactly, and the references by one). What such calls
break is among the divergences below.

**StructureDataReader**: `EachOnceInTime` (every sample of the boxes read since
the last seek has been returned, or waits, at its true decoding time, and none
else: none lost, none twice, none timed by what was known before the seek),
`PlacesTrue` (a sample is located at its media data once every compressed box
that can move it has been met), `RefusedForCause` (a file as a writer lays it out
is refused for a limit, or what the documentation names, and never
otherwise), `KeepsWhatItMet` (every index and `imda` handed over and every compressed box told of is
kept once, the latter in order and as they lie, through every seek, and never past the limits),
`PlacesInvert` (outside of compressed boxes the two domains name the same bytes, in any
order the boxes were met).

**DemuxerCallers**: `TakenTrue` (a sample taken is one the file has, at its time, with the
bytes that lie where its media data lies), `InOrderLocated` (what is taken and what
is held are together the samples the events located, in that order),
`CompleteAtEnd` (when `finish` returns neither event nor failure, no sample of the
boxes read is missing), `GoesBackToLocated` (the wanted offset goes back only for
samples a box has just located), `NeverRefused` (the pieces of neither caller of the
documentation start past what is wanted), `KeepsItsInput` (a piece that the sequential caller leaves
behind holds no byte a located sample lacks, except for one the failing call had no room for; where a
sample lacks a byte of a piece before, which that caller cannot pass again, nothing is said),
`ReadsAll` (a sound file is read to its last sample, by the caller that cannot
seek where boxes come before their media data, by the one that can wherever they
lie, within `HeldBytes` for the longest sample), `Stops`.

**FastStart**: `KeepsEveryByte`, `OffsetsFollow` (an offset into this file names the byte it
named before, behind the `moov`; offsets into other files stay; each fits its table; the
`moov` is as long as all of this was reckoned with), `RefusedForCause` (a failure is one the
documentation names, and a file laid out whole had nothing to refuse), `Ends`.

**Timeline**: `PresentsAsLaidOut` (the presentations returned are those of the edits laid out
one by one, in order and without overlap, and the iterator ends).

**SampleTableWriter**: `PresentedAsGiven` (every sample taken is read back from the finished
movie, where its media data lies, with its duration, offset and flags, no table
disagreeing with another, and is presented at the times the movie given presented it:
though that had fragments, an edit open to the end of the media, a first sample at a later
time, or a list repeated for ever), `ReadAsStated` (whatever tables state, each sample is
made of what each table states of it on its own, and each disagreement is reported by its
number).

**BoxWriter**: `FramesWhatWasGiven` (a reader finds the boxes given, and what is reserved,
end to end; the next box starts where `next_offset` says; and a box that is open can be
brought to its end whatever was refused in it).

**BoxCodecs**: `ReadsBack` (also of a value that was decoded from a damaged payload: what is
read can be written, and read as the same), `LengthTold` (an encoder never refuses a value
because the length it announced was wrong), `ChildrenKept` (boxes inside that no field
claims are kept through a decode and an encode).

`CHECK_DEADLOCK FALSE` in all but `DemuxerCallers`: an ended reader, a
finished muxer with nothing left to write, a caller without anything to hand
over, a file laid out, a value encoded again really stop. The callers of `DemuxerCallers`
stop with a step of their own, and TLC checks that nothing else stops them.

### Bounds, and why they are enough

* *BoxReader*: files of two boxes in 7 bytes with `MaxPosition` 8, headers of 2 or 3
  bytes, totals below the header, exactly the header, with payload, past the end
  of the file, saturating (8) and to the end of the file; every length of the
  file and either start. Two boxes suffice: the reader keeps nothing of a box
  but its gathered bytes, which go with the next call, and the second box starts
  in each state the first can leave. Limits and heads lie below, at and above the
  payloads. The proofs remove all of these bounds.
* *MediaDataReader*: two lists of two locations out of five over 5 bytes: shared
  bytes, adjacent, empty, too long, across two tracks; at most 3 held
  (`HeldLocationCount`) and 4 bytes allocated (`HeldBytes`), so both limits are
  met with one and with two samples allocated. Every piece of input is passed in
  every order.
* *Muxer*: a header is one byte and the payload of a `moov` another; a 32-bit size
  reaches to 4 (`CompactTotal`), so an `mdat` is compact or large; `DataReach` and
  `ReferenceReach` are set so that the largest call passes the first and fails
  the second; 3 sequence numbers wrap within 4 samples (`MaxSamples`);
  `HeldLocationCount` 3 is passed by the fourth. The calls offered follow on or do not, name
  unknown tracks, hold samples without bytes. Calls wait while more than
  `MaxPending` outputs are not on disk, which cuts only how far the sink lags
  behind; a crash loses what lags behind whatever its number. Refused calls lose at
  most two boxes (`MaxLost`): one behind another, or one on each side of samples that are taken.
  Segments of one and of three subsegments have calls of their own (`LongerIndexes`), with
  times that go back and leap.
* *StructureDataReader*: files of five or six boxes: a `moov` with or without
  samples, two fragments, their media data before or after them, an `otyp`, a `sidx`, an
  `mfra`, a pause, another file. The boxes that may be compressed are so in every
  combination, growing, shrinking or neither. Each base of Table 6 occurs first and
  second, a `tfdt` is absent, follows on, leaps and goes back. Limits are at what
  the files need and one below (`LeniencyCount` 1, `CompressedBoxCount` 2,
  `UnresolvedCount` 2). A caller resumes anywhere after the `moov`, but not before an `imda` it
  has met, which is refused (`BackOverImda`, TRUE in `StructureDataReaderStale` only). `MaxPosition` 40 lies past every file: offsets out of range
  come from offsets below zero and from replaced boxes.
* *DemuxerCallers*: one file per situation (`DemuxerCallersMC`): boxes before, after and between
  media data, shared bytes, media data in another order than declared, another file,
  `imda`s before, after and to the end of the file; a second `moov`, a `moov` past the
  limit, files cut short, and one whose `moov` declares a sample before it and more behind than memory is
for (`Split`). Headers and identifiers are one byte. Pieces start
  and end anywhere, up to the whole file (`PieceBytes`). `HeldBytes` 2 is memory for the
  longest sample, and not for two.
* *FastStart*: four boxes at most (`BoxCount`, which a file of five passes), in every order of
  `ftyp`, `moov` and media that matters, one or two tracks of one or two tables whose
  offsets take every value; `CompactReach` 9 lies among them, so that a table is widened for
  an offset that moved only because another was (`Cascade`); files cut short by a byte and
  boxes to the end of the file. Entries of a table are one byte, two where it is wide.
* *Timeline*: lists of up to three edits, empty, dwelling, open and of no duration, in
  pairs of timescales with and without a common divisor, so that an edit is a tick longer in
  some passes; samples before, across and behind the edits, of no duration, and late; `MaxTime` 15 ends lists repeated
  for ever after two to eight passes, more than the period of the rounding.
* *SampleTableWriter*: three samples (`MaxSamples`) in calls of up to two, of two tracks;
  `MaxCount` 2 breaks runs of equal values as 32 bits would, sizes and offsets lie on both
  sides of `CompactReach`. A call has no more than `MaxCount` samples (`CallAssumption`): past
  2^32 the code counts too few samples in the chunk. The 6 480 other tables combine short,
  long and empty tables, runs of chunks that start late, go back or name what is not
  there, marks out of order, and offsets that pass `MaxPosition`.
* *BoxWriter*: files of a few boxes and spaces, payloads around what a header declares and
  around `CompactTotal` 3, every event in every state.
* *BoxCodecs*: a number is four values, a list has up to two entries, a payload is damaged in its first
  8 bytes (`Reach`) and its last. A codec treats entries alike, by a loop without state, which
  a third entry does not change; numbers decide lengths and cases only by being 0, 1 or large.
* *A box of the Demuxer has a byte of payload*: one without is gathered whole with its header, which `BoxReader` covers.
* *Bytes over a free box are written together*: the placeholder of a recoverable
  file is 16 bytes and the `sidx` goes over space no reader reads before; the
  repository makes no promise for a header torn in the middle.

### Fairness

`Timeline` (for the end in `PresentsAsLaidOut`): weak fairness of the iterator's turns, a
loop without a wait. `FastStart` (for `Ends`): weak fairness of the loop the
documentation shows (`Serve`): it passes what is wanted, or calls `finish` where the file ends.
`BoxReader` (for `Ends` alone): weak fairness of passing wanted input, of answering headers and of
`finish`. These are the three things the documentation of `BoxReader` has its
caller's loop do, and nothing in the code can withhold them. Passing input
means *at least one* wanted byte; a caller that passes ever shorter old input is
not fair and need not end. `MediaDataReaderStalls`: weak fairness of
handing over locations, of `poll_sample` where it returns a sample, and of
passing the wanted run, the loop of the documentation. `DemuxerCallers`: `GoesOn`, that the caller takes steps for ever or stops. Each of its
steps changes the turn or takes a sample, and TLC finds a step in every state (deadlock
is checked), so this is weak fairness of the whole next-state relation; it is written
without `ENABLED`, which TLC evaluates too slowly here. The loops have no other thread
to wait for. No fairness is assumed
of the muxer: its properties are safety, its sink may stop for ever.

### Divergences

1. **A sample can take the memory another needs** (`MediaDataReaderStalls`).
   Memory goes to samples in the order they are held *within a call*, input is
   wanted in the order of the *file*. A sample held later that lies earlier is
   allocated first; with both past the limit the first held gets none, and the
   one allocated is not at the front, so no sample can be taken. The
   documentation has the caller "take samples with `poll_sample` and pass it
   again": there is none to take. `DemuxerCallers` shows callers
   succeed at such a limit where samples are located in the order they lie, as the tracks of a file
   interleave them.
2. **The place of an `imda` goes stale** (`StructureDataReaderStale`). It is kept as
   an offset of the uncompressed domain by the compressed boxes known then. A caller that seeks
   past a compressed box, reads an `imda`, seeks back and reads the compressed box
   (which no sample located yet forbids) has moved that domain; samples then
   declared in the `imda` are located off by what the box grew, without an error.
   The run `StructureDataReader` shows that a caller who never seeks back over an `imda` is not affected.

Known disagreements that have no run of their own. The run `Muxer` includes the first two, and its
properties say exactly how far they reach; the runs of the others leave the case out by the bound named.

* Samples whose `moof` does not write are refused too late (`muxer.rs:452`). "A
  refused call leaves the muxer as it was" (`muxer.rs:45`), but `movie_fragment` has by then
  advanced the sequence number, the references of the `sidx` and the sync samples of the
  `mfra` (`structure_data/writer.rs:220`), and the space for the `sidx` is counted and
  taken as reserved (`muxer.rs:447`), while the outputs of the call are dropped (`LoseFragment`). A caller that
  goes on gets a file that skips a sequence number, an `mfra` that may list a `moof` that is not
  there, and a `sidx` that counts a subsegment that is not there; of an indexed segment whose first call
  is the one refused, the next `moof` lies behind a gap, and the `sidx` is written into it at the
  end. A segment of one subsegment finishes with a `sidx` that names nothing. The samples of the other
  calls are declared where they lie, but behind the gap no reader finds them until the `sidx` fills it.
  `IndexesPoint` holds while `lost.moof = 0`; without that condition TLC violates it.
* A refused movie leaves a gap (`muxer.rs:350`). The placeholder of a recoverable
  file is counted before the `moov` is written; when that fails the next offset keeps
  the 16 bytes (`LoseMovie`), and the movie offered next comes behind them, where no reader finds it,
  although boxes come "each at the end of the boxes before it" (`muxer.rs:470`).
  `EndToEnd` holds while `lost.free = 0`; `LiesEndToEnd` as an invariant of `Muxer.cfg` is violated.
* A failing call drops what it had no room for (`demuxer.rs:199`). Bytes of a sample
  past `held_bytes` are usually wanted again after samples are taken; when the same call fails on a
  box, nothing is wanted again, although "those of the failing call" are promised.
  `KeepsItsInput` excepts that sample, and shows that nothing else is lost.
* Stopped between its last two outputs a recoverable file has two `moov`s (`muxer.rs:494`). "A
  sink that writes the `moov` but not the header leaves a fragmented movie file whole"; the
  reader of the repository refuses the second `moov` (`structure_data/reader.rs:195`). No
  sample is lost, as `ImplementsRecording` shows: the samples come before the refusal.
* `reserve` of a total past 32 bits returns "the bytes of a `free` box of `total_bytes`"
  whose header, a large one, announces 8 bytes more (`reserved.rs:43`, `with_payload_len` of the
  total less 8); `write_reserved` is then refused at its end and leaves the box open. With a total
  above `CompactTotal` in `Totals`, `FramesWhatWasGiven` fails.
* A last sample of no duration, composed at the end of an open last edit of a movie that was fragmented, is
  presented there for no time and not at all once the edit is ended
  (`structure_data/writer.rs:431`). `PresentedAsGiven` compares presentations that last. A dwell
  that is open likewise gets a duration it did not have; no movie of the run has one.
* An `ftyp` that runs to the end of the file behind its `moov` makes `FastStart` refuse the offsets
  as out of the file, not the `ftyp` (`Causes` names the case). Only one that names the first byte of the next box
  gets by: it becomes the largest offset there is (`fast_start.rs:612`).

Met, but as a unit test has it, so no divergence: an `imda` read again after a seek back
is refused as a duplicate, where a `sidx` or a compressed box read again is kept once.

## 4. What is proved

`BoxReaderProofs` holds for every file, every cut, every answer and every value of
`MaxPosition` and `ShortestHeader`, from the assumptions of `FileLayout`: offsets are
naturals up to a maximum, the shortest header is not empty, `ToEnd` is not a
number, limits and heads are naturals, and every file maps offsets to headers no
shorter than the shortest and is shorter than the maximum offset.

* `Invariance`: `Spec => []IInv`. None of the properties is inductive alone: what
  `ReadGathered` appends is a continuation of the run only if `gathered` ends at
  `position`, and a close reports the payload of the file only if `seen.offset` is
  the box being read. `IInv` says, per variant of `progress`, how `gathered`,
  `position` and `needed` relate to each other *and* to `seen`: `HeaderInv`,
  `OpenedInv`, `PayloadInv` with one part per answer (`StreamInv`, `GatherInv`,
  `HeadInv`, `SkipInv`), `GatheredInv`. `HeadInv` needs two cases, a head of no bytes having moved
  past its box at once; `GatherInv` needs that what is gathered fits its limit, so
  that one byte past it is where the failure falls however the input is cut.
* `TypeCorrect`, `OneRun`, `WithinAsked`, `SeeksPast`: `TypeOK`,
  `GatheredIsOneRun`, `GatheredWithinAsked`, `NeverWantsSkipped` follow from `IInv`.
* `Implements`: `Spec => ImplementsFraming`. Each step is one of `BoxFraming` or
  leaves `seen` alone; there is one lemma per way a call ends (`ReadHeaderStep`,
  `ReadStreamedStep`, `KeepStep`, `CloseStep`, ...). Runs of bytes are
  handled by `BytesConcat` and `BytesSuffix`: two runs that meet are one.
* `Forward`: `Spec => NeverGoesBack`, from the same step lemmas.

`BoxWriterProofs` holds for every set of headers, payloads and spaces, every `CompactTotal`
and a file of every length, from `LengthAssumption` and `HeaderAssumption` of `BoxWriter`: a compact header
holds its total in 32 bits, no header is shorter than itself, and a space has a compact header.

* `Invariance`: `Spec => []IInv`. `FramesWhatWasGiven` is not inductive: a space that is
  written over must still be one box of the file (`ReservedInv`), the cells written over must be clear
  of every other header, the box that is open included (`WriterInv`), and a box put behind the others must
  not end one that runs to the end of the file (`DeclaredInv`). That boxes are end to end is
  kept by three lemmas, about any set of boxes: one more behind the last (`ChainedBehind`), boxes that fill the
  place of one (`ChainedInPlace`, which is `fill`), boxes that fill the file from one on
  (`ChainedFrom`, which is `media_data_header`). There is one lemma per action; `WholeStep`
  shows that a box written whole is refused before its first byte or not at all.
* `FramedAsGiven`: `Spec => []FramesWhatWasGiven`, from `IInv`. TLC found `IInv` to hold on the instance
  of the `BoxWriter` run.

`MediaDataReaderProofs` holds for every limit, every file and every script of calls, from
`ReaderAssumption` of `MediaDataReader`: limits and offsets are naturals up to a maximum, the file is no longer
than that, and what marks a byte as blank is none.

* `InvariantHolds`: `Spec => []IInv`. `MissingIsBlank` is not inductive: that a run of input leaves
  of the missing runs exactly the blank bytes needs the runs to lie in order and *apart*, or two of
  them could lack one byte (`Apart`); that a sample taken is true to the file needs its other
  bytes in their places (`InPlace`); and that a sample without data is not blank for ever needs it to
  lack all of its bytes. TLC found `IInv` to hold on the instance of the `MediaDataReader` run.
* `WithinLimitsHolds`, `MissingIsBlankHolds`, `NoSilentStallHolds`: the three invariants of the run. The memory
  of all samples together is the cardinality of the cells allocated, and what a call may add is
  settled sample by sample in the order they are held, which an induction over the queue follows.
* `QueueImplemented`: `Spec => ImplementsQueue`. Each action is one of `SampleQueue` or leaves the queue
  alone; that a sample taken holds the bytes of its location follows from `InPlace` and
  from its lacking none.

`MuxerProofs` holds for every set of structures and calls, every movie offered, every number of samples, all
lengths of samples, headers and payloads, and wherever the sink stops, from `MuxerAssumption` alone. Calls that are
refused after the muxer has changed are in it. A `free` lost by one of them leaves a gap behind which no box
lies where the invariant says, so it holds until then: `UnlessLost` is what is counted (`Counted`)
and, as long as `lost.free = 0`, `IInv`. A lost `moof` does it no harm.

* `InvariantHolds`: `Spec => []UnlessLost`. What is on disk is a prefix of something the state does not
  hold, so `IInv` says there *is* a file, of boxes end to end (`Boxed`), such that the disk is what it starts
  with and the outputs are what is left of it, one behind the other (`Queued`); a place in it for every
  sample accepted, with its bytes (`Holding`); and boxes that declare these places, each fragment by the
  `moof` before it, or all by the one `moov` that comes last (`Contents`: `InFragments`, `InTables`). A
  space that is to be written over still is a free box of that file (`Spaces`), and the last output may be
  the one that goes over it (`Overlay`). A call makes the file longer behind; the sink takes
  one cell of it, or writes over a free box, which makes another file of the same cells elsewhere
  (`RelaidIs`: the boxes from the placeholder to the `moov` become the one `mdat`, its header compact or large).
* `EndToEndHolds`: the walk of `TopLevel` gets through exactly the boxes of the file that start on disk
  (`TopLevelIs`, by `WalkCollects` of `SequenceLemmas`: an induction down the offsets).
* `OverwritesFreeHolds` and `RefusedOnlyLosesHolds`: the two action properties. The second is not conditional: it says of
  every refused call what it may change, and of those that lose a box by how much (`LoseMovieOnlyLoses`, `LoseFragmentOnlyLoses`).
* `AllKeptHolds`: what `Declared` collects is what the whole boxes up to a second `moov` declare (`FromIs`,
  `BehindIs`, `ReadIs`), which is every sample in a file of fragments whose end is on disk, and in another all of them
  once its `moov` is (`KeptIs`).
* `RecordingImplemented`: `Spec /\ [](lost.free = 0) => ImplementsRecording`. A call gives samples and leaves the disk alone;
  a write never takes one away, since the samples stay in their places in both files, before and after the
  placeholder is written over, and those found are the first, since the places are in their order. As every
  state may be the last before a crash, this is the promise of the muxer to whoever records with it.

`StructureDataProofs` holds for every file, every limit and every way of reading and seeking, from
`StructureAssumption`, `LimitsAssumption` (limits are naturals) and `FilesAssumption`: boxes are as
`FileContents` types them, and a file in which each box is the longer of what it is and of what it reads
back as ends before `MaxPosition`. Without the last, offsets saturate, as the code has it, and two of them
fall together; it holds wherever the
file and what its compressed boxes read back as come to less than 2^64 bytes together.

* `InvariantHolds`: `Spec => []IInv`. That a box is placed from the one before it (`Follows`) holds
  again only because `Placed` goes on from where a box was put in to the last one, and no sum on the way
  saturates only because each place is bounded by what lies ahead of it in the file (`Within`, by
  `Farthest`): that is what the induction of `PlacedKeeps` carries from box to box. `InsertedKeeps` is the
  insertion of a box told of late, `RecordKeeps` the whole call. Above them, one lemma per call of the reader
  says what of `Held` (its limits) and of the boxes recorded it leaves; `HasMet` ties what is kept to the
  boxes handed over and told of. TLC found `IInv` to hold on the instance of the `StructureDataReader` run.
* `PlacesInvertHolds`: between recorded boxes `Uncompressed` lands behind the same box that `InFile` then
  counts from (`RecordedInverts`), and two offsets behind different boxes are in order by the walk from one box to the
  next (`RecordedAscends`).
* `KeepsWhatItMetHolds`: an index that starts where another does is that index (`InvIndexes`), so that
  what `Contains` lets through is never a second one for the same `sidx`.

The proof found an earlier `KeepsWhatItMet` wrong, which said it of the boxes *told of*: a caller that
seeks between the call for a compressed `sidx` and the `sidx` has met it, and the reader has no index of
it. The run now has a compressed `sidx`, and the property speaks of the boxes handed over.

`DemuxerProofs` holds for every file, every limit, any pieces and all calls, from the assumptions of `StructureData`
and `FilesAssumption` of `Demuxer`: boxes are as `FileContents` types them, with a byte of payload at
least, the offsets they declare are integers, and a file is no longer than its boxes; for the callers a piece is of
a byte at least (`PieceAssumption`). Nothing is assumed of where samples lie, of the order in which boxes come,
or that a file is sound: its samples may lie past its end, on top of each other, or be too many.

* `SamplesInOrder`: `Spec => []InOrderLocated`. The property compares what was taken and is held with what the
  events located, but for discarded tracks, and a call tells only what it hands over. `DemuxerInv` adds
  what each call needs to find: that the structure-data reader places its samples at numbers, in what it returns and
  in what waits for an `imda` (`Reading`, from call to call by `Gives`), and that what each held sample
  lacks are runs that lie in order and apart (`Gathering`). `FillIs` then shows that gathering changes neither which
  samples are held nor their order. That what is left of two sequences end to end is what is left of each, and that
  discarding a track twice leaves what discarding it once did, is in `SequenceLemmas`
  (`ThoseConcat`, `ThoseThose`).
* `WantedGoesBackToLocated`: `Spec => GoesBackToLocated`. A step of the boxes goes forward (`BoxStepMoves`,
  `GoesForward`), which needs that the position never leaves the box being read (`Reached`: between its start and where it is
  gathered up to); gathering takes missing bytes away and adds none (`NotBefore`), so the least missing
  offset does not fall. `CallersGoBackToLocated` is the same of `CallerSpec`, which the run checks.
* `CallersNeverRefused`: `CallerSpec => []NeverRefused`, from `CallerInv`: a piece passed without an event leaves the
  boxes wanting what is behind it, one passed with an event is passed again, and from neither does what
  they want go back. That the boxes get to the end of their input where no event came of it is `GoesForward`.
* `SequentialKeepsItsInput`: `CallerSpec => []KeepsItsInput`. After each call, a sample that still lacks a byte of the piece has
  no memory (`NoneOf`, the last conjunct of `CallerInv`: what is allocated took all the piece has of it). Where
  the call did not fail, that byte is wanted (`WantedBefore`), so the first wanted offset lies in the piece,
  which is passed again, or before it.

TLC found `CallerInv`, and with it `DemuxerInv` and `Reached`, to hold on the instance of the `DemuxerCallers` run.

The attempt to prove an earlier `KeepsItsInput`, without `LacksBefore`, failed, and TLC has the reason on the file `Split`: a sample
declared behind is wanted first, and the caller that cannot seek does not pass the piece again
for those ahead that memory had no room for. The documentation promises that caller the files whose `moov` and `moof`s come
before their media data only, so the property was wrong and not the code; the file is in the run now.

`FastStartProofs` holds for every file, both limits, and a file passed in any pieces, from `LimitsAssumption` (limits
and offsets are naturals) and `FilesAssumption` of `FastStart`: boxes and tables are as the module types them, every
box starts in the file, and the last ends with it or behind it; one that runs to the end of the file ends with
it. Nothing is assumed of the offsets in the `moov`, which may name no byte of the file, nor of its boxes.

* `InvariantHolds`: `Spec => []Inv`. Before the end nothing is laid out, and the boxes met are those of the
  file, read as far as the input went, none refused (`Reading`, `Accepted`). Once it is reached, `Lies` holds of the
  pieces: what is laid out, byte for byte and the bytes of the `moov` laid out again with it, and what is still `Coming`
  of the pieces are together all that the plan of the output chooses (`Expected`). `KeepsEveryByte` says no more than
  that what is laid out is the start of something; that the rest is still to come, cut where the input was, is what
  makes it inductive. Of the tables it says `LaidOutSo`: they are as they were read, or every offset follows the box it
  lies in, moved for a set of widened tables that `Settles`: no offset that outgrows a compact table moved for that
  set is in a table outside it.
* `EveryByteKept`: `Spec => []KeepsEveryByte`. The plan has every box of the file once (`PlanIs`), and boxes that lie
  end to end join to the file (`WholeFile`). A fold such as `FlattenSeq` is opened once, in `FlattenSteps`, as
  the function that joins one sequence after the other; all else rests on what it does to `Append` and to two lists end to end.
* `OffsetsLead`: `Spec => [](Placeable(file) => OffsetsFollow)`. `WideSettles`: `WideAfter` widens once per table at the
  most, and a pass that widens none is a fixpoint, so as many passes as there are tables settle, although every
  table widened makes the `moov` longer and moves every offset again. `MoovLength` of the tables that come of it is the length
  those offsets were moved for. `LeadsTo` then places the byte: the new start of a box is the sum of the lengths ahead
  of it, unless it saturates, and the output is the boxes joined in that order. `Placeable` is the room this needs: however the tables are
  widened, file and `moov` together are no longer than the largest offset; and the last box is not an
  `ftyp` that runs to the end of the file, which is the case of `fast_start.rs:612` above. It is a condition on the one
  file, and all but two of the 2142 files of the `FastStart` run meet it, the two being such an `ftyp`.
  That an entry of a table as read fits the table (`OffsetTable`) is the `u32` it is read as.
* `RefusedRightly`: `Spec => [](Placeable(file) /\ HasRoom(file) => RefusedForCause)`. `RefusedForCause` looks at the file as
  a whole (`Causes`), the code at one box at a time and at one offset after the other. `Cleared`, inductive beside `Inv`, says that a failure has its cause, that once the file
  has ended without one every box is `Sound`, and that of the piece being output a byte is left (`LeftOf`), so that an end of input met there means a file
  cut short. The hard case is an offset that is refused as out of the file (`MovedCaused`): the code refuses one that lies in no box,
  which is one past them all, since the boxes lie end to end (`NoneHolds`), but also one whose new place saturates.
  `HasRoom` excludes that: with the `moov` widened in whatever way, the lengths the boxes declare, and where
  the last box has none each offset, stay within the largest offset. Then a box starts no later than the boxes put before
  it weigh (`StartsBelow`), and no offset saturates (`MovesShort`). All files of the run meet it. In the other direction
  (`NothingCalled`) a box cut short would still be among the pieces, and an offset that was moved lies in a box that is not the `moov`.

Only model-checked, and why:

* `Ends`, `Gathers`, `ReadsAll`, `Stops` and the end in `PresentsAsLaidOut`: liveness is out of the prover's reach.
* `ImplementsRecording` of the `Muxer` behind a gap: the walk of the reader stops there, and the file of the proof has none.
* `IndexesPoint` of the `Muxer`: it sums over the entries of a `sidx` by folds over sets, which stay opaque to the provers.
* `EachOnceInTime` and `PlacesTrue` of the `StructureDataReader`, `TakenTrue` and `CompleteAtEnd` of the `Demuxer`: they
  compare what calls return with the samples as they truly are, both bags computed by folds and a sort over the
  samples of each box, whose values an induction over the data would have to give.
* `RefusedForCause` of the `StructureDataReader`, which holds of the files of its run and needs more of
  a file than that it is one: that a writer laid it out.
* `PresentedAsGiven` and `ReadAsStated` of the `SampleTableWriter`, `Timeline`, `BoxCodecs`: their modules recurse
  over tables, edits and layouts, which the prover cannot take.

`TypeOK` of `BoxReader` is proved and in no run of its own: it is part of what the other theorems
rest on. `IInv` of `MuxerProofs` quantifies over files and is in no run for that reason.

## 5. Plan

Modelled and checked, in this order: `BoxReader` (proved), `MediaDataReader` (proved), `Muxer` (proved but
for the indexes), `StructureDataReader` with its compressed boxes (proved but for the samples), `Demuxer` with its callers
(proved but for what samples are true), `FastStart` (proved), `Timeline`, the box codecs, `BoxWriter` (proved), the sample tables. What is left:

* To prove: of `Muxer` `IndexesPoint`, and `ImplementsRecording` behind a gap; of `Demuxer` that a sample taken has its own bytes (in `TakenTrue`). `Timeline` and `BoxCodec` recurse, which keeps them with TLC.
* To model: a `dmix` instruction by instruction; the stream access points of a `sidx`; the
  subsegments that a `sidx` read declares.

## 6. Not modelled

* *Box codecs*: the instructions of a `dmix` are bytes. A value whose version or variant
  disagrees with another field of it, which the types allow, is sampled only
  where a rule says so. Extended types (`uuid`) are left out: a child of a type that is not
  registered is one and the same (`Stray`). Bytes that the code
  keeps without reading them hold no child boxes. The order of bytes and boxes is fixed: every
  payload is bytes, then boxes. `ChildrenKept` says nothing of a box that counts its children (`dref`,
  `iinf`, `stsd`): what follows the last counted one is dropped, as the code has it.
* *Timeline*: the overflow of 64 and 128 bits in the middle of a computation.
* *Sample tables*: the version of a header box, the duration of the `mvhd`, the tables a movie
  may not declare samples in (`SampleTableNotEmpty`), the `stz2`, which reads as an `stsz`
  with a size per sample.
* *StructureDataReader*: durations of samples other than 1, decoding times past 64 bits, the
  subsegments of a `sidx` but for their number. *Demuxer*: the `ftyp` and `styp` it keeps and its
  accessors.
* Plain values, builders, limits as types, conversions. Inflation of compressed boxes is an
  external crate. Examples, fuzz targets and the test support are callers.

## Running

`tlc -config Muxer.cfg MuxerMC.tla` and so on for each cfg; `tlapm
BoxReaderProofs.tla` and so on for `BoxWriterProofs`, `SequenceLemmas`, `MediaDataReaderProofs`, `MuxerProofs`,
`StructureDataProofs`, `DemuxerProofs` and `FastStartProofs` check
the proofs. `PROJECT.json` lists components, runs,
slips, the lines each definition models, divergences, hazards and theorems.
