------------------------------ MODULE SampleTables ------------------------------
(***************************************************************************)
(* The sample table of a track, of crates/isobmff/src/structure_data/      *)
(* sample_table.rs and sample_flags.rs: the tables filled with what        *)
(* samples were written, and the samples that tables declare, read side by *)
(* side, of which any may state another number of samples.                 *)
(*                                                                         *)
(* An optional table is a set that holds it, empty where the track has     *)
(* none.  The sdtp, the padb and the stdp each hold a value per sample,    *)
(* which its sample_flags keep under the name of the table.                *)
(***************************************************************************)
EXTENDS Integers, FiniteSetsExt, SequencesExt

CONSTANTS
  MaxCount,       (* the largest count of a run: u32::MAX                  *)
  CompactReach,   (* the largest offset of an stco: u32::MAX               *)
  MaxPosition,    (* the largest offset and decoding time: u64::MAX        *)
  Origins         (* what each sample description names media data in:     *)
                  (* "file", "imda" or "sequence number"                   *)

FlagTables == {"sdtp", "padb", "stdp"}

NoTime == -1  (* before the first sample: None *)
Sum(values) == FoldLeft(LAMBDA sum, value : sum + value, 0, values)
Field(records, name) == [k \in DOMAIN records |-> records[k][name]]
-------------------------------------------------------------------------------
(* TrackTable: what was written.                                           *)
EmptyTable == [start |-> NoTime, time |-> 0, chunks |-> <<>>, samples |-> <<>>]

DecodingEnd(table) == table.start + table.time

PushChunk(table, run) ==
  [start |-> IF table.start = NoTime THEN run[1].time ELSE table.start,
   time |-> table.time + Sum(Field(run, "duration")),
   chunks |-> Append(table.chunks, [offset |-> run[1].from, samples |-> Min({Len(run), MaxCount}),
                                    description |-> run[1].description]),
   samples |-> table.samples \o run]

(* composition_end, counted from the decoding time of the first.           *)
ComposedUntil(samples, k) ==
  Sum(Field(SubSeq(samples, 1, k), "duration")) + samples[k].composition
CompositionEnd(table) == Max({0} \cup { ComposedUntil(table.samples, k) : k \in DOMAIN table.samples })

(* runs_of and expand.                                                     *)
RunsOf(values) ==
  FoldLeft(LAMBDA runs, value :
             IF runs # <<>> /\ Last(runs).value = value /\ Last(runs).count < MaxCount
             THEN [runs EXCEPT ![Len(runs)].count = @ + 1]
             ELSE Append(runs, [count |-> 1, value |-> value]), <<>>, values)

Expand(runs) == FlattenSeq([k \in DOMAIN runs |-> [n \in 1..runs[k].count |-> runs[k].value]])

(* The stsc: an entry for each chunk that is not as the one before it.     *)
ChunkRunsOfCounts(chunks) ==  (* slip: by the samples of a chunk alone *)
  LET first == SelectSeq([k \in DOMAIN chunks |-> k],
                         LAMBDA k : k = 1 \/ chunks[k - 1].samples # chunks[k].samples)
  IN  [n \in DOMAIN first |-> [first |-> first[n], samples |-> chunks[first[n]].samples,
                               description |-> chunks[first[n]].description]]
ChunkRuns(chunks) ==
  LET As(k) == <<chunks[k].samples, chunks[k].description>>
      first == SelectSeq([k \in DOMAIN chunks |-> k], LAMBDA k : k = 1 \/ As(k - 1) # As(k))
  IN  [n \in DOMAIN first |-> [first |-> first[n], samples |-> chunks[first[n]].samples,
                               description |-> chunks[first[n]].description]]

(* The stsz: one size, where it is not zero, or a size per sample.         *)
SizeTable(sizes) ==
  IF sizes # <<>> /\ Len(sizes) <= MaxCount /\ sizes[1] # 0 /\ \A k \in DOMAIN sizes : sizes[k] = sizes[1]
  THEN [count |-> Len(sizes), size |-> sizes[1], entries |-> <<>>]
  ELSE [count |-> 0, size |-> 0, entries |-> sizes]

(* The stco, or the co64 where an offset takes it.                         *)
ChunkOffsets(offsets) ==
  IF \A k \in DOMAIN offsets : offsets[k] <= CompactReach
  THEN [k \in DOMAIN offsets |-> offsets[k] % (CompactReach + 1)]
  ELSE offsets

Optional(values, left) == IF \A k \in DOMAIN values : values[k] = left THEN {} ELSE {values}

(* TrackTable::fill and sample_flags::fill.                                *)
Fill(table) ==
  LET samples == table.samples
      compositions == Field(samples, "composition")
      flags == Field(samples, "flags")
  IN  [stts |-> RunsOf(Field(samples, "duration")),
       ctts |-> { RunsOf(values) : values \in Optional(compositions, 0) },
       stsc |-> ChunkRuns(table.chunks),
       stsz |-> SizeTable([k \in DOMAIN samples |-> samples[k].to - samples[k].from]),
       stco |-> ChunkOffsets(Field(table.chunks, "offset")),
       stss |-> { SelectSeq([k \in DOMAIN samples |-> k], LAMBDA k : flags[k].sync) :
                  values \in Optional(Field(flags, "sync"), TRUE) },
       flags |-> [name \in FlagTables |-> Optional(Field(flags, name), 0)]]
-------------------------------------------------------------------------------
(* resolve_track: what tables declare.                                     *)
Sizes(stbl) == [k \in 1..stbl.stsz.count |-> stbl.stsz.size] \o stbl.stsz.entries
Counted(runs) == Sum(Field(runs, "count"))

(* A track that declares samples, where a table it takes states none.      *)
NoneStated(stbl) ==
  /\ Sizes(stbl) # <<>> \/ stbl.stco # <<>>
  /\ \/ Sizes(stbl) = <<>>
     \/ stbl.stco = <<>>
     \/ \A k \in DOMAIN stbl.stsc : stbl.stsc[k].samples = 0
     \/ Counted(stbl.stts) = 0

(* What a table states for sample n, or zero.                              *)
OrZero(tables, n) == LET stated == UNION { {values[k] : k \in {n} \cap DOMAIN values} : values \in tables }
                     IN  IF stated = {} THEN 0 ELSE CHOOSE value \in stated : TRUE

(* next_flags: the sample numbers an stss marks, up to the one of a sample *)
(* that is read; those passed over are out of order.                       *)
MarksPast(marks, n) == SelectInSeq(marks \o <<n>>, LAMBDA mark : mark >= n) - 1
NextMarks(r, n) ==
  LET passed == IF r.marks = {} THEN 0 ELSE MarksPast(CHOOSE marks \in r.marks : TRUE, n)
      left == { SubSeq(marks, passed + 1, Len(marks)) : marks \in r.marks }
      isMarked == \A marks \in left : marks # <<>> /\ marks[1] = n
  IN  [sync |-> isMarked, unordered |-> r.unordered + passed,
       marks |-> IF isMarked THEN { Tail(marks) : marks \in left } ELSE left]

(* One sample of a chunk, at the end of the samples before it.             *)
NextDurationOrZero(stbl, r, n) ==  (* slip: zero past the end, as of other tables *)
  LET durations == Expand(stbl.stts)
  IN  IF n \in DOMAIN durations THEN durations[n] ELSE 0
NextDuration(stbl, r, n) ==
  LET durations == Expand(stbl.stts)
  IN  IF n \in DOMAIN durations THEN durations[n] ELSE r.duration

ReadSample(stbl, r, run) ==
  LET n == Len(r.samples) + 1
      duration == NextDuration(stbl, r, n)
      end == r.offset + Sizes(stbl)[n]
      next == NextMarks(r, n)
  IN  IF r.failed \/ n \notin DOMAIN Sizes(stbl) THEN r
      ELSE IF end > MaxPosition \/ r.time + duration > MaxPosition THEN [r EXCEPT !.failed = TRUE]
      ELSE [r EXCEPT !.samples =
              Append(@, [time |-> r.time, duration |-> duration,
                         composition |-> OrZero({ Expand(runs) : runs \in stbl.ctts }, n),
                         from |-> r.offset, to |-> end, description |-> run.description,
                         flags |-> [name \in FlagTables \cup {"sync"} |->
                                      IF name = "sync" THEN next.sync ELSE OrZero(stbl.flags[name], n)]]),
              !.time = @ + duration, !.duration = duration, !.offset = end,
              !.marks = next.marks, !.unordered = next.unordered]

(* A chunk, of the run that begins with it or else of the one before.      *)
ReadChunk(stbl, r, chunk) ==
  LET begins == r.runs # <<>> /\ r.runs[1].first = chunk
      run == IF begins THEN {r.runs[1]} ELSE r.run
      named == { x.description : x \in run }
  IN  IF r.failed \/ run = {} \/ \E d \in named : d \notin DOMAIN Origins \/ Origins[d] = "sequence number"
      THEN [r EXCEPT !.failed = TRUE]
      ELSE LET laid == CHOOSE x \in run : TRUE
           IN  FoldLeft(LAMBDA q, n : ReadSample(stbl, q, laid),
                        [r EXCEPT !.run = run, !.runs = IF begins THEN Tail(@) ELSE @,
                                  !.offset = stbl.stco[chunk], !.laidOut = @ + laid.samples],
                        [n \in 1..laid.samples |-> n])

(* The tables that state another number of samples.                        *)
Disagrees(name, stated, placed) ==
  IF stated < placed THEN { [table |-> name, kind |-> "short", samples |-> placed - stated] }
  ELSE IF stated > placed THEN { [table |-> name, kind |-> "long", samples |-> stated - placed] }
  ELSE {}

Marked(kind, count) == IF count = 0 THEN {} ELSE { [table |-> "stss", kind |-> kind, samples |-> count] }

Leniencies(stbl, r) ==
  LET placed == Len(r.samples)
      past == Sum([k \in 1..Cardinality(r.marks) |->
                     Len(SelectSeq(CHOOSE marks \in r.marks : TRUE, LAMBDA mark : mark > placed))])
      behind == Sum([k \in 1..Cardinality(r.marks) |-> Len(CHOOSE marks \in r.marks : TRUE)]) - past
  IN  Disagrees("stsz", Len(Sizes(stbl)), placed)
      \cup Disagrees("stsc", r.laidOut, placed)
      \cup Disagrees("stts", Counted(stbl.stts), placed)
      \cup UNION { Disagrees("ctts", Counted(runs), placed) : runs \in stbl.ctts }
      \cup UNION { Disagrees(name, Len(values), placed) :
                   <<name, values>> \in UNION { {name} \X stbl.flags[name] : name \in FlagTables } }
      \cup Marked("long", past) \cup Marked("unordered", r.unordered + behind)

Resolve(stbl) ==
  LET begun == [failed |-> NoneStated(stbl), runs |-> stbl.stsc, run |-> {}, offset |-> 0, laidOut |-> 0,
                time |-> 0, duration |-> 0, marks |-> stbl.stss, unordered |-> 0, samples |-> <<>>]
      read == FoldLeft(LAMBDA r, chunk : ReadChunk(stbl, r, chunk), begun, [k \in DOMAIN stbl.stco |-> k])
  IN  IF read.failed \/ read.runs # <<>>
      THEN [refused |-> TRUE, samples |-> <<>>, leniencies |-> {}]
      ELSE [refused |-> FALSE, samples |-> read.samples, leniencies |-> Leniencies(stbl, read)]
===============================================================================
