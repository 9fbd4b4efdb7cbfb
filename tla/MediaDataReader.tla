---------------------------- MODULE MediaDataReader ----------------------------
(***************************************************************************)
(* MediaDataReader of crates/isobmff/src/media_data/reader.rs: gathers the *)
(* bytes of the samples whose locations it holds out of input that comes   *)
(* from any offset, in any order, cut anywhere and more than once, within  *)
(* a limit on the memory it allocates.                                     *)
(*                                                                         *)
(* A byte is named by its file offset, so the media data of a sample is a  *)
(* sequence of offsets, Blank where its byte has not arrived.              *)
(***************************************************************************)
EXTENDS Integers, SequencesExt, Subsequences

CONSTANTS
  MaxPosition,        (* the largest file offset: u64::MAX in the code     *)
  Tracks,             (* the track IDs of the movie                        *)
  Scripts,            (* the calls to come: sequences of lists of locations*)
  HeldLocationCount,  (* MediaDataLimits::held_location_count              *)
  SampleBytes,        (* MediaDataLimits::sample_bytes                     *)
  HeldBytes,          (* MediaDataLimits::held_bytes                       *)
  FileLength,         (* bytes of the file that input is passed of         *)
  Blank               (* what an allocation holds before a byte arrives: 0 *)

VARIABLES
  toHand,     (* the lists of locations the caller is to hand over         *)
  held,       (* the locations held: [location, data, missing]             *)
  discarded,  (* the tracks whose locations are not held                   *)
  taken,      (* the samples poll_sample has returned                      *)
  result      (* how the last call ended                                   *)

vars == <<toHand, held, discarded, taken, result>>

(* The same locations, and the promise about them.                         *)
Queue == INSTANCE SampleQueue WITH queue <- [i \in DOMAIN held |-> held[i].location]

Location == Queue!Location

ASSUME ReaderAssumption ==
  /\ MaxPosition \in Nat
  /\ HeldLocationCount \in Nat
  /\ SampleBytes \in Nat
  /\ HeldBytes \in Nat
  /\ FileLength \in 0..MaxPosition
  /\ Blank \notin 0..MaxPosition
  /\ Scripts \subseteq Seq(Seq(Location))

Extent(range) == Queue!Extent(range)
SampleLimit == Queue!SampleLimit

Range64 == [start : 0..MaxPosition, end : 0..MaxPosition]

Sample == [location : Location, data : Seq(0..MaxPosition \cup {Blank})]

Init ==
  /\ toHand \in Scripts
  /\ held = <<>>
  /\ discarded = {}
  /\ taken = <<>>
  /\ result = "ok"
-------------------------------------------------------------------------------
(* handle_sample_locations: the locations are held one by one, and those   *)
(* of the call let go of again when one is refused.                        *)
RunOf(start, end) == IF start < end THEN << [start |-> start, end |-> end] >> ELSE <<>>

NewlyHeld(location) ==
  [location |-> location, data |-> <<>>, missing |-> RunOf(location.start, location.end)]

IsHeld(location) == location.track \notin discarded

(* Slip: those held before the refused one stay held.                      *)
HoldNotUndone ==
  /\ toHand # <<>>
  /\ toHand' = Tail(toHand)
  /\ LET kept == Where(Head(toHand), IsHeld)
         Fits(i) == /\ Len(held) + i <= HeldLocationCount
                    /\ Extent(kept[i]) <= SampleLimit
         refused == {i \in DOMAIN kept : ~Fits(i)}
         fit == IF refused = {} THEN Len(kept) ELSE Min(refused) - 1
     IN  /\ result' = IF refused = {} THEN "ok" ELSE "past limit"
         /\ held' = held \o [i \in 1..fit |-> NewlyHeld(kept[i])]
  /\ UNCHANGED <<discarded, taken>>

(* Those of the call that are to be held are held with `samples`, all      *)
(* together.                                                               *)
AllFit(samples, kept) ==
  \A i \in DOMAIN kept : /\ Len(samples) + i <= HeldLocationCount
                         /\ Extent(kept[i]) <= SampleLimit

HeldWith(samples, kept) == samples \o [i \in DOMAIN kept |-> NewlyHeld(kept[i])]

Hold ==
  /\ toHand # <<>>
  /\ toHand' = Tail(toHand)
  /\ LET kept == Where(Head(toHand), IsHeld)
     IN  IF AllFit(held, kept)
         THEN result' = "ok" /\ held' = HeldWith(held, kept)
         ELSE result' = "past limit" /\ UNCHANGED held
  /\ UNCHANGED <<discarded, taken>>
-------------------------------------------------------------------------------
(* Slip: of a run cut in the middle, what lies past the input is lost.     *)
LeftOfForgetsRest(missing, input) ==
  LET start == Max({missing.start, input.start})
      end == Min({missing.end, input.end})
  IN  IF start >= end THEN <<missing>>
      ELSE IF missing.start < start THEN RunOf(missing.start, start) ELSE RunOf(end, missing.end)

(* What of `missing` the input leaves missing: what lies before it, and    *)
(* what lies past it.  Input that does not overlap it leaves it as it is.  *)
LeftOf(missing, input) ==
  LET start == Max({missing.start, input.start})
      end == Min({missing.end, input.end})
  IN  IF start >= end THEN <<missing>>
      ELSE RunOf(missing.start, start) \o RunOf(end, missing.end)

Overlap(missing, input) == Max({missing.start, input.start})..Min({missing.end, input.end}) - 1

Allocation(location) == [i \in 1..Extent(location) |-> Blank]

(* HeldLocation::fill: the first bytes that arrive allocate the data.      *)
Fill(sample, input) ==
  LET arrived == UNION {Overlap(sample.missing[i], input) : i \in DOMAIN sample.missing}
      start == sample.location.start
      data == IF sample.data # <<>> THEN sample.data ELSE Allocation(sample.location)
  IN  IF arrived = {}
      THEN sample
      ELSE [sample EXCEPT
              !.data = [i \in DOMAIN data |-> IF start + i - 1 \in arrived
                                              THEN start + i - 1 ELSE data[i]],
              !.missing = FlattenSeq([i \in DOMAIN @ |-> LeftOf(@[i], input)])]

(* Whether the input reaches bytes the sample lacks.  Empty input does,    *)
(* inside of a run of them.                                                *)
Reached(sample, input) ==
  \E i \in DOMAIN sample.missing :
    sample.missing[i].start < input.end /\ input.start < sample.missing[i].end

(* The bytes of memory allocated for `samples`, each by its sample and its *)
(* place there.                                                            *)
InMemory(samples) == UNION {{i} \X DOMAIN samples[i].data : i \in DOMAIN samples}

Allocated(samples) == Cardinality(InMemory(samples))

Allocates(samples, i, input) == samples[i].data = <<>> /\ Reached(samples[i], input)

MemoryFor(samples, i) == {i} \X (1..Extent(samples[i].location))

(* What is allocated once the samples up to the one held i-th have what    *)
(* the input would have them allocate.  Past the limit, neither that one   *)
(* nor any held after it is allocated.                                     *)
AllocatedUpTo(samples, i, input) ==
  Cardinality(InMemory(samples) \cup
    UNION {MemoryFor(samples, j) : j \in {k \in 1..i : Allocates(samples, k, input)}})

(* Slip: each sample is measured against the limit on its own.             *)
RefusedAlone(samples, i, input) ==
  Allocates(samples, i, input) /\ Allocated(samples) + Extent(samples[i].location) > HeldBytes

Refused(samples, i, input) ==
  Allocates(samples, i, input) /\ AllocatedUpTo(samples, i, input) > HeldBytes

Filled(samples, i, input) == Reached(samples[i], input) /\ ~Refused(samples, i, input)

KeepsReached(samples, input) == \E i \in DOMAIN samples : Reached(samples[i], input)  (* slip *)
Keeps(samples, input) == \E i \in DOMAIN samples : Filled(samples, i, input)

Fails(samples, input) == ~Keeps(samples, input) /\ \E i \in DOMAIN samples : Refused(samples, i, input)

HeldAfter(samples, input) ==
  [i \in DOMAIN samples |-> IF Filled(samples, i, input) THEN Fill(samples[i], input) ELSE samples[i]]

(* handle_input(offset, input): fails only when it keeps nothing.          *)
HandleInput(input) ==
  /\ IF Fails(held, input)
     THEN result' = "full" /\ UNCHANGED held
     ELSE result' = "ok" /\ held' = HeldAfter(held, input)
  /\ UNCHANGED <<toHand, discarded, taken>>
-------------------------------------------------------------------------------
(* poll_sample, where it returns a sample.                                 *)
PollSample ==
  /\ held # <<>>
  /\ Head(held).missing = <<>>
  /\ held' = Tail(held)
  /\ taken' = Append(taken, [location |-> Head(held).location, data |-> Head(held).data])
  /\ result' = "ok"
  /\ UNCHANGED <<toHand, discarded>>

Clear ==
  /\ held' = <<>>
  /\ result' = "ok"
  /\ UNCHANGED <<toHand, discarded, taken>>

DiscardTrack(track) ==
  /\ discarded' = discarded \cup {track}
  /\ held' = Where(held, LAMBDA sample : sample.location.track # track)
  /\ result' = "ok"
  /\ UNCHANGED <<toHand, taken>>

(* wanted_input: of the first runs the samples lack, the one that starts   *)
(* first in the file.                                                      *)
FirstMissing(samples) ==
  {samples[i].missing[1] : i \in {j \in DOMAIN samples : samples[j].missing # <<>>}}
Wanted(samples) ==
  {range \in FirstMissing(samples) : \A other \in FirstMissing(samples) : range.start <= other.start}
-------------------------------------------------------------------------------
Inputs == {range \in [start : 0..FileLength, end : 0..FileLength] : range.start <= range.end}

Next ==
  \/ Hold
  \/ \E input \in Inputs : HandleInput(input)
  \/ PollSample
  \/ Clear
  \/ \E track \in Tracks : DiscardTrack(track)

Spec == Init /\ [][Next]_vars

(* The caller of the documentation: it hands over what it locates, takes   *)
(* the samples, and passes pieces of input from where it is wanted on, or  *)
(* from before, again while bytes of them are wanted.                      *)
PassPiece ==
  \E input \in Inputs, range \in Wanted(held) :
    range.start \in input.start..input.end - 1 /\ HandleInput(input)

PassWanted == \E range \in Wanted(held) : HandleInput(range)

CallerSpec ==
  /\ Init
  /\ [][Hold \/ PollSample \/ PassPiece \/ \E track \in Tracks : DiscardTrack(track)]_vars
  /\ WF_vars(Hold) /\ WF_vars(PollSample) /\ WF_vars(PassWanted)
-------------------------------------------------------------------------------
(* PROPERTIES                                                              *)

(* Locations are held together or not at all, and every sample comes out   *)
(* in the order they were held, with its own bytes, all of them, each in   *)
(* its place: whatever arrived in which order, twice, or in pieces.        *)
ImplementsQueue == Queue!Spec

(* What the reader holds stays within its limits: the locations, and the   *)
(* media data allocated for them together.                                 *)
WithinLimits == Len(held) <= HeldLocationCount /\ Allocated(held) <= HeldBytes

(* The runs a sample lacks are what its data is blank at, in file order,   *)
(* apart from one another: no byte is wanted that has arrived, and none    *)
(* that has not is given up.                                               *)
MissingIsBlank ==
  \A i \in DOMAIN held :
    LET sample == held[i]
        missing == sample.missing
        lacks == UNION {missing[j].start..missing[j].end - 1 : j \in DOMAIN missing}
    IN  /\ \A j \in DOMAIN missing : missing[j].start < missing[j].end
        /\ \A j \in 2..Len(missing) : missing[j - 1].end < missing[j].start
        /\ lacks = {sample.location.start + k - 1 :
                      k \in {n \in 1..Extent(sample.location) :
                               sample.data = <<>> \/ sample.data[n] = Blank}}

(* A call that is given wanted bytes takes some of them or fails: the      *)
(* caller that passes a piece again while bytes of it are wanted never     *)
(* goes round without learning that it has to take samples first.          *)
NoSilentStall ==
  \A input \in Inputs, range \in Wanted(held) :
    range.start \in input.start..input.end - 1 =>
      \/ Fails(held, input)
      \/ \E i \in DOMAIN held :
           Filled(held, i, input) /\ Fill(held[i], input).missing # held[i].missing

(* A sample refused memory is "wanted again: the caller takes samples with  *)
(* poll_sample and passes it again": a caller that does gets every sample  *)
(* it has located.                                                         *)
Gathers == <>(toHand = <<>> /\ held = <<>>)
===============================================================================
