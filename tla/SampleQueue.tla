------------------------------ MODULE SampleQueue ------------------------------
(***************************************************************************)
(* What a caller of MediaDataReader is promised of the samples it locates: *)
(* locations are held all together or not at all, behind those held        *)
(* before, and their samples are taken in that order, each whole, each     *)
(* once.  Nothing here knows how or when the bytes arrive, or what memory  *)
(* they take.                                                              *)
(***************************************************************************)
EXTENDS Integers, SequencesExt, Subsequences

CONSTANTS
  MaxPosition,        (* the largest file offset: u64::MAX in the code     *)
  Tracks,             (* the track IDs of the movie                        *)
  Scripts,            (* the calls to come: sequences of lists of locations*)
  HeldLocationCount,  (* MediaDataLimits::held_location_count              *)
  SampleBytes,        (* MediaDataLimits::sample_bytes                     *)
  HeldBytes           (* MediaDataLimits::held_bytes                       *)

(* A sample of a track, and the bytes `start` up to `end` that it names.   *)
Location == [track : Tracks, start : 0..MaxPosition, end : 0..MaxPosition]

Extent(range) == Max({range.end - range.start, 0})

(* MediaDataReader::new: a longer sample could never be allocated.         *)
SampleLimit == Min({SampleBytes, HeldBytes})

(* The media data of a sample, its bytes named by their file offsets.      *)
Whole(location) == [i \in 1..Extent(location) |-> location.start + i - 1]
-------------------------------------------------------------------------------
VARIABLES
  toHand,     (* the lists of locations that are to be handed over         *)
  discarded,  (* the tracks whose samples are not held                     *)
  queue,      (* the locations held                                        *)
  taken       (* the samples taken: [location, data]                       *)

vars == <<toHand, discarded, queue, taken>>

Init ==
  /\ toHand \in Scripts
  /\ discarded = {}
  /\ queue = <<>>
  /\ taken = <<>>

Kept(locations) == Where(locations, LAMBDA location : location.track \notin discarded)

Hold ==
  LET kept == Kept(Head(toHand))
  IN  /\ toHand # <<>>
      /\ toHand' = Tail(toHand)
      /\ queue' = IF /\ Len(queue) + Len(kept) <= HeldLocationCount \/ kept = <<>>
                     /\ \A i \in DOMAIN kept : Extent(kept[i]) <= SampleLimit
                  THEN queue \o kept
                  ELSE queue
      /\ UNCHANGED <<discarded, taken>>

Take ==
  /\ queue # <<>>
  /\ queue' = Tail(queue)
  /\ taken' = Append(taken, [location |-> Head(queue), data |-> Whole(Head(queue))])
  /\ UNCHANGED <<toHand, discarded>>

Clear ==
  /\ queue' = <<>>
  /\ UNCHANGED <<toHand, discarded, taken>>

Discard(track) ==
  /\ discarded' = discarded \cup {track}
  /\ queue' = Where(queue, LAMBDA location : location.track # track)
  /\ UNCHANGED <<toHand, taken>>

Next == Hold \/ Take \/ Clear \/ \E track \in Tracks : Discard(track)

Spec == Init /\ [][Next]_vars
===============================================================================
