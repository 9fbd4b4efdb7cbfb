------------------------------- MODULE MuxerMC -------------------------------
(* Every structure, and lists of samples that follow on from one another   *)
(* or do not, that fit a compact mdat or do not, and that are refused.     *)
EXTENDS Muxer

Of(kind, mfra, subsegments) == [kind |-> kind, mfra |-> mfra, subsegments |-> subsegments]

(* Segments of one subsegment, and of three.                               *)
LongerIndexes == { Of("Segment", FALSE, 1), Of("Segment", FALSE, 3) }

EveryStructure ==
  { Of("NonFragmented", FALSE, None), Of("Recoverable", FALSE, None),
    Of("Fragmented", FALSE, None), Of("Fragmented", TRUE, None),
    Of("Segment", FALSE, None), Of("Segment", FALSE, 0), Of("Segment", FALSE, 2) }
  \cup LongerIndexes

OneEdited == [track \in Tracks |-> IF track = 2 THEN 1 ELSE NoEdit]

S(track, time, length, sync) ==
  [track |-> track, time |-> time, length |-> length, sync |-> sync, encodes |-> TRUE]

(* A sample with flags wider than their fields.                            *)
Wide(track, time, length) == [S(track, time, length, TRUE) EXCEPT !.encodes = FALSE]

AnyCalls ==
  { <<>>,
    << S(1, 0, 2, TRUE) >>,
    << S(1, 0, 1, FALSE), S(1, 1, 1, TRUE) >>,
    << S(1, 1, 3, TRUE), S(2, 1, 1, TRUE) >>,
    << S(2, 2, 1, FALSE) >>,
    << S(1, 2, 1, TRUE), S(1, 2, 1, TRUE) >>,
    << S(1, 0, 1, TRUE), S(3, 0, 1, TRUE) >>,
    << S(1, 0, 1, TRUE), S(2, 0, 5, TRUE), S(1, 1, 0, TRUE) >>,
    << S(1, 0, 1, TRUE), Wide(1, 1, 1) >> }

(* Lists that overlap, leave a gap, go back, hold none of the first track  *)
(* or are too long to index.                                               *)
IndexedCalls ==
  { << S(1, 0, 1, FALSE), S(1, 1, 1, TRUE) >>,
    << S(2, 1, 1, TRUE), S(1, 1, 2, TRUE) >>,
    << S(2, 2, 1, FALSE) >>,
    << S(1, 3, 1, TRUE) >>,
    << S(1, 2, 6, TRUE) >>,
    << Wide(1, 1, 1) >> }

MCCalls ==
  [s \in Structures |-> IF s \in LongerIndexes THEN IndexedCalls ELSE AnyCalls]
===============================================================================
