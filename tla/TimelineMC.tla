------------------------------- MODULE TimelineMC -------------------------------
(* Edit lists of up to three edits, in a few timescales.                   *)
EXTENDS Timeline

Edit(duration, mediaTime, rate) == [duration |-> duration, mediaTime |-> mediaTime, rate |-> rate]

Lists ==
  { <<>> }
  \cup { <<Edit(a, t, r)>> : a \in {0, 2, 5}, t \in {-1, 0, 2}, r \in 0..1 }
  \cup { <<Edit(a, t, 1), Edit(b, u, r)>> : a \in 1..2, b \in {0, 3}, t \in {-1, 0, 1}, u \in {-1, 0, 3}, r \in 0..1 }
  \cup { <<Edit(1, 0, 1), Edit(b, 2, r), Edit(c, 1, 1)>> : b \in 1..2, c \in {0, 2}, r \in 0..1 }

TrackOf(edits, movie, media, fragmented, repeat, duration) ==
  [edits |-> edits, movieTimescale |-> movie, mediaTimescale |-> media,
   fragmented |-> fragmented, repeatEdits |-> repeat, duration |-> duration]

Once(edits) == { TrackOf(edits, s[1], s[2], f, FALSE, 0) : s \in {<<2, 3>>, <<5, 2>>}, f \in BOOLEAN }
Repeated(edits) ==
  { TrackOf(edits, s[1], s[2], f, TRUE, d) :
      s \in {<<3, 2>>, <<4, 3>>, <<7, 2>>}, f \in BOOLEAN, d \in {7, 12, Indefinite} }

AnyTrack == UNION { Once(edits) \cup Repeated(edits) : edits \in Lists }

AnySample == { [start |-> s, end |-> s + d] : s \in -1..3, d \in 0..2 } \cup {[start |-> 17, end |-> 18]}
===============================================================================
