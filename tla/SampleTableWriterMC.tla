--------------------------- MODULE SampleTableWriterMC ---------------------------
(* Two tracks, of which the second has no edit list, and tables of up to   *)
(* three samples that agree and disagree.                                  *)
EXTENDS SampleTableWriter

Edit(duration, mediaTime, rate) == [duration |-> duration, mediaTime |-> mediaTime, rate |-> rate]
TrackOf(edits, fragmented, repeat, duration) ==
  [edits |-> edits, movieTimescale |-> 2, mediaTimescale |-> 3,
   fragmented |-> fragmented, repeatEdits |-> repeat, duration |-> duration]
Plain(fragmented) == TrackOf(<<>>, fragmented, FALSE, 0)

(* No edits; an edit that ends or is open, behind an empty one; repeated.  *)
AnyMovie ==
  { <<Plain(f), Plain(f)>> : f \in BOOLEAN }
  \cup { <<TrackOf(<<Edit(1, -1, 1), Edit(d, m, 1)>>, f, FALSE, 0)>> : d \in {0, 2}, m \in {0, 2}, f \in BOOLEAN }
  \cup { <<TrackOf(<<Edit(1, 1, 1), Edit(d, 1, 1)>>, f, TRUE, u), Plain(f)>> :
         d \in {0, 1}, f \in BOOLEAN, u \in {3, Indefinite} }

Flags(sync, padb) == [name \in FlagTables \cup {"sync"} |->
                        IF name = "sync" THEN sync ELSE IF name = "padb" THEN padb ELSE 0]
Pick(track, duration, composition, size, description, flags) ==
  [track |-> track, duration |-> duration, composition |-> composition, size |-> size,
   description |-> description, flags |-> flags]
AnyPick ==
  { Pick(1, 1, 0, 1, 1, Flags(TRUE, 0)), Pick(1, 2, 1, 1, 1, Flags(FALSE, 0)), Pick(1, 0, 0, 0, 1, Flags(TRUE, 1)),
    Pick(1, 2, 0, 3, 2, Flags(TRUE, 0)), Pick(1, 1, 0, 1, 3, Flags(TRUE, 0)),
    Pick(2, 2, -1, 1, 1, Flags(FALSE, 2)), Pick(2, 1, 0, 4, 1, Flags(TRUE, 0)) }

AnyOrigins == <<"file", "file", "imda", "sequence number">>

(* Other tables.                                                           *)
Run(count, value) == [count |-> count, value |-> value]
Chunks(first, samples, description) == [first |-> first, samples |-> samples, description |-> description]
SizeTables ==
  { [count |-> 0, size |-> 0, entries |-> <<>>], [count |-> 2, size |-> 1, entries |-> <<>>],
    [count |-> 0, size |-> 0, entries |-> <<1, 0, 2>>] }
ChunkTables ==
  { <<>>, <<Chunks(1, 1, 1)>>, <<Chunks(1, 2, 1)>>, <<Chunks(2, 1, 1)>>, <<Chunks(1, 0, 1)>>, <<Chunks(1, 1, 4)>>,
    <<Chunks(1, 2, 3), Chunks(2, 1, 2)>>, <<Chunks(1, 1, 1), Chunks(1, 1, 1)>>, <<Chunks(1, 1, 2), Chunks(3, 2, 1)>> }
AnyTable ==
  { [stts |-> stts, ctts |-> ctts, stsc |-> stsc, stsz |-> stsz, stco |-> stco, stss |-> stss,
     flags |-> [name \in FlagTables |-> IF name = "sdtp" THEN sdtp ELSE {}]] :
    stts \in { <<>>, <<Run(1, 1), Run(0, 3), Run(1, 2)>>, <<Run(4, 2)>> },
    ctts \in { {}, {<<Run(2, -1)>>} },
    stsc \in ChunkTables, stsz \in SizeTables,
    stco \in { <<>>, <<4>>, <<7, 0>>, <<2, 2, 19>> },
    stss \in { {}, {<<>>}, {<<2, 1>>}, {<<1, 1, 3>>}, {<<4, 2>>} },
    sdtp \in { {}, {<<1, 2>>} } }
===============================================================================
