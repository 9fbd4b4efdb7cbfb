------------------------- MODULE StructureDataReaderMC -------------------------
(* Valid files of a few boxes, in every way to compress them and to        *)
(* declare their samples.                                                  *)
EXTENDS StructureDataReader

Plain(kind) ==
  [kind |-> kind, payload |-> 1, readBack |-> 1, compressed |-> FALSE, id |-> None,
   runs |-> <<>>, tracks |-> {}, subsegments |-> 0]

(* A compressed box grows when it is read back, or shrinks, or neither.    *)
Maybe(box) ==
  { box,
    [box EXCEPT !.compressed = TRUE, !.readBack = 3],
    [box EXCEPT !.compressed = TRUE, !.payload = 3],
    [box EXCEPT !.compressed = TRUE] }

Grown(box) == { box, [box EXCEPT !.compressed = TRUE, !.readBack = 3] }

Movie == [Plain("movie") EXCEPT !.tracks = {1, 2}]
MovieOf(runs) == [Movie EXCEPT !.runs = runs]
Fragment(runs) == [Plain("fragment") EXCEPT !.runs = runs]
Media(bytes) == [Plain("media") EXCEPT !.payload = bytes, !.readBack = bytes]
Imda(id, bytes) == [Media(bytes) EXCEPT !.kind = "identified", !.id = id]
SegmentIndex == [Plain("index") EXCEPT !.subsegments = 1]

Run(track, media, from, base, tfdt, sizes) ==
  [track |-> track, media |-> media, from |-> from, base |-> base, tfdt |-> tfdt,
   sizes |-> sizes, empty |-> FALSE]

Pause(track) == [Run(track, 0, 0, "default", None, <<>>) EXCEPT !.empty = TRUE]

(* Two fragments, each before its media data; the second may follow on in  *)
(* time, leap or go back.                                                  *)
Fragmented ==
  { <<movie, first, Media(3), second, Media(2)>> :
      movie \in Grown(Movie),
      first \in UNION {Maybe(Fragment(<<Run(1, 3, 0, b, None, <<1, 1>>), Run(2, 3, 2, c, 0, <<1>>)>>)) :
                         b \in {"given", "moof"}, c \in {"given", "moof", "default"}},
      second \in UNION {Grown(Fragment(<<Run(1, 5, 0, d[1], d[2], <<2>>)>>)) :
                          d \in {<<"given", None>>, <<"given", 3>>,
                                 <<"default", None>>, <<"default", 1>>}} }

(* A moov that declares samples, before and after their media data; pauses;*)
(* another file; an otyp, a sidx, an mfra.                                 *)
Indexed ==
  { <<Plain("original type"), movie, index, Media(2), fragment, Plain("random access")>> :
      movie \in {Movie} \cup Grown(MovieOf(<<Run(1, 4, 0, "given", None, <<1>>), Run(2, 0, 5, "given", None, <<1>>)>>)),
      index \in Grown(SegmentIndex) \cup {[SegmentIndex EXCEPT !.compressed = TRUE]},
      fragment \in Grown(Fragment(<<Pause(2), Run(1, 4, 1, "default", None, <<1>>),
                                   Run(2, 0, 2, "given", None, <<1>>)>>)) }

(* Samples in an imda that comes before them, or after.                    *)
Identified ==
  { <<movie, first, Imda(7, 3), second, Imda(8, 3)>> :
      movie \in Grown(MovieOf(<<Run(1, 5, 1, "given", None, <<1>>)>>)) \cup Grown(Movie),
      first \in UNION {Maybe(Fragment(<<Run(1, 3, 1, b, t, <<1>>), Run(2, 3, 2, "default", 0, <<1>>)>>)) :
                         b \in {"given", "moof", "default"}, t \in {None, 1}},
      second \in UNION {Maybe(Fragment(<<Run(1, 5, 2, b, 3, <<1>>), Run(2, 5, 1, "default", 1, <<1>>)>>)) :
                          b \in {"given", "default"}} }

InThis == Fragmented \cup Indexed
AnyFile == InThis \cup Identified
===============================================================================
