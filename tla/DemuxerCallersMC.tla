---------------------------- MODULE DemuxerCallersMC ----------------------------
(* Files of a few boxes, each box a header of one byte and its payload.    *)
EXTENDS DemuxerCallers

Plain(kind) ==
  [kind |-> kind, payload |-> 1, readBack |-> 1, compressed |-> FALSE, id |-> None,
   runs |-> <<>>, tracks |-> {}, subsegments |-> 0]

Grown(box) == [box EXCEPT !.compressed = TRUE, !.readBack = 2]

Movie == [Plain("movie") EXCEPT !.tracks = {1, 2}]
MovieOf(runs) == [Movie EXCEPT !.runs = runs]
Fragment(runs) == [Plain("fragment") EXCEPT !.runs = runs]
MediaData(bytes) == [Plain("media") EXCEPT !.payload = bytes, !.readBack = bytes]
Imda(id, bytes) == [MediaData(bytes) EXCEPT !.kind = "identified", !.id = id]

Run(track, media, start, base, tfdt, sizes) ==
  [track |-> track, media |-> media, from |-> start, base |-> base, tfdt |-> tfdt,
   sizes |-> sizes, empty |-> FALSE]

BytesOf(boxes) == Contents!LengthBefore(boxes, Len(boxes) + 1)
Whole(boxes) == [boxes |-> boxes, toEnd |-> FALSE, length |-> BytesOf(boxes)]
ToEnd(boxes) == [boxes |-> boxes, toEnd |-> TRUE, length |-> BytesOf(boxes)]
Cut(boxes) == [boxes |-> boxes, toEnd |-> FALSE, length |-> BytesOf(boxes) - 1]

(* The samples of two tracks in a moov: in this file, and one in another.  *)
Chunks(media) ==
  MovieOf(<<Run(1, media, 0, "given", None, <<2>>), Run(2, media, 2, "given", None, <<1>>)>>)

Linked == MovieOf(<<Run(1, 2, 0, "given", None, <<2>>), Run(2, 0, 1, "given", None, <<1>>)>>)

(* A moov, plain or compressed, its media data, and a fragment after it.   *)
MovieFirst(movie) ==
  << movie, MediaData(3), Fragment(<<Run(1, 4, 0, "moof", 2, <<1>>), Run(2, 4, 1, "default", 1, <<1>>)>>),
     MediaData(2) >>

MovieLast == << Plain("other"), MediaData(3), Chunks(2) >>
MovieTwice == << Chunks(2), MediaData(3), Movie >>
MovieLong == << [Chunks(2) EXCEPT !.payload = 3, !.readBack = 3], MediaData(3) >>

(* Media data that shares bytes, or comes in another order than declared.  *)
Shared == << MovieOf(<<Run(1, 2, 0, "given", None, <<2>>), Run(2, 2, 1, "given", None, <<2>>)>>),
             MediaData(3) >>
Behind == << Movie, Fragment(<<Run(1, 5, 0, "moof", 0, <<2>>)>>),
             Fragment(<<Run(2, 4, 0, "moof", 0, <<2>>)>>), MediaData(2), MediaData(2) >>

(* Samples whose imda comes after them, before them, or runs to the end.   *)
Imdas ==
  << Movie, Fragment(<<Run(1, 4, 1, "default", 0, <<1>>), Run(2, 4, 2, "given", 0, <<1>>)>>),
     Fragment(<<Run(2, 5, 1, "default", 1, <<1>>)>>), Imda(7, 3), Imda(8, 2) >>

ImdaFirst ==
  << Movie, Imda(7, 2), Fragment(<<Run(1, 2, 1, "default", 0, <<1>>)>>) >>

ImdaLast == << Movie, Fragment(<<Run(1, 3, 1, "default", 0, <<1, 1>>)>>), Imda(7, 3) >>

(* A sample behind, and more ahead of it than memory is for.               *)
Split == << MediaData(1),
            MovieOf(<<Run(1, 1, 0, "given", None, <<1>>), Run(1, 3, 0, "given", None, <<1>>),
                      Run(2, 3, 1, "given", None, <<2>>)>>),
            MediaData(3) >>

(* Files that hold their samples in the order they declare them.           *)
AsDeclared ==
  { Whole(MovieFirst(Chunks(2))), Whole(MovieFirst(Grown(Chunks(2)))), ToEnd(MovieFirst(Linked)),
    Whole(Imdas), Whole(ImdaFirst), ToEnd(ImdaLast) }

AnyOrder == AsDeclared \cup { Whole(Shared), Whole(Behind), Whole(MovieLast), ToEnd(MovieLast), Whole(Split) }

(* Files that fail, too: cut short, or with a box that is refused.         *)
Refused ==
  { Whole(MovieTwice), Whole(MovieLong),
    Cut(MovieLast), Cut(ImdaLast), Cut(MovieFirst(Linked)) }

AnyFile == AnyOrder \cup Refused

FilesToPass == AsDeclared \cup Refused \cup { Whole(Split) }
FilesToSeek == AnyOrder \cup { Cut(MovieLast), Cut(ImdaLast) }
===============================================================================
