--------------------------- MODULE MediaDataReaderMC ---------------------------
(* Lists of locations to hand over, for files of FileLength bytes.         *)
EXTENDS MediaDataReader

At(track, start, end) == [track |-> track, start |-> start, end |-> end]

(* Samples that share bytes, lie out of order, have none, or run past a    *)
(* limit, in two lists: of a list that is refused none is held.            *)
Mixed == {At(1, 0, 3), At(2, 2, 4), At(1, 3, 5), At(2, 3, 3), At(1, 0, 5)}

AnyOrder == { << <<a, b>>, <<c, d>> >> : a, b, c, d \in Mixed }

(* A later list that lies earlier in the file.                             *)
EarlierInFile == { << <<At(1, 3, 6)>>, <<At(2, 0, 3)>> >> }
===============================================================================
