----------------------------- MODULE BoxWriterMC -----------------------------
(* Headers of both forms, with payload and without, to the end of the file *)
(* and of a type that does not write.                                      *)
EXTENDS BoxWriter

AnyHeaders ==
  { Compact("free", 0), Compact("mdat", 2), Large("mdat", 0), Large("mdat", 1),
    Header("mdat", ToEnd, 1), Header("mdat", ToEnd, 2), Compact("reserved type", 1) }
===============================================================================
