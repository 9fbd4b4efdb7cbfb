------------------------------ MODULE BoxReaderMC ------------------------------
(* Files of two boxes, every way to cut them short, read from either box.  *)
EXTENDS BoxReader

CONSTANTS HeaderLengths, Totals

Junk == [length |-> ShortestHeader, total |-> 0]

Boxes == [length : HeaderLengths, total : Totals \cup {ToEnd}]

Follows(first) ==
  IF Sized(first) /\ first.total < MaxPosition THEN first.total ELSE MaxPosition

TwoBoxes(first, second) ==
  [o \in 0..MaxPosition |->
     IF o = 0 THEN first
     ELSE IF o = Follows(first) THEN second
     ELSE Junk]

MCFiles ==
  { [headers |-> TwoBoxes(first, second), length |-> length,
     start |-> which * Follows(first)] :
      first, second \in Boxes, length \in 0..(MaxPosition - 1), which \in {0, 1} }
===============================================================================
