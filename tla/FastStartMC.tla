------------------------------ MODULE FastStartMC ------------------------------
(* Movie files of up to four boxes, and what makes them refused.           *)
EXTENDS FastStart

Box(type, bytes) ==
  [type |-> type, bytes |-> bytes, reads |-> TRUE, fragmented |-> FALSE, items |-> <<>>]

Ftyp == Box("ftyp", 1)
Media == Box("mdat", 3)
Moov == Box("moov", 3)
Meta(method, reference) ==
  [Box("meta", 2) EXCEPT !.items = << [method |-> 1, reference |-> 0], [method |-> method, reference |-> reference] >>]

Sum(order) == FoldLeft(LAMBDA sum, box : sum + box.bytes, 0, order)
Whole(order, tracks) ==
  [boxes |-> order, toEnd |-> FALSE, length |-> Sum(order), movie |-> tracks]
ToEnd(order, tracks) == [Whole(order, tracks) EXCEPT !.toEnd = TRUE]
Cut(order, tracks) == [Whole(order, tracks) EXCEPT !.length = @ - 1]

Table(offsets, wide) == [offsets |-> offsets, wide |-> wide]
Track(chunks, auxiliary) ==
  [chunks |-> chunks, auxiliary |-> auxiliary, entries |-> <<[first |-> 1, description |-> 1]>>, local |-> {1}]
Elsewhere(track) ==
  [track EXCEPT !.entries = << [first |-> 1, description |-> 1], [first |-> 2, description |-> 2] >>]

Orders ==
  { << Ftyp, Media, Moov >>, << Media, Ftyp, Moov >>, << Media, Moov, Media >>,
    << Ftyp, Moov, Media >>, << Media, Box("free", 2), Moov, Ftyp >>,
    << Media, Meta(0, 1), Moov >>, << Media, Moov >> }

(* Two tables of offsets anywhere, the second in a saio or another track.  *)
Movies ==
  { << Track(Table(<<a, b>>, FALSE), <<Table(<<b>>, FALSE)>>) >> : a, b \in 0..8 }
  \cup { << Track(Table(<<a>>, wide), <<>>), Elsewhere(Track(Table(<<5, b>>, FALSE), <<Table(<<b, 4>>, FALSE)>>)) >> :
           a, b \in 1..6, wide \in BOOLEAN }

(* Tables that widen one for the other.                                    *)
Cascade ==
  << Track(Table(<<2, 4>>, FALSE), <<Table(<<1>>, FALSE)>>), Track(Table(<<3>>, FALSE), <<>>) >>

(* A stsc without an entry, or one whose entries start late or go back.    *)
Odd(entries) == << [Track(Table(<<1, 2>>, FALSE), <<>>) EXCEPT !.entries = entries] >>
OddMovies ==
  { Odd(<<>>), << Track(Table(<<>>, FALSE), <<Table(<<1>>, FALSE)>>) >>, <<>>, 
    Odd(<< [first |-> 2, description |-> 2] >>),
    Odd(<< [first |-> 1, description |-> 1], [first |-> 3, description |-> 1], [first |-> 2, description |-> 2] >>) }

Simple == << Track(Table(<<2>>, FALSE), <<>>) >>

Refused ==
  { << Media >>, << Media, Moov, Moov >>, << Moov, Media, Moov >>, << Media, Moov, Box("moof", 1) >>,
    << Media, [Moov EXCEPT !.bytes = 5] >>, << Media, Meta(0, 0), Moov >>, << Media, Meta(1, 0), Moov >>,
    << Media, [Moov EXCEPT !.reads = FALSE] >>, << Media, [Moov EXCEPT !.fragmented = TRUE] >>,
    << Media, [Moov EXCEPT !.items = << [method |-> 0, reference |-> 0] >>] >>,
    << Media, Ftyp, Ftyp, Ftyp, Moov >>, << Moov, Box("meta", 5) >>, << Media, Moov, [Ftyp EXCEPT !.bytes = 2] >> }

AnyFile ==
  { Whole(order, tracks) : order \in Orders, tracks \in Movies \cup OddMovies }
  \cup { ToEnd(order, tracks) : order \in {o \in Orders : Last(o) # Ftyp}, tracks \in Movies \cup OddMovies }
  \cup { Whole(order, tracks) : order \in Refused, tracks \in {Simple, Cascade} }
  \cup { ToEnd(order, tracks) : order \in Refused, tracks \in {Simple, Cascade} }
  \cup { Cut(order, tracks) : order \in {o \in Orders \cup Refused : Last(o).bytes > 1},
                             tracks \in {Simple, Cascade} }
===============================================================================
