------------------------------ MODULE FileLayout ------------------------------
(***************************************************************************)
(* What a file is to the framing layer of crates/isobmff: bytes, each      *)
(* named by the file offset it lies at, and, for every offset, the box     *)
(* header that decoding the bytes from there on gives.  Shared by the      *)
(* promise of the reader (BoxFraming) and by the reader (BoxReader).       *)
(***************************************************************************)
EXTENDS Integers, Sequences

CONSTANTS
  MaxPosition,     (* the largest file offset: u64::MAX in the code        *)
  ShortestHeader,  (* bytes of the fields every header opens with: 8       *)
  ToEnd,           (* the size of a box that runs to the end of the file   *)
  Files            (* the files that are read                              *)

ASSUME LayoutAssumption ==
  /\ MaxPosition \in Nat
  /\ ShortestHeader \in Nat \ {0}
  /\ ToEnd \notin Nat

Offset == 0..MaxPosition

(* A header: its own length, which it tells once its first ShortestHeader  *)
(* bytes are there, and the total it declares for its box.                 *)
Header == [length : {n \in Nat : n >= ShortestHeader}, total : Offset \cup {ToEnd}]

(* No file is MaxPosition bytes long: an offset can always be passed.      *)
File == [headers : [Offset -> Header],
         length  : {n \in Nat : n < MaxPosition},
         start   : Offset]

ASSUME FilesAssumption == Files \subseteq File

(* Bytes `from` up to `to`, `to` excluded, in file order.                  *)
Bytes(from, to) == [i \in 1..(to - from) |-> from + i - 1]

AtMost(a, b) == IF a <= b THEN a ELSE b

AtLeast(a, b) == IF a >= b THEN a ELSE b

Sized(header) == header.total # ToEnd

(* BoxHeader::decode refuses a total that leaves out the header itself.    *)
SizeBelowHeader(header) == Sized(header) /\ header.total < header.length

(* BoxHeader::payload_len, of a header that is sized.                      *)
PayloadLength(header) == header.total - header.length

(* The file offset just past a sized box, as far as a u64 goes.            *)
BoxEnd(offset, header) == AtMost(offset + header.total, MaxPosition)
-------------------------------------------------------------------------------
(* What the caller may answer a header with.                               *)
CONSTANTS
  Limits,  (* the payload lengths a caller gathers at most                 *)
  Heads    (* the lengths of the heads a caller gathers                    *)

ASSUME AnswerAssumption == Limits \subseteq Nat /\ Heads \subseteq Nat

Answer == [kind : {"gather"}, bytes : Limits] \cup
          [kind : {"head"}, bytes : Heads] \cup
          [kind : {"stream", "skip"}, bytes : {0}]

(* Stands where no answer is given.                                        *)
NoAnswer == [kind |-> "none", bytes |-> 0]
===============================================================================
