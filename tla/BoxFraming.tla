------------------------------ MODULE BoxFraming ------------------------------
(***************************************************************************)
(* What a caller of BoxReader is promised: the boxes of the file, end to   *)
(* end from where the reader starts, each opened, answered, and closed     *)
(* with exactly the payload bytes the answer asks for.  Nothing here knows *)
(* how the input is cut, so neither do the events, the failures or the     *)
(* offsets that a caller sees.                                             *)
(***************************************************************************)
EXTENDS FileLayout

VARIABLES
  file,  (* the file that is read                                          *)
  seen   (* what the caller knows: [phase, offset, answer, delivered]      *)

vars == <<file, seen>>

Phase == {"between", "opened", "reading", "ended", "failed"}

TypeOK ==
  /\ file \in File
  /\ seen \in [phase : Phase, offset : Offset,
               answer : Answer \cup {NoAnswer}, delivered : Seq(Offset)]

Init ==
  /\ file \in Files
  /\ seen = [phase |-> "between", offset |-> file.start,
             answer |-> NoAnswer, delivered |-> <<>>]
-------------------------------------------------------------------------------
(* The box at seen.offset, and where its payload lies.                     *)
Here == file.headers[seen.offset]

PayloadStart == seen.offset + Here.length

PayloadEnd == IF Sized(Here) THEN BoxEnd(seen.offset, Here) ELSE file.length

HeadEnd == AtMost(PayloadStart + seen.answer.bytes, PayloadEnd)

Now(phase) == seen.phase = phase

Become(phase) == seen' = [seen EXCEPT !.phase = phase]
-------------------------------------------------------------------------------
Open ==
  /\ Now("between")
  /\ PayloadStart <= file.length
  /\ ~SizeBelowHeader(Here)
  /\ seen' = [seen EXCEPT !.phase = "opened", !.delivered = <<>>]

Respond(answer) ==
  /\ Now("opened")
  /\ answer.kind = "gather" /\ Sized(Here) => PayloadLength(Here) <= answer.bytes
  /\ seen' = [seen EXCEPT !.phase = "reading", !.answer = answer]

(* Streamed bytes arrive in file order and none is left out.               *)
Deliver(to) ==
  /\ Now("reading")
  /\ seen.answer.kind = "stream"
  /\ LET from == PayloadStart + Len(seen.delivered)
     IN  /\ from < to
         /\ to <= AtMost(PayloadEnd, file.length)
         /\ seen' = [seen EXCEPT !.delivered = @ \o Bytes(from, to)]

(* What the caller holds of the payload once the box closes.               *)
Asked ==
  CASE seen.answer.kind \in {"gather", "stream"} -> Bytes(PayloadStart, PayloadEnd)
    [] seen.answer.kind = "head"                 -> Bytes(PayloadStart, HeadEnd)
    [] OTHER                                     -> <<>>

(* The file offset the bytes an answer asks for end at.                    *)
AskedEnd ==
  CASE seen.answer.kind \in {"gather", "stream"} -> PayloadEnd
    [] seen.answer.kind = "head"                 -> HeadEnd
    [] OTHER                                     -> 0

(* A box closes once what was asked of it is there, and the caller may be  *)
(* told in the same breath that the file has ended with it.                *)
Close ==
  /\ Now("reading")
  /\ AskedEnd <= file.length
  /\ seen.answer.kind = "stream" => seen.delivered = Asked
  /\ seen.answer.kind = "gather" => PayloadEnd - PayloadStart <= seen.answer.bytes
  /\ \E phase \in {"between", "ended"} :
       /\ phase = "ended" => PayloadEnd >= file.length
       /\ ~Sized(Here) => phase = "ended"
       /\ seen' = [phase |-> phase,
                   offset |-> IF Sized(Here) THEN PayloadEnd ELSE seen.offset,
                   answer |-> NoAnswer, delivered |-> Asked]

End ==
  /\ Now("between")
  /\ seen.offset >= file.length
  /\ Become("ended")

(* The framing is refused: a header cut short or that leaves itself out, a *)
(* box the file ends inside of, a payload to the end of the file that is   *)
(* longer than the caller gathers.                                         *)
Refuse ==
  /\ \/ /\ Now("between")
        /\ \/ PayloadStart <= file.length /\ SizeBelowHeader(Here)
           \/ seen.offset < file.length /\ file.length < PayloadStart
     \/ /\ Now("reading")
        /\ \/ AskedEnd > file.length
           \/ /\ seen.answer.kind = "gather"
              /\ ~Sized(Here)
              /\ PayloadEnd - PayloadStart > seen.answer.bytes
  /\ Become("failed")
-------------------------------------------------------------------------------
Next ==
  /\ \/ Open
     \/ \E answer \in Answer : Respond(answer)
     \/ \E to \in Offset : Deliver(to)
     \/ Close
     \/ End
     \/ Refuse
  /\ UNCHANGED file

Spec == Init /\ [][Next]_vars
===============================================================================
