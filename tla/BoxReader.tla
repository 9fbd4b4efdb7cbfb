------------------------------- MODULE BoxReader -------------------------------
(***************************************************************************)
(* BoxReader of crates/isobmff/src/framing/box_reader.rs: frames the boxes *)
(* of a file out of input that arrives cut anywhere, may overlap what was  *)
(* passed before, and may run past the box being read.                     *)
(*                                                                         *)
(* The bytes of the file are named by their offsets, so `gathered` is the  *)
(* sequence of the offsets of the bytes the code gathers.  `progress` is   *)
(* the enum Progress, its fields in variables of their own.  A call that   *)
(* is refused (input past the wanted offset, an unanswered header, an      *)
(* answer no header waits for, a failed reader) changes nothing, which is  *)
(* a stuttering step; its conditions are the guards of the actions.        *)
(***************************************************************************)
EXTENDS FileLayout

VARIABLES
  file,         (* the file: the input of every call is a piece of it      *)
  position,     (* file offset of the next byte the reader takes           *)
  progress,     (* which variant of Progress the reader is in              *)
  needed,       (* bytes of the header being read, as far as it is known   *)
  box,          (* file offset of the box being read                       *)
  answer,       (* what the caller answered its header with                *)
  gathered,     (* the header being read, and the payload being gathered   *)
  atEndOfFile,  (* whether finish has ended the file                       *)
  seen          (* what the calls have returned, as BoxFraming tells it    *)

reader == <<position, progress, needed, box, answer, gathered, atEndOfFile>>
vars == <<file, reader, seen>>

Progress == {"Header", "Opened", "Payload", "Gathered", "Failed"}

TypeOK ==
  /\ file \in File
  /\ position \in Offset
  /\ progress \in Progress
  /\ needed \in {n \in Nat : n >= ShortestHeader}
  /\ box \in Offset
  /\ answer \in Answer \cup {NoAnswer}
  /\ gathered \in Seq(Offset)
  /\ atEndOfFile \in BOOLEAN
  /\ seen \in [phase : {"between", "opened", "reading", "ended", "failed"},
               offset : Offset, answer : Answer \cup {NoAnswer},
               delivered : Seq(Offset)]

Init ==
  /\ file \in Files
  /\ position = file.start
  /\ progress = "Header"
  /\ needed = ShortestHeader
  /\ box = file.start
  /\ answer = NoAnswer
  /\ gathered = <<>>
  /\ atEndOfFile = FALSE
  /\ seen = [phase |-> "between", offset |-> file.start,
             answer |-> NoAnswer, delivered |-> <<>>]
-------------------------------------------------------------------------------
(* The header of the box being read: what BoxHeader::decode makes of the   *)
(* bytes from its first one on.                                            *)
TheHeader == file.headers[box]

ToFileEnd == ~Sized(TheHeader)

EndForgetsOffset == TheHeader.total  (* slip: a length taken for an offset *)
End == BoxEnd(box, TheHeader)

RemainingForgetsOffset == AtLeast(TheHeader.total - position, 0)  (* slip: likewise *)
Remaining == AtLeast(End - position, 0)

(* The head a caller gets is no longer than the payload of a sized box.    *)
HeadBytes ==
  IF ToFileEnd THEN answer.bytes ELSE AtMost(answer.bytes, PayloadLength(TheHeader))

GatheredWithHeader == Len(gathered)  (* slip: the header counted as payload *)
GatheredPayload == AtLeast(Len(gathered) - TheHeader.length, 0)

HeadWantedWhole == IF ToFileEnd THEN HeadBytes ELSE Remaining  (* slip: all of the box *)
HeadWanted ==
  LET left == AtLeast(HeadBytes - GatheredPayload, 0)
  IN  IF ToFileEnd THEN left ELSE AtMost(Remaining, left)

(* Slip: a skipped box that runs to the end of the file is read through.   *)
WantsInputToTheEnd == ~atEndOfFile /\ progress # "Failed"

(* Whether wanted_input names bytes, the ones from `position` on.          *)
WantsInput ==
  /\ ~atEndOfFile
  /\ progress # "Failed"
  /\ ~ /\ progress = "Payload"
       /\ ToFileEnd
       /\ answer.kind = "skip" \/ (answer.kind = "head" /\ HeadWanted = 0)

Answered == progress \notin {"Opened", "Failed"}

(* leave_gathered: the box last gathered is let go of by the next call.    *)
IsGathered == progress = "Gathered"
GatheredNotLetGo == gathered  (* slip: the last box stays gathered *)
KeptGathered == IF IsGathered THEN <<>> ELSE gathered
KeptNeeded == IF IsGathered THEN ShortestHeader ELSE needed
ReadsHeader == progress \in {"Header", "Gathered"}
-------------------------------------------------------------------------------
Fail ==
  /\ progress' = "Failed"
  /\ seen' = [seen EXCEPT !.phase = "failed"]
  /\ UNCHANGED <<needed, box, answer>>

(* read_header, over input that holds the bytes from `position` to `upTo`. *)
(* The loop takes the fields every header opens with, learns from them how *)
(* long the header is, and takes the rest of it.                           *)
ReadHeader(upTo) ==
  LET start == position - Len(KeptGathered)
      header == file.headers[start]
      known == IF upTo - start < KeptNeeded THEN KeptNeeded ELSE header.length
      whole == upTo - start >= known
      taken == IF whole THEN start + known ELSE upTo
  IN  /\ position' = taken
      /\ gathered' = KeptGathered \o Bytes(position, taken)
      /\ \/ /\ ~whole
            /\ progress' = "Header"
            /\ needed' = known
            /\ UNCHANGED <<box, answer, seen>>
         \/ /\ whole
            /\ SizeBelowHeader(header)
            /\ Fail
         \/ /\ whole
            /\ ~SizeBelowHeader(header)
            /\ progress' = "Opened"
            /\ needed' = ShortestHeader
            /\ box' = start
            /\ seen' = [seen EXCEPT !.phase = "opened", !.offset = start,
                                    !.delivered = <<>>]
            /\ UNCHANGED answer

(* No box follows one that runs to the end of the file.                    *)
NextBox(at) == IF ToFileEnd THEN box ELSE at

(* The end of read_payload: the box closes at `at`, and its gathered bytes *)
(* stay until the next call.                                               *)
CloseBox(at, bytes, phase) ==
  /\ position' = at
  /\ needed' = ShortestHeader
  /\ answer' = NoAnswer
  /\ IF answer.kind \in {"gather", "head"}
     THEN /\ progress' = "Gathered"
          /\ gathered' = bytes
          /\ seen' = [phase |-> phase, offset |-> NextBox(at), answer |-> NoAnswer,
                      delivered |-> SubSeq(bytes, TheHeader.length + 1, Len(bytes))]
     ELSE /\ progress' = "Header"
          /\ gathered' = <<>>
          /\ seen' = [seen EXCEPT !.phase = phase, !.offset = NextBox(at),
                                  !.answer = NoAnswer]
  /\ UNCHANGED box

(* The end of read_payload where the payload is not through yet.           *)
KeepBox(at, bytes) ==
  /\ position' = at
  /\ gathered' = bytes
  /\ UNCHANGED <<progress, needed, box, answer, seen>>

ReadSkipped ==
  /\ answer.kind = "skip"
  /\ ~ToFileEnd
  /\ CloseBox(position, gathered, "between")

ReadStreamed(upTo) ==
  /\ answer.kind = "stream"
  /\ LET taken == IF ToFileEnd THEN upTo ELSE AtMost(upTo, AtLeast(End, position))
     IN  \/ /\ taken > position
            /\ position' = taken
            /\ seen' = [seen EXCEPT !.delivered = @ \o Bytes(position, taken)]
            /\ UNCHANGED <<progress, needed, box, answer, gathered>>
         \/ /\ taken = position
            /\ CloseBox(position, gathered, "between")

ReadHead(upTo) ==
  /\ answer.kind = "head"
  /\ LET taken == AtMost(upTo, position + HeadWanted)
         bytes == gathered \o Bytes(position, taken)
         complete == ~ToFileEnd /\ Len(bytes) - TheHeader.length >= HeadBytes
     IN  IF complete THEN CloseBox(End, bytes, "between")
                     ELSE KeepBox(taken, bytes)

(* A payload to the end of the file fails at one byte past its limit,      *)
(* wherever the input was cut.                                             *)
ReadGathered(upTo) ==
  /\ answer.kind = "gather"
  /\ LET pastLimit == AtLeast(answer.bytes - GatheredPayload, 0) + 1
         wanted == IF ToFileEnd THEN pastLimit ELSE AtMost(Remaining, pastLimit)
         taken == AtMost(upTo, position + wanted)
         bytes == gathered \o Bytes(position, taken)
     IN  IF GatheredPayload + (taken - position) > answer.bytes
         THEN /\ position' = taken
              /\ UNCHANGED gathered
              /\ Fail
         ELSE IF ~ToFileEnd /\ taken = End
              THEN CloseBox(taken, bytes, "between")
              ELSE KeepBox(taken, bytes)
-------------------------------------------------------------------------------
(* handle_input(offset, input), where the input holds the bytes of the     *)
(* file from `offset` to `upTo`: the bytes before the wanted offset are    *)
(* passed over, and one event at most is read out of the rest.             *)
HandleInput(offset, upTo) ==
  /\ Answered
  /\ WantsInput
  /\ offset <= position
  /\ IF upTo <= position
     THEN /\ progress' = IF IsGathered THEN "Header" ELSE progress
          /\ gathered' = KeptGathered
          /\ needed' = KeptNeeded
          /\ UNCHANGED <<position, box, answer, seen>>
     ELSE \/ ReadsHeader /\ ReadHeader(upTo)
          \/ /\ progress = "Payload"
             /\ \/ ReadSkipped
                \/ ReadStreamed(upTo)
                \/ ReadHead(upTo)
                \/ ReadGathered(upTo)
  /\ UNCHANGED <<file, atEndOfFile>>

(* gather, gather_head, stream and skip: the answer the open header waits  *)
(* for.  A gather the header declares too long for is refused, the box     *)
(* left open.  A skip, and a head of no bytes, of a sized box moves past   *)
(* it at once.                                                             *)
Respond(given) ==
  /\ progress = "Opened"
  /\ given.kind = "gather" /\ ~ToFileEnd => PayloadLength(TheHeader) <= given.bytes
  /\ LET noBytes == given.kind = "head"
                    /\ (given.bytes = 0 \/ (~ToFileEnd /\ PayloadLength(TheHeader) = 0))
     IN  position' = IF ~ToFileEnd /\ (given.kind = "skip" \/ noBytes) THEN End ELSE position
  /\ progress' = "Payload"
  /\ answer' = given
  /\ seen' = [seen EXCEPT !.phase = "reading", !.answer = given]
  /\ UNCHANGED <<file, needed, box, gathered, atEndOfFile>>

(* finish, which the caller calls once there is no more input to pass: the *)
(* reader wants none, or wants bytes past those of the file.               *)
Finish ==
  /\ Answered
  /\ ~WantsInput \/ position >= file.length
  /\ atEndOfFile' = TRUE
  /\ \/ /\ ReadsHeader
        /\ IF KeptGathered # <<>>
           THEN Fail /\ UNCHANGED gathered
           ELSE /\ progress' = "Header"
                /\ gathered' = <<>>
                /\ needed' = KeptNeeded
                /\ seen' = [seen EXCEPT !.phase = "ended"]
                /\ UNCHANGED <<box, answer>>
        /\ UNCHANGED position
     \/ /\ progress = "Payload"
        /\ ~ToFileEnd => Remaining = 0
        /\ CloseBox(position, gathered, "ended")
     \/ /\ progress = "Payload"
        /\ ~ToFileEnd /\ Remaining > 0
        /\ Fail
        /\ UNCHANGED <<position, gathered>>
  /\ UNCHANGED file
-------------------------------------------------------------------------------
Next ==
  \/ \E offset, upTo \in 0..file.length : HandleInput(offset, upTo)
  \/ \E given \in Answer : Respond(given)
  \/ Finish

Spec == Init /\ [][Next]_vars

(* The caller of the documentation: it answers every header, passes input  *)
(* from the wanted offset on as long as there is any, and finishes.        *)
PassWanted == \E upTo \in (position + 1)..file.length : HandleInput(position, upTo)
Answers == \E given \in Answer : Respond(given)

FairSpec == Spec /\ WF_vars(PassWanted) /\ WF_vars(Answers) /\ WF_vars(Finish)
-------------------------------------------------------------------------------
(* PROPERTIES                                                              *)

(* The boxes, answers, payload bytes, failures and the end of the file are *)
(* reported as BoxFraming promises, however the input was cut and however  *)
(* much of it was passed again.                                            *)
Framing == INSTANCE BoxFraming

ImplementsFraming == Framing!Spec

(* What is gathered of a payload is never more than the caller answered:   *)
(* its limit, or the head asked for.  It is the memory a file that         *)
(* declares large sizes, or none, can make the reader take.                *)
GatheredWithinAsked ==
  progress = "Payload" =>
    Len(gathered) - TheHeader.length <=
      CASE answer.kind = "gather" -> answer.bytes
        [] answer.kind = "head"   -> HeadBytes
        [] OTHER                  -> 0

(* The bytes gathered are those of the box being read, in file order, from *)
(* its first header byte on, none missing and none twice: gathered_box     *)
(* decodes them as one box.                                                *)
GatheredIsOneRun ==
  /\ progress = "Header" => gathered = Bytes(position - Len(gathered), position)
  /\ progress \in {"Opened", "Payload", "Gathered"} =>
       gathered = Bytes(box, box + Len(gathered))

(* The reader wants no byte of a payload it skips, or past the head it     *)
(* gathers: a caller that seeks never reads them.                          *)
NeverWantsSkipped ==
  WantsInput /\ progress = "Payload" /\ answer.kind \in {"skip", "head"} =>
    \/ ~ToFileEnd /\ position = End
    \/ /\ answer.kind = "head"
       /\ position < box + TheHeader.length + HeadBytes

(* The reader never goes back: a caller that cannot seek can pass the file *)
(* on as it comes and drop what it passed.                                 *)
NeverGoesBack == [][position' >= position]_vars

(* A caller that passes what is wanted and finishes gets to the end of the *)
(* file or to a failure; no box keeps the reader asking for ever.          *)
Ends == <>(seen.phase \in {"ended", "failed"})
===============================================================================
