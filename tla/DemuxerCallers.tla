----------------------------- MODULE DemuxerCallers -----------------------------
(***************************************************************************)
(* The callers of a Demuxer: any caller, which makes every call in every   *)
(* order, and the two that the documentation of                            *)
(* crates/isobmff-mux/src/lib.rs shows.  Both of these pass a piece of the *)
(* file a call, or finish where the file has no more, and take the samples *)
(* after each call.  The one that can seek passes a piece from where bytes *)
(* are wanted; the one that cannot passes the file in order, each piece    *)
(* again while events come or bytes of it are wanted.                      *)
(***************************************************************************)
EXTENDS Demuxer

CONSTANTS
  PieceBytes,    (* the longest piece that a caller cuts                   *)
  SeekingFiles,  (* the files that the one that can seek is given          *)
  PassedFiles    (* those that the other is given                          *)

ASSUME PieceAssumption == PieceBytes \in Nat \ {0}

VARIABLES
  piece,  (* the piece to pass, none at the end of the file                *)
  turn,   (* "pass" it, "take" the samples, or "stop"                      *)
  caller  (* "seeking", "passing", or "any"                                *)

callerVars == <<vars, piece, turn, caller>>

Pieces(at) ==
  IF at >= file.length THEN {[start |-> file.length, end |-> file.length]}
  ELSE {[start |-> at, end |-> end] : end \in (at + 1)..Min({at + PieceBytes, file.length})}

CallerInit ==
  /\ Init
  /\ \/ /\ caller = "any" /\ turn = "any"
        /\ piece = [start |-> 0, end |-> 0]
     \/ /\ caller = "seeking" /\ turn = "pass"
        /\ file \in SeekingFiles
        /\ piece \in Pieces(0)
     \/ /\ caller = "passing" /\ turn = "pass"
        /\ file \in PassedFiles
        /\ piece \in Pieces(0)

AnyCall ==
  /\ turn = "any"
  /\ Next
  /\ UNCHANGED <<piece, turn>>

Ended == piece.start = file.length

Pass ==
  /\ turn = "pass"
  /\ ~Ended
  /\ HandleInput(piece.start, piece.end)
  /\ turn' = "take"
  /\ UNCHANGED piece

FinishFile ==
  /\ turn = "pass"
  /\ Ended
  /\ Finish
  /\ turn' = "take"
  /\ UNCHANGED piece

Take ==
  /\ turn = "take"
  /\ PollSample
  /\ UNCHANGED <<piece, turn>>

Taken == turn = "take" /\ (held # <<>> => Head(held).missing # <<>>)

(* The loop ends with a failure, or with the file.                         *)
Stop ==
  /\ Taken
  /\ Failed \/ (Ended /\ answer = "end")
  /\ turn' = "stop"
  /\ UNCHANGED <<vars, piece>>

PassNext(pieces) ==
  /\ Taken
  /\ ~Failed /\ ~(Ended /\ answer = "end")
  /\ turn' = "pass"
  /\ piece' \in pieces
  /\ UNCHANGED vars

(* The caller that can seek.                                               *)
Seek ==
  /\ caller = "seeking"
  /\ PassNext(Pieces(IF WantedOffsets = {} THEN file.length ELSE WantedFirst(WantedOffsets)))

(* The caller that cannot.                                                 *)
AgainWhileWanted == WantedOffsets # {}  (* slip: for bytes of later pieces *)
AgainForEvents == answer = "event"  (* slip: not for the bytes it wants *)
AgainNever == FALSE  (* slip: each piece is passed once *)
Again ==
  \/ answer = "event"
  \/ WantedOffsets # {} /\ WantedFirst(WantedOffsets) \in piece.start..piece.end - 1

Follow ==
  /\ caller = "passing"
  /\ PassNext(IF Again THEN {piece} ELSE Pieces(piece.end))

Stopped == turn = "stop" /\ UNCHANGED callerVars

CallerNext ==
  /\ AnyCall \/ Pass \/ FinishFile \/ Take \/ Stop \/ Seek \/ Follow \/ Stopped
  /\ UNCHANGED caller

(* A caller goes on until it stops.  Each of its steps changes the turn,   *)
(* or takes a sample, and one is possible in every state (TLC reports no   *)
(* deadlock): this is weak fairness of the next-state relation, without    *)
(* ENABLED.                                                                *)
GoesOn == []<>(turn = "stop") \/ []<><<TRUE>>_callerVars

CallerSpec == CallerInit /\ [][CallerNext]_callerVars /\ GoesOn
-------------------------------------------------------------------------------
(* PROPERTIES                                                              *)

(* No piece starts past what the boxes want: the input of neither caller   *)
(* is refused.                                                             *)
NeverRefused == turn = "pass" /\ ~Ended /\ BoxesWant => piece.start <= position

Lacks(sample, input) ==
  \E i \in DOMAIN sample.missing :
    sample.missing[i].start < input.end /\ input.start < sample.missing[i].end

(* Of a piece that the sequential caller leaves, in a failing call or not, *)
(* no sample located by then lacks a byte, but for one that the call left  *)
(* no room to allocate and that failed: a box that fails does not cost the *)
(* media data that came with it.  Where a sample lacks a byte of a piece   *)
(* before, which that caller does not pass again, it does not tell what it *)
(* leaves.                                                                 *)
LacksBefore == \E k \in DOMAIN held : \E i \in DOMAIN held[k].missing :
                 held[k].missing[i].start < piece.start

KeepsItsInput ==
  caller = "passing" /\ Taken /\ ~Ended /\ ~Again =>
    \/ LacksBefore
    \/ \A k \in DOMAIN held : Lacks(held[k], piece) => Failed /\ held[k].data = <<>>

(* A file that is whole, has one moov, and no box past the limit.          *)
Sound ==
  /\ file.length = BoxEnd(Len(Boxes))
  /\ Cardinality({i \in DOMAIN Boxes : Boxes[i].kind = "movie"}) = 1
  /\ \A i \in DOMAIN Boxes :
       Max({Boxes[i].payload, Boxes[i].readBack}) <= PayloadBytes
       \/ Skipped(Boxes[i]) \/ GathersHead(Boxes[i])

(* A file whose boxes each come before the media data they declare.  The   *)
(* samples of an imda to the end of the file are located at that end only. *)
Progressive ==
  \A i \in DOMAIN Boxes : Declaring(i) =>
    \A j \in DOMAIN Boxes[i].runs :
      /\ Boxes[i].runs[j].media \in {0} \cup (i + 1)..Len(Boxes)
      /\ Contents!InImda(Boxes, Boxes[i].runs[j]) => ~RunsToFileEnd(Boxes[i].runs[j].media)

TakenAll ==
  LET true == FlattenSeq([i \in DOMAIN Boxes |-> IF Declaring(i) THEN TrueHere(i) ELSE <<>>])
  IN  /\ answer = "end"
      /\ ToBag([k \in DOMAIN taken |-> What(taken[k].location)]) = ToBag(true)

(* Memory for the longest sample is enough where they are located in the   *)
(* order they lie; elsewhere a caller that seeks may fail on it.           *)
LocatedInOrder == \A k \in 2..Len(located) : located[k - 1].end <= located[k].start

(* "Such a caller reads the samples of a file whose moov and moofs each    *)
(* come before their media data": the caller that cannot seek gets all of  *)
(* them, and the one that can gets them wherever they lie.                 *)
ReadsAll ==
  turn = "stop" /\ Sound =>
    \/ TakenAll
    \/ caller = "passing" /\ ~Progressive
    \/ caller = "seeking" /\ answer = "full" /\ ~LocatedInOrder

(* The loops of the two callers end, on any file.                          *)
Stops == <>(turn \in {"stop", "any"})
===============================================================================
