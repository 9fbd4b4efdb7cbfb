------------------------------ MODULE RecordedFile ------------------------------
(***************************************************************************)
(* What a caller of Muxer is promised of the samples it hands over: a      *)
(* reader of what is on disk finds the first of them, in their order, and  *)
(* a sample it has found once it always finds: whenever the writing stops, *)
(* a finish that lays the file out again included.  Nothing here knows of  *)
(* boxes or of file offsets.                                               *)
(***************************************************************************)
EXTENDS Integers

VARIABLES
  given,  (* how many samples the muxer has accepted                       *)
  kept    (* those of them that a reader of what is on disk finds          *)

vars == <<given, kept>>

Init == given = 0 /\ kept = {}

Give == given' > given /\ given' \in Nat /\ UNCHANGED kept

Keep ==
  /\ UNCHANGED given
  /\ kept \subseteq kept'
  /\ \E n \in 0..given : kept' = 1..n

Spec == Init /\ [][Give \/ Keep]_vars
===============================================================================
