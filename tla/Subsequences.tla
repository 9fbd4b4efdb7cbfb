----------------------------- MODULE Subsequences -----------------------------
(***************************************************************************)
(* The elements of a sequence at some of its places, in their order: what  *)
(* Vec::retain and Iterator::filter leave of it.                           *)
(***************************************************************************)
EXTENDS Integers, FiniteSets, Sequences

(* The place that k of the places, itself among them, do not lie behind.   *)
Nth(places, k) == CHOOSE i \in places : Cardinality({j \in places : j <= i}) = k

Picked(seq, places) == [k \in 1..Cardinality(places) |-> seq[Nth(places, k)]]

Where(seq, Passes(_)) == Picked(seq, {i \in DOMAIN seq : Passes(seq[i])})
===============================================================================
