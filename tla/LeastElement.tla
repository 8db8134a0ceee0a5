---------------------------- MODULE LeastElement ----------------------------
(***************************************************************************)
(* The least number of a set: what a search from the front of a list finds.*)
(***************************************************************************)
EXTENDS Integers

Least(S) == CHOOSE k \in S : \A j \in S : k <= j
=============================================================================
