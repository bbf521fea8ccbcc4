------------------------------- MODULE MCTree -------------------------------
(***************************************************************************)
(* Small instances of Tree: two names, paths of at most two.               *)
(***************************************************************************)
EXTENDS Tree

CONSTANTS a, b

Swaps == Permutations(Names)
=============================================================================
