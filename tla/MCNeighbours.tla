---------------------------- MODULE MCNeighbours ---------------------------
(***************************************************************************)
(* Three processes of one account, two mountpoints, two edits.             *)
(***************************************************************************)
EXTENDS Neighbours, TLC

CONSTANTS m1, m2, m3, home, elsewhere

Alike == Permutations({m1, m2, m3})
=============================================================================
