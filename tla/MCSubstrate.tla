---------------------------- MODULE MCSubstrate ----------------------------
(* One file or directory, two workers at the net pool.                     *)
EXTENDS Substrate, TLC

CONSTANTS n1, n2, x, d
=============================================================================
