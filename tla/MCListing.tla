----------------------------- MODULE MCListing ------------------------------
(* A directory of two files.                                               *)
EXTENDS Listing, TLC

CONSTANTS a, b

TwoNames == Permutations({a, b})
=============================================================================
