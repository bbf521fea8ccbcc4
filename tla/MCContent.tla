------------------------------ MODULE MCContent -----------------------------
(* Small instances of the content cache.                                   *)
EXTENDS Content, TLC

CONSTANTS f1, f2, w1, w2

\* Two versions of a file that shrinks, so that a stale length shows.
Shrinking == <<2, 1>>

Alike == Permutations({w1, w2}) \cup Permutations({f1, f2})
=============================================================================
