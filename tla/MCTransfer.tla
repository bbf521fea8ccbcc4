----------------------------- MODULE MCTransfer -----------------------------
(* Two clients save one document.                                          *)
EXTENDS Transfer, TLC

CONSTANTS a, b

TwoClients == Permutations({a, b})
=============================================================================
