-------------------------- MODULE MCSharedDatabase --------------------------
(* Server processes on one database, for TLC.                              *)
EXTENDS SharedDatabase, TLC

CONSTANTS w1, w2, d1, d2, alice, bob, null

Symmetric == Permutations(Workers) \cup Permutations(Devices) \cup Permutations(Names)
=============================================================================
