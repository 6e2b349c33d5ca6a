---------------------------- MODULE MCObjectStore ----------------------------
(* Small instances of ObjectStore for TLC. *)
EXTENDS ObjectStore, TLC

Permuted == Permutations(Files) \cup Permutations(Contents) \cup Permutations(Callers)
=============================================================================
