------------------------------- MODULE MCJobs -------------------------------
(* Small instances of Jobs for TLC. *)
EXTENDS Jobs, TLC

\* Identifiers, owners and command lines are only compared for equality.
Permuted == Permutations(Ids) \cup Permutations(Owners) \cup Permutations(Commands)
=============================================================================
