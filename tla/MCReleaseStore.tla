--------------------------- MODULE MCReleaseStore ---------------------------
(* Instances of ReleaseStore for TLC. *)
EXTENDS ReleaseStore, FiniteSets, TLC

Permuted == Permutations(Ids) \cup Permutations(Workers)
            \cup Permutations(Contents)

\* Once a client holds a plan, two publications per build; without plans as
\* many as there are Ids.
PlannedIds == 2
FewOncePlanned ==
  \A b \in Builds : planned[b].input # None
                       => Cardinality(used[b] \cap Ids) <= PlannedIds
=============================================================================
