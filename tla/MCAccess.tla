------------------------------ MODULE MCAccess ------------------------------
(* A small instance of AccessRules for TLC: one build whose list is a file. *)
EXTENDS AccessRules

FileRule ==
    {[source |-> "file", failOpen |-> FALSE, hidden |-> FALSE, publicObjects |-> FALSE]}
=============================================================================
