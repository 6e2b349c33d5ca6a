--------------------------- MODULE ReleaseHistory ---------------------------
(***************************************************************************)
(* What the publications of a build promise to its operator: there is at   *)
(* most one current publication and a history of the earlier ones.         *)
(* Publishing moves the current publication into the history, a rollback   *)
(* exchanges it with one from the history, and only withdrawing the whole  *)
(* build forgets a publication.  A build first published by a server of    *)
(* the old format brings that publication along as its history.            *)
(***************************************************************************)
CONSTANTS Builds, Ids, None

VARIABLES current,  \* build -> the publication players get, or None
          history   \* build -> the publications a rollback can restore

historyVars == <<current, history>>

Init == /\ current = [b \in Builds |-> None]
        /\ history = [b \in Builds |-> {}]

PublishFirst(b, id, imported) ==
  /\ current[b] = None
  /\ id \notin imported
  /\ current' = [current EXCEPT ![b] = id]
  /\ history' = [history EXCEPT ![b] = imported]

PublishNext(b, id) ==
  /\ current[b] # None
  /\ id \notin history[b] \cup {current[b]}
  /\ current' = [current EXCEPT ![b] = id]
  /\ history' = [history EXCEPT ![b] = @ \cup {current[b]}]

Rollback(b, id) ==
  /\ id \in history[b]
  /\ id # current[b]
  /\ current' = [current EXCEPT ![b] = id]
  /\ history' = [history EXCEPT ![b] = (@ \ {id}) \cup {current[b]}]

Withdraw(b) ==
  /\ current[b] # None
  /\ current' = [current EXCEPT ![b] = None]
  /\ history' = [history EXCEPT ![b] = {}]

Next ==
  \E b \in Builds :
    \/ \E id \in Ids : \E imported \in {{}} \cup {{l} : l \in Ids} :
         PublishFirst(b, id, imported)
    \/ \E id \in Ids : PublishNext(b, id)
    \/ \E id \in Ids : Rollback(b, id)
    \/ Withdraw(b)

Spec == Init /\ [][Next]_historyVars
=============================================================================
