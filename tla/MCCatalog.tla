------------------------------ MODULE MCCatalog ------------------------------
(***************************************************************************)
(* A small instance of Catalog for TLC.  Two builds matter when a scan     *)
(* fails on one of them, two requests for the lock, with a restart for     *)
(* what is seen in the end; and the folder may be unreachable for a while. *)
(* `scope`, chosen in the initial state, says which of the three a         *)
(* behaviour is about and is no part of the program.                       *)
(***************************************************************************)
EXTENDS Catalog

VARIABLE scope

\* The one build or request where the scope does not have two.
OneBuild == CHOOSE b \in Builds : TRUE
OneRequest == CHOOSE s \in Requests : TRUE

Has(b) == scope = "builds" \/ b = OneBuild
Asks(s) == scope = "requests" \/ s = OneRequest

mcVars == <<vars, scope>>

MCInit ==
  /\ Init
  /\ scope \in {"builds", "requests", "absence"}
  /\ flat \subseteq {OneBuild}

\* A build that is not there has no folder to be found.
ScanStep(s) ==
  /\ Asks(s) /\ ScanNext(s)
  /\ \A b \in scan'[s].todo : Has(b)
  /\ UNCHANGED scope

MCNext ==
  \/ \E b \in Builds : Has(b) /\ CommandNext(b) /\ UNCHANGED scope
  \/ \E s \in Requests : ScanStep(s)
  \/ TimePasses /\ UNCHANGED scope
  \/ scope = "requests" /\ Crash /\ UNCHANGED scope
  \/ scope = "absence" /\ (GoAway \/ ComeBack) /\ UNCHANGED scope

\* The fairness of FairSpec, for the requests there are.
MCSpec ==
  /\ MCInit /\ [][MCNext]_mcVars
  /\ WF_mcVars(TimePasses /\ UNCHANGED scope)
  /\ WF_mcVars(ComeBack /\ UNCHANGED scope)
  /\ \A s \in Requests : WF_mcVars(ScanStep(s))
==============================================================================
