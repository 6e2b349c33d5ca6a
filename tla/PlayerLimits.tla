---------------------------- MODULE PlayerLimits ----------------------------
(***************************************************************************)
(* The two limits on what one player or address may do: wrong passwords in *)
(* a window (SignIn) and crash reports in an hour (CrashReports).  The two *)
(* count apart from each other.                                            *)
(***************************************************************************)
EXTENDS SignIn, CrashReports

LimitsInit == SignInInit /\ CrashInit
LimitsNext == \/ SignInNext /\ UNCHANGED crashVars
              \/ CrashNext /\ UNCHANGED signInVars
LimitsSpec == LimitsInit /\ [][LimitsNext]_<<signInVars, crashVars>>

(* Limits hold although calls count before they finish and lists are       *)
(* forgotten: wrong sign-ins in a window (ratelimit, auth/guard.go), crash *)
(* reports in an hour (crash/service.go).                                  *)
LimitsHold == GuessesBounded /\ HourlyBound
=============================================================================
