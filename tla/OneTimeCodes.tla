---------------------------- MODULE OneTimeCodes ----------------------------
(***************************************************************************)
(* totp.Verifier: which one-time codes of a player are accepted.  A code   *)
(* stands for the period it belongs to.  Verify runs under the verifier's  *)
(* lock; it reads the clock just before, and that wait is taken to be      *)
(* shorter than a period.                                                  *)
(***************************************************************************)
EXTENDS Integers

CONSTANTS CodeUsers,
          CodeUses,    \* times one code is taken
          MaxPeriod    \* bound: periods

ASSUME CodesAssumption == {CodeUses, MaxPeriod} \subseteq Nat \ {0}

VARIABLES lastCode,    \* Verifier.last: user -> acceptance
          period,      \* the current period
          newestCode   \* history: the newest step accepted of a user

codesVars == <<lastCode, period, newestCode>>

Steps == 0..MaxPeriod + 1
NoCode == [step |-> -1, used |-> 0]

(* Verify(secret, code, now): the step a code belongs to, if the code is   *)
(* of this period or of a neighbouring one.                                *)
Acceptable == {step \in Steps : step \in period - 1 .. period + 1}

(* Every accepted code forgets the users whose last code is more than one  *)
(* step older.                                                             *)
PrunedTooEarly(step) == [u \in CodeUsers |-> IF lastCode[u].step < step THEN NoCode ELSE lastCode[u]]
Pruned(step) == [u \in CodeUsers |-> IF lastCode[u].step < step - 1 THEN NoCode ELSE lastCode[u]]

CodeTaken(user, step) ==
    LET last == Pruned(step)[user]
    IN  last = NoCode \/ last.step < step \/ (last.step = step /\ last.used < CodeUses)

CodeRecorded(user, step) ==
    LET last == Pruned(step)[user]
    IN  [Pruned(step) EXCEPT ![user] =
            [step |-> step, used |-> IF last.step = step THEN last.used + 1 ELSE 1]]

VerifyCode(user, step) ==
    /\ step \in Acceptable
    /\ IF CodeTaken(user, step)
       THEN /\ lastCode' = CodeRecorded(user, step)
            /\ newestCode' = [newestCode EXCEPT ![user] = step]
       ELSE /\ lastCode' = Pruned(step)
            /\ UNCHANGED newestCode
    /\ UNCHANGED period

NextPeriod ==
    /\ period < MaxPeriod
    /\ period' = period + 1
    /\ UNCHANGED <<lastCode, newestCode>>

CodesNext == \/ \E user \in CodeUsers, step \in Steps : VerifyCode(user, step)
             \/ NextPeriod

CodesInit ==
    /\ lastCode = [user \in CodeUsers |-> NoCode]
    /\ period = 0
    /\ newestCode = [user \in CodeUsers |-> -1]

CodesSpec == CodesInit /\ [][CodesNext]_codesVars

(* A code older than one already accepted of the same user is refused,     *)
(* though other users' codes make the verifier forget entries              *)
(* (totp.go:98).                                                           *)
NoOlderCode == [][\A u \in CodeUsers : newestCode'[u] >= newestCode[u]]_codesVars

=============================================================================
