------------------------------- MODULE SignIn -------------------------------
(***************************************************************************)
(* The way to a sign-in: the attempt counters of ratelimit.Guard, one per  *)
(* address and one per account, asked before the password is looked at and *)
(* fed when it was wrong.  The counters are in the process or in Redis;    *)
(* every call of a counter is a step of its own and nothing is held        *)
(* between them.                                                           *)
(***************************************************************************)
EXTENDS Integers, FiniteSets

CONSTANTS SignCalls,      \* identifiers of sign-ins served at the same time
          Addresses, Users,
          LoginLimit, AccountLimit,  \* wrong attempts a window takes
          WindowLength,   \* ticks a window lasts
          MaxCount,       \* bound: a counter stays there
          MaxTick       \* bound: ticks

ASSUME SignInAssumption ==
    /\ {LoginLimit, AccountLimit, WindowLength, MaxCount, MaxTick} \subseteq Nat \ {0}
    /\ Addresses \cap Users = {}
    /\ IsFiniteSet(SignCalls)

VARIABLES sharedCounters, \* the counters are in Redis
          windows,        \* key -> window of wrong attempts
          signing,        \* what each sign-in has yet to do
          tick,
          failedOpen      \* history: a counter did not answer

signInVars == <<sharedCounters, windows, signing, tick, failedOpen>>

Keys == Addresses \union Users
Limit(key) == IF key \in Addresses THEN LoginLimit ELSE AccountLimit
NoWindow == [count |-> 0, resetAt |-> -1]
Never == MaxTick + WindowLength + 1   \* a Redis key without an expiry

NotSigning == [pc |-> "idle"]
SignGoes(c, pc) == signing' = [signing EXCEPT ![c].pc = pc]
SignEnds(c) == signing' = [signing EXCEPT ![c] = NotSigning]

----------------------------------------------------------------------------
(* Limiter. *)

WindowOpen(key) == windows[key] # NoWindow /\ tick <= windows[key].resetAt

Blocked(key) == WindowOpen(key) /\ windows[key].count >= Limit(key)

(* One more attempt in an open window.                                     *)
Counted(window) == [window EXCEPT !.count = IF @ < MaxCount THEN @ + 1 ELSE @]

(* One more attempt: counted in the open window, or the first of a new     *)
(* one.                                                                    *)
Allow(key) == windows' = [windows EXCEPT ![key] =
    IF WindowOpen(key) THEN Counted(@)
                       ELSE [count |-> 1, resetAt |-> tick + WindowLength]]

(* The window ended between SET NX and INCR, which then makes a key that   *)
(* only the following EXPIRE gives an end.                                 *)
AllowImmortal(key) ==
    /\ sharedCounters /\ ~WindowOpen(key)
    /\ windows' = [windows EXCEPT ![key] = [count |-> 1, resetAt |-> Never]]

----------------------------------------------------------------------------
(* A sign-in (the launcher's Login, the Yggdrasil authenticate). *)

SignStart(c, address, user) ==
    /\ signing[c] = NotSigning
    /\ signing' = [signing EXCEPT ![c] = [pc |-> "address", address |-> address, user |-> user]]
    /\ UNCHANGED <<sharedCounters, windows, tick, failedOpen>>

(* SignInAllowed: the address, then the account; an answer that does not   *)
(* come counts as free.                                                    *)
SignInAllowed(c, pc, key, then) ==
    /\ signing[c].pc = pc
    /\ \/ /\ IF Blocked(key) THEN SignEnds(c) ELSE SignGoes(c, then)
          /\ UNCHANGED failedOpen
       \/ /\ sharedCounters
          /\ SignGoes(c, then)
          /\ failedOpen' = TRUE
    /\ UNCHANGED <<sharedCounters, windows, tick>>

(* Wrong credentials, or a wrong or used-up one-time code (OneTimeCodes).  *)
WrongGuess(c) ==
    /\ signing[c].pc = "verify"
    /\ SignGoes(c, "failed")
    /\ UNCHANGED <<sharedCounters, windows, tick, failedOpen>>

(* The right password (and code): the sign-in goes on, the counters are    *)
(* left as they are.                                                       *)
RightGuess(c) ==
    /\ signing[c].pc = "verify"
    /\ SignEnds(c)
    /\ UNCHANGED <<sharedCounters, windows, tick, failedOpen>>

(* SignInFailed: both counters, whose errors are ignored.                  *)
SignInFailed(c, pc, key, then) ==
    /\ signing[c].pc = pc
    /\ \/ Allow(key) \/ AllowImmortal(key)
       \/ sharedCounters /\ UNCHANGED windows
    /\ IF then = "idle" THEN SignEnds(c) ELSE SignGoes(c, then)
    /\ UNCHANGED <<sharedCounters, tick, failedOpen>>

----------------------------------------------------------------------------
SignTick ==
    /\ tick < MaxTick
    /\ tick' = tick + 1
    /\ UNCHANGED <<sharedCounters, windows, signing, failedOpen>>

SignInNext ==
    \/ \E c \in SignCalls :
        \/ \E address \in Addresses, user \in Users : SignStart(c, address, user)
        \/ /\ signing[c] # NotSigning
           /\ \/ SignInAllowed(c, "address", signing[c].address, "account")
              \/ SignInAllowed(c, "account", signing[c].user, "verify")
              \/ SignInFailed(c, "failed", signing[c].address, "count")
              \/ SignInFailed(c, "count", signing[c].user, "idle")
        \/ WrongGuess(c) \/ RightGuess(c)
    \/ SignTick

SignInInit ==
    /\ sharedCounters \in BOOLEAN
    /\ windows = [key \in Keys |-> NoWindow]
    /\ signing = [c \in SignCalls |-> NotSigning]
    /\ tick = 0
    /\ failedOpen = FALSE

SignInSpec == SignInInit /\ [][SignInNext]_signInVars

----------------------------------------------------------------------------
(* Properties. *)

(* However many sign-ins run at once, a window counts fewer wrong attempts *)
(* than its limit and the calls in flight together (guard.go:101): the     *)
(* limit is only overrun by calls that had been let in before it filled.   *)
(* Void once a counter failed to answer, which the code lets pass.         *)
GuessesBounded ==
    failedOpen \/ \A key \in Keys :
        windows[key].count < Limit(key) + Cardinality(SignCalls)

=============================================================================
