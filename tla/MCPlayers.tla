----------------------------- MODULE MCPlayers -----------------------------
(***************************************************************************)
(* Small instances, for TLC, of what the server does for players: sign-in, *)
(* sessions, access to builds, machine checks, the game's own sessions,    *)
(* accounts and crash reports.  The components share no state in memory,   *)
(* so the run explores one of them at a time: `part` says which, and the   *)
(* others rest in their initial state.                                     *)
(***************************************************************************)
EXTENDS Session, PlayerLimits, OneTimeCodes, AccessRules, Machines,
        GameSessions, Accounts, Tickets, TLC

VARIABLE part

SmallRules ==
    {[source |-> "file", failOpen |-> FALSE, hidden |-> TRUE, publicObjects |-> FALSE],
     [source |-> "list", failOpen |-> FALSE, hidden |-> FALSE, publicObjects |-> FALSE],
     [source |-> "check", failOpen |-> FALSE, hidden |-> FALSE, publicObjects |-> FALSE],
     [source |-> "check", failOpen |-> TRUE, hidden |-> FALSE, publicObjects |-> TRUE]}

(* Two reports of one board, with a disk and without.                      *)
Signal(kind, digest) == [kind |-> kind, digest |-> digest]
SmallReports ==
    {{Signal("smbios_uuid", 1), Signal("disk_serial", 2)},
     {Signal("smbios_uuid", 1)}}

SafeName == [p \in CrashPlayers |-> "name"]

Parts == {"session", "signIn", "codes", "access", "machines", "game", "accounts", "tickets", "crashes"}

(* Only the chosen component starts in each of its initial states; what    *)
(* the others would start with is fixed.                                   *)
Init ==
    /\ part \in Parts
    /\ SessionInit /\ (part # "session" => ~redis)
    /\ SignInInit /\ (part # "signIn" => ~sharedCounters)
    /\ CodesInit
    /\ AccessInit /\ (part # "access" => rule.source = "file")
    /\ MachinesInit /\ (part # "machines" => ~sql)
    /\ GameInit /\ (part # "game" => ~remote)
    /\ AccountsInit
    /\ TicketInit
    /\ CrashInit

OthersRest ==
    /\ UNCHANGED part
    /\ part # "session" => UNCHANGED sessionVars
    /\ part # "signIn" => UNCHANGED signInVars
    /\ part # "codes" => UNCHANGED codesVars
    /\ part # "access" => UNCHANGED accessVars
    /\ part # "machines" => UNCHANGED machinesVars
    /\ part # "game" => UNCHANGED gameVars
    /\ part # "accounts" => UNCHANGED accountsVars
    /\ part # "tickets" => UNCHANGED ticketVars
    /\ part # "crashes" => UNCHANGED crashVars

Next ==
    \/ part = "session" /\ SessionNext /\ OthersRest
    \/ part = "signIn" /\ SignInNext /\ OthersRest
    \/ part = "codes" /\ CodesNext /\ OthersRest
    \/ part = "access" /\ AccessNext /\ OthersRest
    \/ part = "machines" /\ MachinesNext /\ OthersRest
    \/ part = "game" /\ GameNext /\ OthersRest
    \/ part = "accounts" /\ AccountsNext /\ OthersRest
    \/ part = "tickets" /\ TicketNext /\ OthersRest
    \/ part = "crashes" /\ CrashNext /\ OthersRest

Spec == Init /\ [][Next]_<<part, sessionVars, signInVars, codesVars, accessVars, machinesVars,
                           gameVars, accountsVars, ticketVars, crashVars>>

(* The calls of every component are the same model values, and alike.      *)
Permuted == Permutations(SessionCalls)
=============================================================================
