------------------------------- MODULE Tickets -------------------------------
(***************************************************************************)
(* The launcher's pass into the game: hwid.Gate hands out a nonce          *)
(* (GetChallenge), takes it back with a report of the computer             *)
(* (ReportMachine, sign-in) and signs a ticket, which the game's sign-in   *)
(* asks for (yggdrasil authenticate).  Nonces live in memory, the signing  *)
(* key in a file; the process may end at any moment.  Which machine a      *)
(* report names, and bans on machines, are in Machines; here a ban is on   *)
(* an account.  A nonce and a key are numbers, in the order drawn.         *)
(***************************************************************************)
EXTENDS Integers, Sequences, FiniteSets, Functions, FiniteSetsExt

CONSTANTS TicketCalls,     \* requests served at the same time
          TicketUsers,
          ChallengeTTL, TicketTTL,   \* in ticks
          MaxChallenges,   \* maxChallenges
          SecretOnDisk,    \* ticketSecretPath is set
          MaxNonces, MaxSecrets, MaxTicketClock   \* bounds: nonces, keys, ticks

ASSUME TicketAssumption ==
    /\ {ChallengeTTL, TicketTTL, MaxChallenges, MaxNonces, MaxSecrets, MaxTicketClock} \subseteq Nat \ {0}
    /\ ChallengeTTL >= 2   \* half a lifetime is some time
    /\ SecretOnDisk \in BOOLEAN

VARIABLES challenges,    \* nonce -> when it expires
          nonces,        \* how many were drawn; nonceAt: history, when each one was
          nonceAt,
          secretFile,    \* 0: absent, -1: cut short, otherwise a whole key
          secret,        \* the running process's key; 0: no process runs
          secrets,       \* how many keys were drawn
          reporting,     \* what each request has done and has yet to do
          tickets,       \* every ticket handed out
          barred,        \* banned accounts
          entered,       \* history: game sign-ins let in
          ticketClock

ticketVars == <<challenges, nonces, nonceAt, secretFile, secret, secrets, reporting, tickets, barred,
                entered, ticketClock>>

NoReport == [at |-> "idle"]
ReportEnds(c) == reporting' = [reporting EXCEPT ![c] = NoReport]

----------------------------------------------------------------------------
(* Nonces. *)

(* expireLocked: what has expired, and if that leaves the map full, what   *)
(* is older than half a lifetime counted from the oldest one.              *)
expireLocked(map) ==
    LET kept == Restrict(map, {n \in DOMAIN map : ticketClock <= map[n]})
        cutoff == Min(Range(kept)) + ChallengeTTL \div 2
    IN  IF Cardinality(DOMAIN kept) < MaxChallenges THEN kept
        ELSE Restrict(kept, {n \in DOMAIN kept : kept[n] >= cutoff})

Challenge ==
    LET room == IF Cardinality(DOMAIN challenges) >= MaxChallenges THEN expireLocked(challenges)
                ELSE challenges
    IN  [n \in DOMAIN room \union {nonces + 1} |->
            IF n = nonces + 1 THEN ticketClock + ChallengeTTL ELSE room[n]]

GetChallenge ==
    /\ secret # 0 /\ nonces < MaxNonces
    /\ challenges' = Challenge
    /\ nonces' = nonces + 1 /\ nonceAt' = Append(nonceAt, ticketClock)
    /\ UNCHANGED <<secretFile, secret, secrets, reporting, tickets, barred, entered, ticketClock>>

(* takeChallenge: one use, whatever the answer.                            *)
TakenKept(n) == challenges' = challenges
Taken(n) == challenges' = Restrict(challenges, DOMAIN challenges \ {n})
InTime(n) == n \in DOMAIN challenges /\ ticketClock < challenges[n]

----------------------------------------------------------------------------
(* Reports. *)

(* validate with a well-formed report; a malformed one, or one its key did *)
(* not sign, is refused before its nonce is looked at.                     *)
validate(c, user, n) ==
    /\ secret # 0 /\ reporting[c].at = "idle"
    /\ Taken(n)
    /\ IF InTime(n)
       THEN reporting' = [reporting EXCEPT ![c] =
                [at |-> "resolve", user |-> user, nonce |-> n, taken |-> ticketClock]]
       ELSE UNCHANGED reporting
    /\ UNCHANGED <<nonces, nonceAt, secretFile, secret, secrets, tickets, barred, entered, ticketClock>>

(* The machine is resolved and stored; the ticket's lifetime counts from   *)
(* the moment taken here.                                                  *)
Resolved(c) ==
    /\ reporting[c].at = "resolve"
    /\ reporting' = [reporting EXCEPT ![c] =
            [at |-> "issue", user |-> @.user, nonce |-> @.nonce, taken |-> @.taken, now |-> ticketClock]]
    /\ UNCHANGED <<challenges, nonces, nonceAt, secretFile, secret, secrets, tickets, barred, entered,
                   ticketClock>>

(* Issue signs who it is for and when it ends; the other fields are        *)
(* history.  A banned account gets an error.                               *)
Issue(c) ==
    /\ reporting[c].at = "issue"
    /\ tickets' = IF reporting[c].user \in barred THEN tickets
                  ELSE tickets \union
                    {[user |-> reporting[c].user, key |-> secret,
                      expires |-> reporting[c].now + TicketTTL,
                      nonce |-> reporting[c].nonce, taken |-> reporting[c].taken]}
    /\ ReportEnds(c)
    /\ UNCHANGED <<challenges, nonces, nonceAt, secretFile, secret, secrets, barred, entered, ticketClock>>

----------------------------------------------------------------------------
(* The game's sign-in. *)

Verify(ticket) == ticket.key = secret /\ ticketClock <= ticket.expires

VerifyTicket(ticket, user) == Verify(ticket) /\ ticket.user = user

(* authenticate: a right password, then the ticket, then the bans.         *)
AuthenticateTicket(c, user, ticket) ==
    /\ secret # 0 /\ reporting[c].at = "idle"
    /\ VerifyTicket(ticket, user)
    /\ reporting' = [reporting EXCEPT ![c] =
            [at |-> "bans", user |-> user, ticket |-> ticket, now |-> ticketClock]]
    /\ UNCHANGED <<challenges, nonces, nonceAt, secretFile, secret, secrets, tickets, barred, entered,
                   ticketClock>>

AuthenticateBans(c) ==
    /\ reporting[c].at = "bans"
    /\ ReportEnds(c)
    /\ entered' = IF reporting[c].user \in barred THEN entered
                  ELSE entered \union {[user |-> reporting[c].user, ticket |-> reporting[c].ticket,
                                        now |-> reporting[c].now]}
    /\ UNCHANGED <<challenges, nonces, nonceAt, secretFile, secret, secrets, tickets, barred, ticketClock>>

BarAccount(user) ==
    /\ barred' = IF user \in barred THEN barred \ {user} ELSE barred \union {user}
    /\ UNCHANGED <<challenges, nonces, nonceAt, secretFile, secret, secrets, reporting, tickets, entered,
                   ticketClock>>

----------------------------------------------------------------------------
(* The process. *)

(* LoadOrCreateSecret: the key of the file, or a new one that is written   *)
(* to it (and lost with the process when no file is named).  A file cut    *)
(* short keeps the server from starting.                                   *)
LoadOrCreateSecret ==
    /\ secret = 0
    /\ \/ /\ SecretOnDisk /\ secretFile > 0
          /\ secret' = secretFile /\ UNCHANGED <<secrets, secretFile>>
       \/ /\ secrets < MaxSecrets /\ (SecretOnDisk => secretFile = 0)
          /\ secrets' = secrets + 1 /\ secret' = secrets + 1
          /\ secretFile' = IF SecretOnDisk THEN secrets + 1 ELSE 0
    /\ UNCHANGED <<challenges, nonces, nonceAt, reporting, tickets, barred, entered, ticketClock>>

(* A key is drawn, and the process dies while the file is written.         *)
DiesWritingSecret ==
    /\ SecretOnDisk /\ secret = 0 /\ secretFile = 0 /\ secrets < MaxSecrets
    /\ secrets' = secrets + 1
    /\ secretFile' = -1
    /\ UNCHANGED <<challenges, nonces, nonceAt, secret, reporting, tickets, barred, entered, ticketClock>>

(* The operator removes a broken key file, as the message suggests short   *)
(* of a backup.                                                            *)
RemoveSecretFile ==
    /\ secret = 0 /\ secretFile = -1
    /\ secretFile' = 0
    /\ UNCHANGED <<challenges, nonces, nonceAt, secret, secrets, reporting, tickets, barred, entered,
                   ticketClock>>

GateStops ==
    /\ secret # 0 /\ secret' = 0
    /\ challenges' = <<>> /\ reporting' = [c \in TicketCalls |-> NoReport]
    /\ UNCHANGED <<nonces, nonceAt, secretFile, secrets, tickets, barred, entered, ticketClock>>

TicketTick ==
    /\ ticketClock < MaxTicketClock /\ ticketClock' = ticketClock + 1
    /\ UNCHANGED <<challenges, nonces, nonceAt, secretFile, secret, secrets, reporting, tickets, barred, entered>>

TicketNext ==
    \/ GetChallenge \/ LoadOrCreateSecret \/ DiesWritingSecret \/ RemoveSecretFile \/ GateStops \/ TicketTick
    \/ \E user \in TicketUsers : BarAccount(user)
    \/ \E c \in TicketCalls :
        \/ \E user \in TicketUsers :
            \/ \E n \in 0..nonces : validate(c, user, n)
            \/ \E ticket \in tickets : AuthenticateTicket(c, user, ticket)
        \/ Resolved(c) \/ Issue(c) \/ AuthenticateBans(c)

TicketInit ==
    /\ challenges = <<>> /\ nonces = 0 /\ nonceAt = <<>>
    /\ secretFile = 0 /\ secret = 0 /\ secrets = 0
    /\ reporting = [c \in TicketCalls |-> NoReport]
    /\ tickets = {} /\ barred = {} /\ entered = {} /\ ticketClock = 0

TicketSpec == TicketInit /\ [][TicketNext]_ticketVars

----------------------------------------------------------------------------
(* Properties. *)

(* A player is in the game only with a ticket made for that account out of *)
(* a report that took a nonce this server drew less than a lifetime        *)
(* before, and no two tickets come from one nonce (gate.go:172, :410),     *)
(* whatever requests overlap and however often the server restarts.        *)
EntryTraced ==
    /\ \A e \in entered :
        /\ e.ticket.user = e.user /\ e.now <= e.ticket.expires
        /\ e.ticket.nonce \in 1..nonces
        /\ e.ticket.taken < nonceAt[e.ticket.nonce] + ChallengeTTL
    /\ \A s, t \in tickets : s.nonce = t.nonce => s = t
    /\ Cardinality(DOMAIN challenges) <= MaxChallenges
=============================================================================
