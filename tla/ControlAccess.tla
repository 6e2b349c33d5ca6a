--------------------------- MODULE ControlAccess ---------------------------
(***************************************************************************)
(* Who may administer: the token file (controlauth) with the handler that  *)
(* asks again while a request runs, and the sessions of the web console    *)
(* (webconsole), which are kept in memory and on disk.  The first token is *)
(* made by another process, which shares only the file with the daemon.    *)
(* Scopes are one set for a token, and a session or ticket is named by its *)
(* secret.  The limit of wrong attempts (allowAttempt, noteFailure) has    *)
(* the shape of SignIn and is left out.                                    *)
(***************************************************************************)
EXTENDS Integers, FiniteSets

CONSTANTS Requests, TokenIds,
          Secrets,          \* tickets and sessions, each minted once
          RecheckInterval,  \* the ticker of Handler
          TokenTTL, LinkTTL, ConsoleTTL, IdleTimeout,
          MaxTerminals,
          MaxControlClock   \* bound

ASSUME ControlAssumption ==
    {RecheckInterval, TokenTTL, LinkTTL, ConsoleTTL, IdleTimeout, MaxTerminals, MaxControlClock} \subseteq Nat \ {0}

VARIABLES tokenFile,   \* the tokens of the file, {} also when there is none
          fileThere,
          given,       \* tokens handed out, with when each stopped being good
          creating,    \* what Create has read and has yet to write
          requests,    \* request -> its token and the time of the next look
          tickets, consoles,   \* the maps of webconsole.store, with expiry
          stateFile,   \* its file
          terminals,   \* open terminals: the session and when it times out
          minted,      \* secrets used so far
          clock,
          dead,        \* history: token -> when it was revoked
          forgotten    \* history: sessions a saved `web forget` closed

controlVars == <<tokenFile, fileThere, given, creating, requests, tickets, consoles, stateFile,
                 terminals, minted, clock, dead, forgotten>>
tokenVars == <<tokenFile, fileThere, given, creating, requests, dead>>
webVars == <<tickets, consoles, stateFile, terminals, minted, forgotten>>

NoCreate == [id |-> "none"]
NoRequest == [token |-> "none"]

----------------------------------------------------------------------------
(* Tokens. *)

newToken(id) == [id |-> id, until |-> clock + TokenTTL, revoked |-> FALSE]

AuthenticateRevoked(id) == \E t \in tokenFile : t.id = id /\ clock < t.until
Authenticate(id) == \E t \in tokenFile : t.id = id /\ ~t.revoked /\ clock < t.until

(* Create holds the mutex of its own process only.                         *)
CreateLoad(id) ==
    /\ creating = NoCreate /\ id \notin given
    /\ given' = given \union {id}
    /\ creating' = [id |-> id, tokens |-> tokenFile \union {newToken(id)}]
    /\ UNCHANGED <<tokenFile, fileThere, requests, dead, webVars, clock>>

CreateSave ==
    /\ creating # NoCreate
    /\ tokenFile' = creating.tokens /\ fileThere' = TRUE
    /\ creating' = NoCreate
    /\ UNCHANGED <<given, requests, dead, webVars, clock>>

(* The bootstrap command: only where there is no file (O_EXCL).            *)
Bootstrap(id) ==
    /\ ~fileThere /\ id \notin given
    /\ given' = given \union {id}
    /\ tokenFile' = {newToken(id)} /\ fileThere' = TRUE
    /\ UNCHANGED <<creating, requests, dead, webVars, clock>>

RevokeToken(id) ==
    /\ creating = NoCreate
    /\ \E t \in tokenFile :
        /\ t.id = id /\ ~t.revoked
        /\ tokenFile' = (tokenFile \ {t}) \union {[t EXCEPT !.revoked = TRUE]}
    /\ dead' = [dead EXCEPT ![id] = IF clock < @ THEN clock ELSE @]
    /\ UNCHANGED <<fileThere, given, creating, requests, webVars, clock>>

(* Handler: the request runs while its token is good at every tick of the  *)
(* ticker.                                                                 *)
RequestStarts(r, id) ==
    /\ requests[r] = NoRequest /\ Authenticate(id)
    /\ requests' = [requests EXCEPT ![r] = [token |-> id, look |-> clock + RecheckInterval]]
    /\ UNCHANGED <<tokenFile, fileThere, given, creating, dead, webVars, clock>>

RequestLook(r) ==
    /\ requests[r] # NoRequest /\ requests[r].look = clock
    /\ requests' = [requests EXCEPT ![r] = IF Authenticate(@.token)
                                           THEN [@ EXCEPT !.look = clock + RecheckInterval] ELSE NoRequest]
    /\ UNCHANGED <<tokenFile, fileThere, given, creating, dead, webVars, clock>>

RequestEnds(r) ==
    /\ requests[r] # NoRequest
    /\ requests' = [requests EXCEPT ![r] = NoRequest]
    /\ UNCHANGED <<tokenFile, fileThere, given, creating, dead, webVars, clock>>

----------------------------------------------------------------------------
(* The web console. *)

Fresh(s) == s \notin minted /\ minted' = minted \union {s}
Expired(entry) == clock > entry.until

(* saveLocked: the error is only logged.                                   *)
saveLocked(entries) == stateFile' = entries \/ UNCHANGED stateFile

Link(t) ==
    /\ Fresh(t)
    /\ tickets' = tickets \union {[secret |-> t, until |-> clock + LinkTTL]}
    /\ UNCHANGED <<tokenVars, consoles, stateFile, terminals, forgotten, clock>>

(* redeem: the ticket goes whether it was still good or not.               *)
redeem(t, s) ==
    /\ \E entry \in tickets :
        /\ entry.secret = t
        /\ tickets' = tickets \ {entry}
        /\ IF Expired(entry)
           THEN UNCHANGED <<consoles, stateFile, minted>>
           ELSE /\ Fresh(s)
                /\ consoles' = consoles \union {[secret |-> s, until |-> clock + ConsoleTTL]}
                /\ saveLocked(consoles')
    /\ UNCHANGED <<tokenVars, terminals, forgotten, clock>>

(* open: the password was right.                                           *)
open(s) ==
    /\ Fresh(s)
    /\ consoles' = consoles \union {[secret |-> s, until |-> clock + ConsoleTTL]}
    /\ saveLocked(consoles')
    /\ UNCHANGED <<tokenVars, tickets, terminals, forgotten, clock>>

(* valid, for a socket: an expired session goes; a terminal is claimed.    *)
socket(s) ==
    /\ \E entry \in consoles :
        /\ entry.secret = s
        /\ IF Expired(entry)
           THEN consoles' = consoles \ {entry} /\ saveLocked(consoles') /\ UNCHANGED terminals
           ELSE /\ Cardinality(terminals) < MaxTerminals
                /\ terminals' = terminals \union {[secret |-> s, until |-> clock + IdleTimeout]}
                /\ UNCHANGED <<consoles, stateFile>>
    /\ UNCHANGED <<tokenVars, tickets, minted, forgotten, clock>>

(* The browser closes the connection, or idleTimeout is over.              *)
releaseTerminal(t) ==
    /\ t \in terminals /\ terminals' = terminals \ {t}
    /\ UNCHANGED <<tokenVars, tickets, consoles, stateFile, minted, forgotten, clock>>

forgetAll ==
    /\ consoles' = {} /\ tickets' = {}
    /\ \/ stateFile' = {} /\ forgotten' = forgotten \union {e.secret : e \in consoles}
       \/ UNCHANGED <<stateFile, forgotten>>
    /\ UNCHANGED <<tokenVars, terminals, minted, clock>>

(* web status: live drops what has expired, in memory only.                *)
liveConsoles ==
    /\ consoles' = {e \in consoles : ~Expired(e)}
    /\ UNCHANGED <<tokenVars, tickets, stateFile, terminals, minted, forgotten, clock>>

(* The daemon stops and starts: load.                                      *)
ControlRestart ==
    /\ consoles' = {e \in stateFile : ~Expired(e)}
    /\ tickets' = {} /\ terminals' = {} /\ creating' = NoCreate
    /\ requests' = [r \in Requests |-> NoRequest]
    /\ UNCHANGED <<tokenFile, fileThere, given, dead, stateFile, minted, forgotten, clock>>

ControlTick ==
    /\ clock < MaxControlClock /\ clock' = clock + 1
    /\ \A r \in Requests : requests[r] # NoRequest => requests[r].look > clock
    /\ \A t \in terminals : t.until > clock
    /\ UNCHANGED <<tokenVars, webVars>>

(* The two parts share the process and the clock, and nothing else.        *)
TokenNext == \/ CreateSave \/ ControlRestart \/ ControlTick
             \/ \E id \in TokenIds : CreateLoad(id) \/ Bootstrap(id) \/ RevokeToken(id)
             \/ \E r \in Requests : RequestLook(r) \/ RequestEnds(r) \/ \E id \in TokenIds : RequestStarts(r, id)
WebNext == \/ forgetAll \/ liveConsoles \/ ControlRestart \/ ControlTick
           \/ \E s \in Secrets : Link(s) \/ open(s) \/ socket(s) \/ \E t \in Secrets : redeem(t, s)
           \/ \E t \in terminals : releaseTerminal(t)

ControlInit ==
    /\ tokenFile = {} /\ fileThere = FALSE /\ given = {} /\ creating = NoCreate
    /\ requests = [r \in Requests |-> NoRequest]
    /\ tickets = {} /\ consoles = {} /\ stateFile = {} /\ terminals = {} /\ minted = {}
    /\ clock = 0 /\ dead = [id \in TokenIds |-> MaxControlClock + 1] /\ forgotten = {}

ControlSpec == ControlInit /\ [][TokenNext \/ WebNext]_controlVars

----------------------------------------------------------------------------
(* Properties. *)

(* tokens_test.go:76: a revoked token ends the requests it is used in; the *)
(* handler may run on for one interval of its ticker and no longer.        *)
RevokedRequestsEnd == \A r \in Requests : requests[r] # NoRequest =>
    clock <= dead[requests[r].token] + RecheckInterval

(* What web forget closed stays closed, also after a restart that reads    *)
(* the sessions back from the disk.                                        *)
ForgottenStaysOut == \A e \in consoles : e.secret \notin forgotten

(* Whoever was shut out stays out: a revoked token ends its running        *)
(* requests within an interval of the ticker, and a forgotten web session  *)
(* is not accepted again, restarts included.                               *)
ShutOut == RevokedRequestsEnd /\ ForgottenStaysOut

=============================================================================
