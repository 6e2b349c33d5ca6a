---------------------------- MODULE GameSessions ----------------------------
(***************************************************************************)
(* Sessions of the game itself: the authlib endpoints of yggdrasil/server  *)
(* over a store in memory or in Redis.  A handler reads a session and      *)
(* writes it in different steps; in memory rotateSession is one step under *)
(* the lock, in Redis it is a read, a write and a removal.  Whether the    *)
(* credentials are right and whether the computer is banned are choices    *)
(* here (SignIn, Machines).  A token is a number, a login its first token. *)
(***************************************************************************)
EXTENDS Integers, FiniteSets, Functions

CONSTANTS GameCalls,    \* identifiers of requests served at the same time
          GamePlayers,
          GameServers,  \* server ids the game draws for a join
          GameTTL, JoinTTL,   \* in ticks
          MaxLiveRecords,     \* maxLiveRecords
          MaxGameToken,       \* bound: tokens drawn
          MaxGameClock        \* bound: ticks

ASSUME GameAssumption ==
    {GameTTL, JoinTTL, MaxLiveRecords, MaxGameToken, MaxGameClock} \subseteq Nat \ {0}

VARIABLES remote,       \* sessions are kept in Redis
          games,        \* token -> session
          ofUser,       \* Redis: player -> tokens of the player's set
          joins,        \* server id -> join record
          profiles,     \* players whose profile the process remembers
          storedProfiles,   \* players whose profile is in Redis
          requests,     \* what each request has read and has yet to do
          lastToken, gameClock,
          signedOut     \* history: player -> the last token drawn before a finished sign-out began

gameVars == <<remote, games, ofUser, joins, profiles, storedProfiles, requests, lastToken,
              gameClock, signedOut>>

NoRequest == [at |-> "idle"]
Without(f, S) == Restrict(f, DOMAIN f \ S)
With(f, k, v) == [x \in DOMAIN f \union {k} |-> IF x = k THEN v ELSE f[x]]
Answers(c) == requests' = [requests EXCEPT ![c] = NoRequest]
Proceeds(c, request) == requests' = [requests EXCEPT ![c] = request]

----------------------------------------------------------------------------
(* The store. *)

Expired(record) == gameClock > record.until
NewSession(player, login) == [player |-> player, login |-> login, until |-> gameClock + GameTTL]

(* sweepLocked drops what has expired once the records are too many.       *)
Swept(f, limit) == IF Cardinality(DOMAIN f) >= limit
                   THEN Restrict(f, {k \in DOMAIN f : ~Expired(f[k])}) ELSE f

(* putSession: the map, or the key and the player's set in one transaction. *)
putSession(token, session) ==
    /\ games' = With(IF remote THEN games ELSE Swept(games, MaxLiveRecords), token, session)
    /\ ofUser' = IF remote THEN [ofUser EXCEPT ![session.player] = @ \union {token}] ELSE ofUser

(* Redis drops a key by itself; the map is looked at with its deadline.    *)
gameSession(token) == token \in DOMAIN games /\ ~Expired(games[token])

removed(tokens) ==
    /\ games' = Without(games, tokens)
    /\ ofUser' = IF remote THEN [p \in GamePlayers |-> ofUser[p] \ tokens] ELSE ofUser

putJoin(server, player) ==
    joins' = With(Swept(joins, MaxLiveRecords), server, [player |-> player, until |-> gameClock + JoinTTL])

(* rememberProfile: in memory always, in Redis when there is one.          *)
rememberProfile(player) ==
    /\ profiles' = profiles \union {player}
    /\ storedProfiles' = IF remote THEN storedProfiles \union {player} ELSE storedProfiles

----------------------------------------------------------------------------
(* The handlers. *)

(* authenticate: a right password, a machine that may play.                *)
authenticate(player) ==
    /\ lastToken < MaxGameToken
    /\ lastToken' = lastToken + 1
    /\ putSession(lastToken + 1, NewSession(player, lastToken + 1))
    /\ rememberProfile(player)
    /\ UNCHANGED <<remote, joins, requests, gameClock, signedOut>>

(* refresh reads the session first; a token that is not good is refused.   *)
refresh(c, token) ==
    /\ requests[c] = NoRequest /\ gameSession(token)
    /\ lastToken < MaxGameToken
    /\ lastToken' = lastToken + 1
    /\ Proceeds(c, [at |-> "rotate", token |-> token, fresh |-> lastToken + 1, read |-> games[token]])
    /\ UNCHANGED <<remote, games, ofUser, joins, profiles, storedProfiles, gameClock, signedOut>>

RotateRead(c) ==
    /\ requests[c].at = "rotate" /\ ~remote
    /\ putSession(requests[c].fresh, NewSession(requests[c].read.player, requests[c].read.login))
    /\ rememberProfile(requests[c].read.player)
    /\ Answers(c)
    /\ UNCHANGED <<remote, joins, lastToken, gameClock, signedOut>>
(* rotateSession in memory: the old token must still be there, expired or  *)
(* not, and is replaced under the lock.                                    *)
rotateSession(c) ==
    LET request == requests[c] IN
    /\ request.at = "rotate" /\ ~remote
    /\ IF request.token \in DOMAIN games
       THEN LET old == games[request.token]
            IN  /\ games' = With(Without(games, {request.token}), request.fresh,
                                NewSession(old.player, old.login))
                /\ rememberProfile(old.player)
       ELSE UNCHANGED <<games, profiles, storedProfiles>>
    /\ Answers(c)
    /\ UNCHANGED <<remote, ofUser, joins, lastToken, gameClock, signedOut>>

(* rotate in Redis: read again, write the new token, remove the old one.   *)
rotateGet(c) ==
    LET request == requests[c] IN
    /\ request.at = "rotate" /\ remote
    /\ IF gameSession(request.token)
       THEN Proceeds(c, [request EXCEPT !.at = "put", !.read = games[request.token]])
       ELSE Answers(c)
    /\ UNCHANGED <<remote, games, ofUser, joins, profiles, storedProfiles, lastToken, gameClock, signedOut>>

rotatePut(c) ==
    LET request == requests[c] IN
    /\ request.at = "put"
    /\ putSession(request.fresh, NewSession(request.read.player, request.read.login))
    /\ Proceeds(c, [request EXCEPT !.at = "remove"])
    /\ UNCHANGED <<remote, joins, profiles, storedProfiles, lastToken, gameClock, signedOut>>

rotateRemove(c) ==
    LET request == requests[c] IN
    /\ request.at = "remove"
    /\ removed({request.token})
    /\ rememberProfile(request.read.player)
    /\ Answers(c)
    /\ UNCHANGED <<remote, joins, lastToken, gameClock, signedOut>>

(* invalidate removes whatever token it is given.                          *)
invalidate(token) ==
    /\ removed({token})
    /\ UNCHANGED <<remote, joins, profiles, storedProfiles, requests, lastToken, gameClock, signedOut>>

(* signout of a player who knows the password: the map in one step, Redis  *)
(* by reading the player's set and deleting what it named, set included.   *)
signout(c, player) ==
    /\ requests[c] = NoRequest
    /\ \/ /\ ~remote
          /\ games' = Without(games, {t \in DOMAIN games : games[t].player = player})
          /\ signedOut' = [signedOut EXCEPT ![player] = lastToken]
          /\ UNCHANGED <<ofUser, requests>>
       \/ /\ remote
          /\ Proceeds(c, [at |-> "delete", player |-> player, tokens |-> ofUser[player], from |-> lastToken])
          /\ UNCHANGED <<games, ofUser, signedOut>>
    /\ UNCHANGED <<remote, joins, profiles, storedProfiles, lastToken, gameClock>>

removeUser(c) ==
    LET request == requests[c] IN
    /\ request.at = "delete"
    /\ games' = Without(games, request.tokens)
    /\ ofUser' = [ofUser EXCEPT ![request.player] = {}]
    /\ signedOut' = [signedOut EXCEPT ![request.player] = request.from]
    /\ Answers(c)
    /\ UNCHANGED <<remote, joins, profiles, storedProfiles, lastToken, gameClock>>

(* join: a good session of a player who may play.  validate is its first   *)
(* half.                                                                   *)
join(token, server) ==
    /\ gameSession(token)
    /\ putJoin(server, games[token].player)
    /\ rememberProfile(games[token].player)
    /\ UNCHANGED <<remote, games, ofUser, requests, lastToken, gameClock, signedOut>>

(* hasJoined answers from the record alone and drops one that expired.     *)
hasJoined(server) ==
    /\ server \in DOMAIN joins
    /\ joins' = IF Expired(joins[server]) THEN Without(joins, {server}) ELSE joins
    /\ UNCHANGED <<remote, games, ofUser, profiles, storedProfiles, requests, lastToken, gameClock, signedOut>>

(* getProfile falls back to Redis and remembers what it found.             *)
getProfile(player) ==
    /\ player \in profiles \union (IF remote THEN storedProfiles ELSE {})
    /\ profiles' = profiles \union {player}
    /\ UNCHANGED <<remote, games, ofUser, joins, storedProfiles, requests, lastToken, gameClock, signedOut>>

(* The process restarts: what Redis keeps stays.                           *)
GameRestart ==
    /\ games' = IF remote THEN games ELSE <<>>
    /\ joins' = <<>> /\ profiles' = {}
    /\ requests' = [c \in GameCalls |-> NoRequest]
    /\ UNCHANGED <<remote, ofUser, storedProfiles, lastToken, gameClock, signedOut>>

GameTick ==
    /\ gameClock < MaxGameClock
    /\ gameClock' = gameClock + 1
    /\ games' = IF remote THEN Restrict(games, {t \in DOMAIN games : games[t].until >= gameClock'}) ELSE games
    /\ UNCHANGED <<remote, ofUser, joins, profiles, storedProfiles, requests, lastToken, signedOut>>

GameNext ==
    \/ \E player \in GamePlayers : authenticate(player) \/ getProfile(player)
    \/ \E c \in GameCalls :
        \/ \E token \in DOMAIN games : refresh(c, token)
        \/ rotateSession(c) \/ rotateGet(c) \/ rotatePut(c) \/ rotateRemove(c)
        \/ \E player \in GamePlayers : signout(c, player)
        \/ removeUser(c)
    \/ \E token \in DOMAIN games : invalidate(token) \/ \E server \in GameServers : join(token, server)
    \/ \E server \in GameServers : hasJoined(server)
    \/ GameRestart \/ GameTick

GameInit ==
    /\ remote \in BOOLEAN
    /\ games = <<>> /\ joins = <<>> /\ profiles = {} /\ storedProfiles = {}
    /\ ofUser = [p \in GamePlayers |-> {}]
    /\ requests = [c \in GameCalls |-> NoRequest]
    /\ lastToken = 0 /\ gameClock = 0
    /\ signedOut = [p \in GamePlayers |-> 0]

GameSpec == GameInit /\ [][GameNext]_gameVars

----------------------------------------------------------------------------
(* Properties. *)

(* With the store in memory a player who signed out is out: no session     *)
(* that goes back to a login before the sign-out is on record afterwards,  *)
(* though a refresh may have read one before it (store.go:101).            *)
SignOutFinal ==
    ~remote => \A t \in DOMAIN games : games[t].login > signedOut[games[t].player]

=============================================================================
