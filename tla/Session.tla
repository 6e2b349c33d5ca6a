------------------------------ MODULE Session ------------------------------
(***************************************************************************)
(* Player sessions: auth.Service over a session store (in memory or in     *)
(* Redis), and the launcher API that accepts its tokens through a short    *)
(* cache (api/subject.go).  Two secrets of one session are issued          *)
(* together, so a number names such a pair; the store keeps one hash of    *)
(* each kind, which is the number itself.  A call of the store is a step   *)
(* of its own: nothing is locked between reading a session and writing it. *)
(* Whether the credentials are right (SignIn) and whether the machine may  *)
(* play (Machines) are choices here.                                       *)
(***************************************************************************)
EXTENDS Integers, FiniteSets, FiniteSetsExt

CONSTANTS SessionCalls,   \* identifiers of calls served at the same time
          Sids,           \* identifiers a login can draw (uuid.New)
          MaxPair,        \* bound: pairs of secrets issued
          AccessTTL, RefreshTTL, SubjectTTL,  \* in ticks of the clock
          MaxCachedTokens,
          CallTime,       \* bound: ticks a call may take
          MaxClock        \* bound: ticks

ASSUME SessionAssumption ==
    /\ {MaxPair, AccessTTL, RefreshTTL, SubjectTTL, MaxCachedTokens, MaxClock} \subseteq Nat \ {0}
    /\ CallTime \in Nat

VARIABLES redis,     \* which store the server was started with
          sessions,  \* the store: a set of sessions, at most one for a sid
          lastPair,  \* secrets issued so far
          calls,     \* what each call has read and has yet to do
          cached,    \* tokenCache.entries: a token and when it expires
          held,      \* tokens handed out to players
          now,
          spent,     \* history: refresh secrets a finished refresh replaced
          validated  \* history: when a token last passed ValidateAccess' conditions

sessionVars == <<redis, sessions, lastPair, calls, cached, held, now, spent, validated>>

NoSession == [revoked |-> TRUE]

Idle == [pc |-> "idle"]
Call(pc, sid, secret, read) == [pc |-> pc, sid |-> sid, secret |-> secret, read |-> read, from |-> now]
Goes(c, call) == calls' = [calls EXCEPT ![c] = call]
Ends(c) == Goes(c, Idle)

Find(sid) == IF \E s \in sessions : s.sid = sid THEN CHOOSE s \in sessions : s.sid = sid ELSE NoSession
Found(sid) == Find(sid) # NoSession

----------------------------------------------------------------------------
(* The store. *)

Create(session) == sessions' = sessions \union {session}

(* Update replaces a session that is there and creates none (SET XX). *)
Update(session) == sessions' = {s \in sessions : s.sid # session.sid} \union
                               (IF Found(session.sid) THEN {session} ELSE {})

Revoked(session) == [session EXCEPT !.revoked = TRUE]

----------------------------------------------------------------------------
(* ValidateAccess and the cache. *)

Valid(session, secret) ==
    /\ session # NoSession
    /\ ~session.revoked
    /\ now <= session.accessUntil
    /\ secret = session.access

Live(token) == \E e \in cached : e.token = token /\ now <= e.expires

(* put: a full cache loses what has expired and then whatever the map      *)
(* yields first, down to seven eighths.                                    *)
Kept == IF Cardinality(cached) < MaxCachedTokens
        THEN {cached}
        ELSE LET live == {e \in cached : now <= e.expires}
                 target == (MaxCachedTokens * 7) \div 8
             IN kSubset(IF Cardinality(live) < target THEN Cardinality(live) ELSE target, live)

Put(token) == \E kept \in Kept :
    cached' = {e \in kept : e.token # token} \union {[token |-> token, expires |-> now + SubjectTTL]}

----------------------------------------------------------------------------
(* Login. *)

(* issue: a new session, and with it the two tokens.                       *)
issue(sid, pair) == [sid |-> sid, access |-> pair, accessUntil |-> now + AccessTTL,
                     refresh |-> pair, until |-> now + RefreshTTL, revoked |-> FALSE]

(* The credentials are right; Create succeeds (a failure of either ends    *)
(* the login without a trace).                                             *)
Login(c, sid) ==
    /\ calls[c] = Idle
    /\ ~Found(sid) /\ \A t \in held : t[1] # sid
    /\ lastPair < MaxPair
    /\ lastPair' = lastPair + 1
    /\ Create(issue(sid, lastPair + 1))
    /\ Goes(c, Call("check", sid, lastPair + 1, NoSession))
    /\ UNCHANGED <<redis, cached, held, now, spent>>

(* Machines are off, or ValidateAccess and Check agree: the player gets    *)
(* the tokens.                                                             *)
LoginDone(c) ==
    /\ calls[c].pc = "check"
    /\ held' = held \union {<<calls[c].sid, calls[c].secret>>}
    /\ Ends(c)
    /\ UNCHANGED <<redis, sessions, lastPair, cached, now, spent>>

(* ValidateAccess fails: the error is returned and the session stays.      *)
LoginInvalid(c) ==
    /\ calls[c].pc = "check"
    /\ redis \/ ~Valid(Find(calls[c].sid), calls[c].secret)
    /\ Ends(c)
    /\ UNCHANGED <<redis, sessions, lastPair, cached, held, now, spent>>

(* Check refuses the machine: Logout.                                      *)
LoginRefused(c) ==
    /\ calls[c].pc = "check"
    /\ Goes(c, [calls[c] EXCEPT !.pc = "revoke"])
    /\ UNCHANGED <<redis, sessions, lastPair, cached, held, now, spent>>

----------------------------------------------------------------------------
(* Refresh. *)

RefreshGet(c, sid, secret) ==
    /\ calls[c] = Idle
    /\ <<sid, secret>> \in held
    /\ LET session == Find(sid)
           usable == session # NoSession /\ ~session.revoked /\ now <= session.until
       IN  \/ /\ usable /\ secret = session.refresh
              /\ Goes(c, Call("rotate", sid, secret, session))
           \/ /\ usable /\ secret # session.refresh
              /\ Goes(c, Call("revoke", sid, secret, NoSession))
    /\ UNCHANGED <<redis, sessions, lastPair, cached, held, now, spent>>

RotatedAccessOnly(session, pair) ==
    [session EXCEPT !.access = pair, !.accessUntil = now + AccessTTL]
Rotated(session, pair) == [session EXCEPT !.access = pair, !.accessUntil = now + AccessTTL,
                                          !.refresh = pair]

(* The copy read before is written back with new secrets.  The write may   *)
(* fail, and over the network it may succeed and its answer be lost.       *)
RefreshUpdate(c) ==
    /\ calls[c].pc = "rotate"
    /\ lastPair < MaxPair
    /\ lastPair' = lastPair + 1
    /\ \/ /\ Found(calls[c].sid)
          /\ Update(Rotated(calls[c].read, lastPair + 1))
          /\ spent' = spent \union {<<calls[c].sid, calls[c].secret>>}
          /\ \/ held' = held \union {<<calls[c].sid, lastPair + 1>>}
             \/ redis /\ UNCHANGED held
       \/ /\ redis \/ ~Found(calls[c].sid)
          /\ UNCHANGED <<sessions, spent, held>>
    /\ Ends(c)
    /\ UNCHANGED <<redis, cached, now>>

(* Revoke: one step in memory, a read and a write in Redis; its error is   *)
(* ignored by both callers.                                                *)
RevokeGet(c) ==
    /\ calls[c].pc = "revoke" /\ redis
    /\ IF Found(calls[c].sid)
       THEN Goes(c, [calls[c] EXCEPT !.pc = "revoking", !.read = Find(calls[c].sid)])
       ELSE Ends(c)
    /\ UNCHANGED <<redis, sessions, lastPair, cached, held, now, spent>>

Revoke(c) ==
    /\ \/ /\ calls[c].pc = "revoking"
          /\ Update(Revoked(calls[c].read)) \/ UNCHANGED sessions
       \/ /\ calls[c].pc = "revoke" /\ ~redis
          /\ sessions' = {IF s.sid = calls[c].sid THEN Revoked(s) ELSE s : s \in sessions}
    /\ Ends(c)
    /\ UNCHANGED <<redis, lastPair, cached, held, now, spent>>

----------------------------------------------------------------------------
(* Requests with an access token: subjectOf.  A token in the cache is      *)
(* accepted (Live) and a refused or unanswered one changes nothing; the    *)
(* handlers that ask are in AccessRules.                                   *)

SubjectGet(c, sid, secret) ==
    /\ calls[c] = Idle /\ <<sid, secret>> \in held
    /\ ~Live(<<sid, secret>>)
    /\ Valid(Find(sid), secret)
    /\ Goes(c, Call("put", sid, secret, NoSession))
    /\ UNCHANGED <<redis, sessions, lastPair, cached, held, now, spent>>

SubjectPut(c) ==
    /\ calls[c].pc = "put"
    /\ Put(<<calls[c].sid, calls[c].secret>>)
    /\ Ends(c)
    /\ UNCHANGED <<redis, sessions, lastPair, held, now, spent>>

----------------------------------------------------------------------------
(* The environment. *)

(* Time passes; no call takes longer than CallTime.                        *)
SessionTick ==
    /\ now < MaxClock
    /\ \A c \in SessionCalls : calls[c] # Idle => now < calls[c].from + CallTime
    /\ now' = now + 1
    /\ UNCHANGED <<redis, sessions, lastPair, calls, cached, held, spent>>

(* Redis forgets a key RefreshTTL after the login (Update keeps the TTL).  *)
RedisExpire(sid) ==
    /\ redis /\ Found(sid) /\ now >= Find(sid).until
    /\ sessions' = {s \in sessions : s.sid # sid}
    /\ UNCHANGED <<redis, lastPair, calls, cached, held, now, spent>>

(* The daemon restarts: calls and cache are gone, and so are the sessions  *)
(* unless they are in Redis.                                               *)
SessionRestart ==
    /\ calls' = [c \in SessionCalls |-> Idle]
    /\ cached' = {}
    /\ sessions' = IF redis THEN sessions ELSE {}
    /\ UNCHANGED <<redis, lastPair, held, now, spent>>

SessionStep ==
    \/ \E c \in SessionCalls :
        \/ LoginDone(c) \/ LoginInvalid(c) \/ LoginRefused(c)
        \/ RefreshUpdate(c) \/ RevokeGet(c) \/ Revoke(c) \/ SubjectPut(c)
        \/ \E sid \in Sids : Login(c, sid)
        \/ \E t \in held : RefreshGet(c, t[1], t[2]) \/ SubjectGet(c, t[1], t[2])
    \/ SessionTick
    \/ \E sid \in Sids : RedisExpire(sid)
    \/ SessionRestart

(* The history of validity is kept beside every step.                      *)
SessionNext ==
    /\ SessionStep
    /\ validated' = [t \in Sids \X (1..MaxPair) |->
            IF Valid(Find(t[1]), t[2]) THEN now ELSE validated[t]]

SessionInit ==
    /\ redis \in BOOLEAN
    /\ sessions = {} /\ lastPair = 0
    /\ calls = [c \in SessionCalls |-> Idle]
    /\ cached = {} /\ held = {} /\ now = 0 /\ spent = {}
    /\ validated = [t \in Sids \X (1..MaxPair) |-> 0]

SessionSpec == SessionInit /\ [][SessionNext]_sessionVars

----------------------------------------------------------------------------
(* Properties. *)

(* A refresh token that a finished Refresh has replaced is never taken     *)
(* again (service.go:80): whatever refreshes, revocations and store errors *)
(* overlap, the store never again accepts a secret it has rotated away.    *)
SpentNeverAccepted ==
    \A s \in sessions : <<s.sid, s.refresh>> \in spent => s.revoked

(* A token is accepted under the player's name at most SubjectTTL (plus    *)
(* the time of one call) after the session was last good for that very     *)
(* token (subject.go:41, service.go:105): one that was rotated, revoked,   *)
(* expired or lost with the store is refused from then on.                 *)
IdentifiedFresh ==
    \A t \in held : Live(t) => now <= validated[t] + SubjectTTL + CallTime

(* A token that was replaced, revoked or has expired stops working: the    *)
(* store never takes a spent refresh token again, and the API's cache      *)
(* answers with a name for at most SubjectTTL and one call longer,         *)
(* whatever calls overlap.                                                 *)
TokensSound == SpentNeverAccepted /\ IdentifiedFresh

=============================================================================
