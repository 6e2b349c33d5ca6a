---------------------------- MODULE SignInProofs ----------------------------
(***************************************************************************)
(* Proofs about what lets players in: sessions and their tokens, one-time  *)
(* codes, the counters of wrong attempts and of crash reports, and the     *)
(* sessions of the game, for any players, any number of calls at the same  *)
(* time and any lifetimes.                                                 *)
(***************************************************************************)
EXTENDS Session, OneTimeCodes, PlayerLimits, GameSessions, FiniteSetTheorems, TLAPS

-----------------------------------------------------------------------------
(***************************************************************************)
(* Session.  The secrets in the store and those that were spent have been  *)
(* drawn, so that a new one is neither; a call that is about to remember a *)
(* token knows a moment, at most CallTime ago, when it was good; and no    *)
(* entry of the cache outlives what that allows.                           *)
(***************************************************************************)
Tokens == Sids \X (1 .. MaxPair)
SessionRecord == [sid : Sids, access : 1 .. MaxPair, accessUntil : Nat,
                  refresh : 1 .. MaxPair, until : Nat, revoked : BOOLEAN]
CallRecord == [pc : {"check", "rotate", "revoke", "revoking", "put"}, sid : Sids,
               secret : 1 .. MaxPair, read : SessionRecord \cup {NoSession}, from : Nat]

SessionTypes ==
  /\ redis \in BOOLEAN
  /\ sessions \subseteq SessionRecord
  /\ lastPair \in 0 .. MaxPair
  /\ calls \in [SessionCalls -> CallRecord \cup {Idle}]
  /\ cached \subseteq [token : Tokens, expires : Nat]
  /\ held \subseteq Tokens
  /\ now \in Nat
  /\ spent \subseteq Tokens
  /\ validated \in [Tokens -> Nat]

CallOK(c) ==
  calls[c] # Idle =>
    /\ calls[c].secret <= lastPair
    /\ calls[c].pc \in {"rotate", "revoking"} =>
         calls[c].read \in SessionRecord /\ calls[c].read.sid = calls[c].sid
    /\ now <= calls[c].from + CallTime
    /\ calls[c].pc = "put" =>
         calls[c].from <= validated[<<calls[c].sid, calls[c].secret>>]

SessionInv ==
  /\ SessionTypes
  /\ \A t \in held \cup spent : t[2] <= lastPair
  /\ SpentNeverAccepted
  /\ \A t \in Tokens : validated[t] <= now
  /\ \A c \in SessionCalls : CallOK(c)
  /\ \A e \in cached : e.expires <= validated[e.token] + SubjectTTL + CallTime

(* The answer "no session" is not a session.                               *)
LEMMA NoSessionIsNone == NoSession \notin SessionRecord
<1> SUFFICES ASSUME NoSession \in SessionRecord PROVE FALSE
  OBVIOUS
<1>1. "sid" \in DOMAIN NoSession
  BY DEF SessionRecord
<1> QED
  BY <1>1 DEF NoSession

(* What the store finds for a sid is a session of that sid.                *)
LEMMA FindIs ==
  ASSUME SessionTypes, NEW sid, Found(sid)
  PROVE  Find(sid) \in sessions /\ Find(sid) \in SessionRecord /\ Find(sid).sid = sid
<1>1. \E s \in sessions : s.sid = sid
  BY DEF Found, Find
<1> QED
  BY <1>1 DEF Find, SessionTypes

(* A call at work is not idle and has the fields of a call.                *)
LEMMA CallAtWork ==
  ASSUME SessionTypes, NEW c \in SessionCalls, calls[c] # Idle
  PROVE  /\ calls[c] \in CallRecord
         /\ calls[c].pc # "idle"
<1> QED
  BY DEF SessionTypes, CallRecord

(* The moment a token was last good never goes back.                       *)
LEMMA ValidatedGrows ==
  ASSUME SessionInv, SessionNext, now' \in Nat, now <= now'
  PROVE  /\ validated' \in [Tokens -> Nat]
         /\ \A t \in Tokens : validated[t] <= validated'[t] /\ validated'[t] <= now'
<1> QED
  BY DEF SessionInv, SessionTypes, SessionNext, Tokens

(* A step of one call that keeps the store's promises, with the call left  *)
(* idle or in good order, keeps the whole invariant.                       *)
LEMMA SessionStepOf ==
  ASSUME SessionInv, SessionNext, NEW c \in SessionCalls, NEW call,
         calls' = [calls EXCEPT ![c] = call],
         call \in CallRecord \cup {Idle},
         CallOK(c)',
         redis' = redis, now' = now,
         lastPair' \in lastPair .. MaxPair,
         sessions' \subseteq SessionRecord,
         held' \subseteq Tokens, spent' \subseteq Tokens,
         \A t \in held' \cup spent' : t[2] <= lastPair',
         SpentNeverAccepted',
         cached' \subseteq [token : Tokens, expires : Nat],
         \A e \in cached' : e.expires <= validated'[e.token] + SubjectTTL + CallTime
  PROVE  SessionInv'
<1>1. /\ validated' \in [Tokens -> Nat]
      /\ \A t \in Tokens : validated[t] <= validated'[t] /\ validated'[t] <= now'
  BY ValidatedGrows DEF SessionInv, SessionTypes
<1>2. SessionTypes'
  BY <1>1, SessionAssumption DEF SessionInv, SessionTypes
<1>3. \A d \in SessionCalls : CallOK(d)'
  <2> SUFFICES ASSUME NEW d \in SessionCalls, d # c PROVE CallOK(d)'
    OBVIOUS
  <2>1. calls'[d] = calls[d] /\ CallOK(d)
    BY DEF SessionInv, SessionTypes
  <2>2. CASE calls[d] = Idle
    BY <2>1, <2>2 DEF CallOK
  <2>3. CASE calls[d] # Idle
    <3>1. calls[d] \in CallRecord
      BY <2>3, CallAtWork DEF SessionInv
    <3>2. <<calls[d].sid, calls[d].secret>> \in Tokens
      BY <3>1 DEF CallRecord, Tokens
    <3> QED
      BY <2>1, <2>3, <3>1, <3>2, <1>1, SessionAssumption
      DEF CallOK, CallRecord, SessionInv, SessionTypes
  <2> QED
    BY <2>2, <2>3
<1> QED
  BY <1>1, <1>2, <1>3 DEF SessionInv


(* Remembering a token keeps the cache within what the moments allow.      *)
LEMMA PutKeeps ==
  ASSUME SessionInv, NEW token \in Tokens, Put(token),
         validated' \in [Tokens -> Nat],
         \A t \in Tokens : validated[t] <= validated'[t],
         now <= validated'[token] + CallTime
  PROVE  /\ cached' \subseteq [token : Tokens, expires : Nat]
         /\ \A e \in cached' : e.expires <= validated'[e.token] + SubjectTTL + CallTime
<1>1. PICK kept \in Kept :
        cached' = {e \in kept : e.token # token} \union {[token |-> token, expires |-> now + SubjectTTL]}
  BY DEF Put
<1>2. kept \subseteq cached
  BY <1>1 DEF Kept, kSubset
<1>3. now \in Nat /\ SubjectTTL \in Nat /\ CallTime \in Nat
  BY SessionAssumption DEF SessionInv, SessionTypes
<1>4. ASSUME NEW e \in cached'
      PROVE  /\ e \in [token : Tokens, expires : Nat]
             /\ e.expires <= validated'[e.token] + SubjectTTL + CallTime
  <2>1. CASE e \in kept
    <3>1. e \in [token : Tokens, expires : Nat] /\ e.expires <= validated[e.token] + SubjectTTL + CallTime
      BY <2>1, <1>2 DEF SessionInv, SessionTypes
    <3>2. validated[e.token] \in Nat /\ validated'[e.token] \in Nat /\ validated[e.token] <= validated'[e.token]
      BY <3>1 DEF SessionInv, SessionTypes
    <3> QED
      BY <3>1, <3>2, <1>3
  <2>2. CASE e = [token |-> token, expires |-> now + SubjectTTL]
    BY <2>2, <1>3
  <2> QED
    BY <1>1, <1>4, <2>1, <2>2
<1> QED
  BY <1>4

(* Entries stay in order when the cache is left alone.                     *)
LEMMA CacheLeftAlone ==
  ASSUME SessionInv, cached' = cached,
         validated' \in [Tokens -> Nat],
         \A t \in Tokens : validated[t] <= validated'[t]
  PROVE  /\ cached' \subseteq [token : Tokens, expires : Nat]
         /\ \A e \in cached' : e.expires <= validated'[e.token] + SubjectTTL + CallTime
<1> QED
  BY SessionAssumption DEF SessionInv, SessionTypes

(* Update, with a session that is revoked or whose refresh secret nobody   *)
(* has spent, never brings a spent secret back.                            *)
LEMMA UpdateKeeps ==
  ASSUME SessionInv, NEW session \in SessionRecord, Update(session),
         spent' = spent \/ spent' \subseteq spent \cup ({session.sid} \X (1 .. lastPair)),
         session.revoked \/ session.refresh > lastPair
  PROVE  sessions' \subseteq SessionRecord /\ SpentNeverAccepted'
<1>1. \A s \in sessions' : s = session \/ (s \in sessions /\ s.sid # session.sid)
  BY DEF Update
<1>2. sessions' \subseteq SessionRecord
  BY <1>1 DEF SessionInv, SessionTypes
<1>3. \A t \in spent' : t \in spent \/ t[1] = session.sid
  OBVIOUS
<1>4. \A t \in spent' : t[2] \in Nat /\ t[2] <= lastPair
  BY DEF SessionInv, SessionTypes, Tokens
<1>5. ASSUME NEW s \in sessions', <<s.sid, s.refresh>> \in spent'
      PROVE  s.revoked
  <2>1. CASE s = session
    <3>1. s.refresh \in Nat /\ s.refresh <= lastPair
      BY <1>4, <1>5
    <3>2. lastPair \in Nat
      BY DEF SessionInv, SessionTypes
    <3> QED
      BY <2>1, <3>1, <3>2
  <2>2. CASE s \in sessions /\ s.sid # session.sid
    <3>1. <<s.sid, s.refresh>> \in spent
      BY <1>3, <1>5, <2>2
    <3> QED
      BY <2>2, <3>1 DEF SessionInv, SpentNeverAccepted
  <2> QED
    BY <1>1, <2>1, <2>2
<1> QED
  BY <1>2, <1>5 DEF SpentNeverAccepted


(* A step that leaves the store alone and one call in good order keeps the *)
(* invariant.                                                              *)
LEMMA StoreLeftAlone ==
  ASSUME SessionInv, SessionNext, NEW c \in SessionCalls, NEW call,
         calls' = [calls EXCEPT ![c] = call],
         call \in CallRecord \cup {Idle},
         CallOK(c)',
         redis' = redis, now' = now, lastPair' = lastPair, sessions' = sessions,
         cached' = cached, spent' = spent,
         held' \subseteq Tokens, \A t \in held' : t[2] <= lastPair
  PROVE  SessionInv'
<1>1. /\ validated' \in [Tokens -> Nat]
      /\ \A t \in Tokens : validated[t] <= validated'[t] /\ validated'[t] <= now'
  BY ValidatedGrows DEF SessionInv, SessionTypes
<1>2. /\ cached' \subseteq [token : Tokens, expires : Nat]
      /\ \A e \in cached' : e.expires <= validated'[e.token] + SubjectTTL + CallTime
  BY <1>1, CacheLeftAlone
<1>3. lastPair' \in lastPair .. MaxPair
  BY SessionAssumption DEF SessionInv, SessionTypes
<1>4. SpentNeverAccepted' /\ sessions' \subseteq SessionRecord /\ spent' \subseteq Tokens
  BY DEF SessionInv, SpentNeverAccepted, SessionTypes
<1>5. \A t \in held' \cup spent' : t[2] <= lastPair'
  BY DEF SessionInv
<1> QED
  BY <1>2, <1>3, <1>4, <1>5, SessionStepOf

(* An idle call is in good order.                                          *)
LEMMA IdleOK ==
  ASSUME SessionTypes, NEW c \in SessionCalls, calls' = [calls EXCEPT ![c] = Idle]
  PROVE  CallOK(c)'
<1> QED
  BY DEF CallOK, SessionTypes

(* Login keeps the invariant: its secrets are new.                         *)
LEMMA LoginKeeps ==
  ASSUME SessionInv, SessionNext, NEW c \in SessionCalls, NEW sid \in Sids, Login(c, sid)
  PROVE  SessionInv'
<1> DEFINE call == Call("check", sid, lastPair + 1, NoSession)
           session == issue(sid, lastPair + 1)
<1>1. /\ now \in Nat /\ lastPair \in Nat /\ lastPair + 1 \in 1 .. MaxPair
      /\ CallTime \in Nat /\ AccessTTL \in Nat /\ RefreshTTL \in Nat
  BY SessionAssumption DEF SessionInv, SessionTypes, Login
<1>2. /\ call \in CallRecord /\ call.pc = "check" /\ call.secret = lastPair + 1 /\ call.from = now
  BY <1>1 DEF Call, CallRecord
<1>3. session \in SessionRecord /\ session.refresh = lastPair + 1
  BY <1>1 DEF issue, SessionRecord
<1>4. /\ calls' = [calls EXCEPT ![c] = call] /\ lastPair' = lastPair + 1
      /\ sessions' = sessions \cup {session} /\ now' = now
      /\ redis' = redis /\ cached' = cached /\ held' = held /\ spent' = spent
  BY DEF Login, Goes, Create
<1> HIDE DEF call, session
<1>5. CallOK(c)'
  <2>1. calls'[c] = call
    BY <1>4 DEF SessionInv, SessionTypes
  <2> QED
    BY <1>1, <1>2, <1>4, <2>1 DEF CallOK
<1>6. /\ validated' \in [Tokens -> Nat]
      /\ \A t \in Tokens : validated[t] <= validated'[t] /\ validated'[t] <= now'
  BY <1>1, <1>4, ValidatedGrows
<1>7. /\ cached' \subseteq [token : Tokens, expires : Nat]
      /\ \A e \in cached' : e.expires <= validated'[e.token] + SubjectTTL + CallTime
  BY <1>4, <1>6, CacheLeftAlone
<1>8. \A t \in held \cup spent : t \in Tokens /\ t[2] \in Nat /\ t[2] <= lastPair
  BY DEF SessionInv, SessionTypes, Tokens
<1>9. SpentNeverAccepted'
  <2>1. <<session.sid, session.refresh>> \notin spent
    BY <1>1, <1>3, <1>8
  <2> QED
    BY <1>4, <2>1 DEF SessionInv, SpentNeverAccepted
<1>10. \A t \in held' \cup spent' : t \in Tokens /\ t[2] <= lastPair'
  BY <1>1, <1>4, <1>8
<1>11. sessions' \subseteq SessionRecord
  BY <1>3, <1>4 DEF SessionInv, SessionTypes
<1>12. lastPair' \in lastPair .. MaxPair
  BY <1>1, <1>4
<1> QED
  BY <1>2, <1>4, <1>5, <1>7, <1>9, <1>10, <1>11, <1>12, SessionStepOf

(* A step after which the call is idle and the store as it was.            *)
LEMMA LoginEndKeeps ==
  ASSUME SessionInv, SessionNext, NEW c \in SessionCalls, LoginDone(c) \/ LoginInvalid(c)
  PROVE  SessionInv'
<1>1. /\ calls' = [calls EXCEPT ![c] = Idle]
      /\ redis' = redis /\ now' = now /\ lastPair' = lastPair /\ sessions' = sessions
      /\ cached' = cached /\ spent' = spent
  BY DEF LoginDone, LoginInvalid, Ends, Goes
<1>2. calls[c] # Idle
  BY DEF LoginDone, LoginInvalid, Idle
<1>3. <<calls[c].sid, calls[c].secret>> \in Tokens /\ calls[c].secret <= lastPair
  BY <1>2, CallAtWork DEF SessionInv, CallOK, CallRecord, Tokens
<1>4. held' \subseteq held \cup {<<calls[c].sid, calls[c].secret>>}
  BY DEF LoginDone, LoginInvalid
<1>5. CallOK(c)'
  BY <1>1, IdleOK DEF SessionInv
<1>6. held' \subseteq Tokens /\ \A t \in held' : t[2] <= lastPair
  BY <1>3, <1>4 DEF SessionInv, SessionTypes
<1> QED
  BY <1>1, <1>5, <1>6, StoreLeftAlone

(* A refused machine only moves its call on.                               *)
LEMMA LoginRefusedKeeps ==
  ASSUME SessionInv, SessionNext, NEW c \in SessionCalls, LoginRefused(c)
  PROVE  SessionInv'
<1> DEFINE call == [calls[c] EXCEPT !.pc = "revoke"]
<1>1. calls[c] # Idle /\ calls[c] \in CallRecord /\ CallOK(c)
  BY CallAtWork DEF LoginRefused, Idle, SessionInv
<1>2. /\ call \in CallRecord /\ call.pc = "revoke" /\ call.secret = calls[c].secret /\ call.from = calls[c].from
  BY <1>1 DEF CallRecord
<1>3. /\ calls' = [calls EXCEPT ![c] = call] /\ held' = held
      /\ redis' = redis /\ now' = now /\ lastPair' = lastPair /\ sessions' = sessions
      /\ cached' = cached /\ spent' = spent
  BY DEF LoginRefused, Goes
<1> HIDE DEF call
<1>4. calls'[c] = call
  BY <1>3 DEF SessionInv, SessionTypes
<1>5. CallOK(c)'
  BY <1>1, <1>2, <1>3, <1>4 DEF CallOK
<1>6. held' \subseteq Tokens /\ \A t \in held' : t[2] <= lastPair
  BY <1>3 DEF SessionInv, SessionTypes
<1> QED
  BY <1>2, <1>3, <1>5, <1>6, StoreLeftAlone

(* A refresh that read its session, or a refused one.                      *)
LEMMA RefreshGetKeeps ==
  ASSUME SessionInv, SessionNext, NEW c \in SessionCalls, NEW sid, NEW secret,
         RefreshGet(c, sid, secret)
  PROVE  SessionInv'
<1>1. PICK call : /\ calls' = [calls EXCEPT ![c] = call]
                  /\ \/ Found(sid) /\ call = Call("rotate", sid, secret, Find(sid))
                     \/ call = Call("revoke", sid, secret, NoSession)
  BY DEF RefreshGet, Goes, Found
<1>2. sid \in Sids /\ secret \in 1 .. MaxPair /\ secret <= lastPair
  <2>1. <<sid, secret>> \in held
    BY DEF RefreshGet
  <2> QED
    BY <2>1 DEF SessionInv, SessionTypes, Tokens
<1>3. now \in Nat /\ CallTime \in Nat
  BY SessionAssumption DEF SessionInv, SessionTypes
<1>4. /\ call \in CallRecord /\ call.secret <= lastPair /\ now <= call.from + CallTime
      /\ call.pc \in {"rotate", "revoke"}
      /\ call.pc = "rotate" => call.read \in SessionRecord /\ call.read.sid = call.sid
  <2>1. CASE Found(sid) /\ call = Call("rotate", sid, secret, Find(sid))
    <3>1. Find(sid) \in SessionRecord /\ Find(sid).sid = sid
      BY <2>1, FindIs DEF SessionInv
    <3> QED
      BY <1>2, <1>3, <2>1, <3>1 DEF Call, CallRecord
  <2>2. CASE call = Call("revoke", sid, secret, NoSession)
    BY <1>2, <1>3, <2>2 DEF Call, CallRecord
  <2> QED
    BY <1>1, <2>1, <2>2
<1>5. /\ held' = held
      /\ redis' = redis /\ now' = now /\ lastPair' = lastPair /\ sessions' = sessions
      /\ cached' = cached /\ spent' = spent
  BY DEF RefreshGet
<1>6. CallOK(c)'
  <2>1. calls'[c] = call
    BY <1>1 DEF SessionInv, SessionTypes
  <2> QED
    BY <1>4, <1>5, <2>1 DEF CallOK
<1>7. held' \subseteq Tokens /\ \A t \in held' : t[2] <= lastPair
  BY <1>5 DEF SessionInv, SessionTypes
<1> QED
  BY <1>1, <1>4, <1>5, <1>6, <1>7, StoreLeftAlone


(* What a refresh writes is a session of the same sid with the new pair.   *)
LEMMA RotatedIs ==
  ASSUME NEW s \in SessionRecord, NEW pair \in 1 .. MaxPair, now + AccessTTL \in Nat
  PROVE  /\ Rotated(s, pair) \in SessionRecord
         /\ Rotated(s, pair).sid = s.sid /\ Rotated(s, pair).refresh = pair
<1> DEFINE until == now + AccessTTL
           r1 == [s EXCEPT !.access = pair]
           r2 == [r1 EXCEPT !.accessUntil = until]
           r3 == [r2 EXCEPT !.refresh = pair]
<1>1. until \in Nat
  OBVIOUS
<1> HIDE DEF until
<1>2. r1 \in SessionRecord /\ r1.sid = s.sid
  BY DEF SessionRecord
<1> HIDE DEF r1
<1>3. r2 \in SessionRecord /\ r2.sid = s.sid
  BY <1>1, <1>2 DEF SessionRecord
<1> HIDE DEF r2
<1>4. r3 \in SessionRecord /\ r3.sid = s.sid /\ r3.refresh = pair
  BY <1>3 DEF SessionRecord
<1>5. Rotated(s, pair) = r3
  BY DEF Rotated, r1, r2, until
<1> QED
  BY <1>4, <1>5

(* The write of a refresh: the pair it brings is new, and the secret it    *)
(* spends is in no session any more.                                       *)
LEMMA RefreshUpdateKeeps ==
  ASSUME SessionInv, SessionNext, NEW c \in SessionCalls, RefreshUpdate(c)
  PROVE  SessionInv'
<1> DEFINE session == Rotated(calls[c].read, lastPair + 1)
           sid == calls[c].sid
           secret == calls[c].secret
<1>1. /\ calls[c].pc = "rotate" /\ lastPair' = lastPair + 1
      /\ calls' = [calls EXCEPT ![c] = Idle]
      /\ redis' = redis /\ now' = now /\ cached' = cached
  BY DEF RefreshUpdate, Ends, Goes
<1>2. calls[c] # Idle /\ calls[c] \in CallRecord
  BY <1>1, CallAtWork DEF Idle, SessionInv
<1>3. /\ secret \in 1 .. MaxPair /\ secret <= lastPair /\ sid \in Sids
      /\ calls[c].read \in SessionRecord /\ calls[c].read.sid = sid
  BY <1>1, <1>2 DEF SessionInv, CallOK, CallRecord
<1>4. /\ now \in Nat /\ lastPair \in Nat /\ lastPair + 1 \in 1 .. MaxPair /\ AccessTTL \in Nat
  BY SessionAssumption DEF SessionInv, SessionTypes, RefreshUpdate
<1>5. session \in SessionRecord /\ session.sid = sid /\ session.refresh = lastPair + 1
  BY <1>3, <1>4, RotatedIs
<1>6. \/ /\ Update(session) /\ spent' = spent \cup {<<sid, secret>>}
         /\ held' \subseteq held \cup {<<sid, lastPair + 1>>}
      \/ sessions' = sessions /\ spent' = spent /\ held' = held
  BY DEF RefreshUpdate
<1> HIDE DEF session
<1>7. sessions' \subseteq SessionRecord /\ SpentNeverAccepted'
  <2>1. CASE Update(session) /\ spent' = spent \cup {<<sid, secret>>}
    <3>1. secret \in 1 .. lastPair
      BY <1>3, <1>4
    <3>2. spent' \subseteq spent \cup ({session.sid} \X (1 .. lastPair))
      BY <1>5, <2>1, <3>1
    <3>3. session.refresh > lastPair
      BY <1>4, <1>5
    <3> QED
      BY <1>5, <2>1, <3>2, <3>3, UpdateKeeps
  <2>2. CASE sessions' = sessions /\ spent' = spent
    BY <2>2 DEF SessionInv, SpentNeverAccepted, SessionTypes
  <2> QED
    BY <1>6, <2>1, <2>2
<1>8. \A t \in held \cup spent : t \in Tokens /\ t[2] \in Nat /\ t[2] <= lastPair
  BY DEF SessionInv, SessionTypes, Tokens
<1>9. \A t \in held' \cup spent' : t \in Tokens /\ t[2] <= lastPair'
  BY <1>1, <1>3, <1>4, <1>6, <1>8 DEF Tokens
<1>10. /\ validated' \in [Tokens -> Nat]
       /\ \A t \in Tokens : validated[t] <= validated'[t] /\ validated'[t] <= now'
  BY <1>1, <1>4, ValidatedGrows
<1>11. /\ cached' \subseteq [token : Tokens, expires : Nat]
       /\ \A e \in cached' : e.expires <= validated'[e.token] + SubjectTTL + CallTime
  BY <1>1, <1>10, CacheLeftAlone
<1>12. CallOK(c)'
  BY <1>1, IdleOK DEF SessionInv
<1>13. lastPair' \in lastPair .. MaxPair
  BY <1>1, <1>4
<1> QED
  BY <1>1, <1>7, <1>9, <1>11, <1>12, <1>13, SessionStepOf

(* The read of a revocation in Redis.                                      *)
LEMMA RevokeGetKeeps ==
  ASSUME SessionInv, SessionNext, NEW c \in SessionCalls, RevokeGet(c)
  PROVE  SessionInv'
<1> DEFINE sid == calls[c].sid
           reading == [calls[c] EXCEPT !.pc = "revoking", !.read = Find(calls[c].sid)]
<1>1. calls[c] # Idle /\ calls[c] \in CallRecord /\ CallOK(c)
  BY CallAtWork DEF RevokeGet, Idle, SessionInv
<1>2. /\ held' = held
      /\ redis' = redis /\ now' = now /\ lastPair' = lastPair /\ sessions' = sessions
      /\ cached' = cached /\ spent' = spent
  BY DEF RevokeGet
<1>3. held' \subseteq Tokens /\ \A t \in held' : t[2] <= lastPair
  BY <1>2 DEF SessionInv, SessionTypes
<1>4. CASE Found(sid)
  <2>1. calls' = [calls EXCEPT ![c] = reading]
    BY <1>4 DEF RevokeGet, Goes
  <2>2. Find(sid) \in SessionRecord /\ Find(sid).sid = sid
    BY <1>4, FindIs DEF SessionInv
  <2>3. /\ reading \in CallRecord /\ reading.pc = "revoking" /\ reading.read = Find(sid)
        /\ reading.sid = sid /\ reading.secret = calls[c].secret /\ reading.from = calls[c].from
    BY <1>1, <2>2 DEF CallRecord
  <2> HIDE DEF reading
  <2>4. calls'[c] = reading
    BY <2>1 DEF SessionInv, SessionTypes
  <2>5. CallOK(c)'
    BY <1>1, <1>2, <2>2, <2>3, <2>4 DEF CallOK
  <2> QED
    BY <1>2, <1>3, <2>1, <2>3, <2>5, StoreLeftAlone
<1>5. CASE ~Found(sid)
  <2>1. calls' = [calls EXCEPT ![c] = Idle]
    BY <1>5 DEF RevokeGet, Ends, Goes
  <2>2. CallOK(c)'
    BY <2>1, IdleOK DEF SessionInv
  <2> QED
    BY <1>2, <1>3, <2>1, <2>2, StoreLeftAlone
<1> QED
  BY <1>4, <1>5

(* A revocation: what it writes is revoked.                                *)
LEMMA RevokeKeeps ==
  ASSUME SessionInv, SessionNext, NEW c \in SessionCalls, Revoke(c)
  PROVE  SessionInv'
<1> DEFINE session == Revoked(calls[c].read)
<1>1. /\ calls' = [calls EXCEPT ![c] = Idle] /\ held' = held /\ lastPair' = lastPair
      /\ redis' = redis /\ now' = now /\ cached' = cached /\ spent' = spent
  BY DEF Revoke, Ends, Goes
<1>2. \/ calls[c].pc = "revoking" /\ (Update(session) \/ sessions' = sessions)
      \/ sessions' = {IF s.sid = calls[c].sid THEN Revoked(s) ELSE s : s \in sessions}
  BY DEF Revoke
<1>3. sessions' \subseteq SessionRecord /\ SpentNeverAccepted'
  <2>1. CASE calls[c].pc = "revoking" /\ Update(session)
    <3>1. calls[c] # Idle
      BY <2>1 DEF Idle
    <3>2. calls[c].read \in SessionRecord
      BY <2>1, <3>1 DEF SessionInv, CallOK
    <3>3. session \in SessionRecord /\ session.revoked
      BY <3>2 DEF Revoked, SessionRecord
    <3> HIDE DEF session
    <3> QED
      BY <1>1, <2>1, <3>3, UpdateKeeps
  <2>2. CASE sessions' = sessions
    BY <1>1, <2>2 DEF SessionInv, SpentNeverAccepted, SessionTypes
  <2>3. CASE sessions' = {IF s.sid = calls[c].sid THEN Revoked(s) ELSE s : s \in sessions}
    <3>1. \A s \in sessions : /\ s \in SessionRecord /\ Revoked(s) \in SessionRecord
                              /\ Revoked(s).revoked
      BY DEF SessionInv, SessionTypes, Revoked, SessionRecord
    <3>2. \A s \in sessions' : s \in sessions \/ (s \in SessionRecord /\ s.revoked)
      BY <2>3, <3>1
    <3> QED
      BY <1>1, <3>1, <3>2 DEF SessionInv, SpentNeverAccepted
  <2> QED
    BY <1>2, <2>1, <2>2, <2>3
<1>4. /\ now \in Nat /\ lastPair' \in lastPair .. MaxPair
  BY <1>1, SessionAssumption DEF SessionInv, SessionTypes
<1>5. \A t \in held' \cup spent' : t \in Tokens /\ t[2] <= lastPair'
  BY <1>1 DEF SessionInv, SessionTypes
<1>6. /\ validated' \in [Tokens -> Nat]
      /\ \A t \in Tokens : validated[t] <= validated'[t] /\ validated'[t] <= now'
  BY <1>1, <1>4, ValidatedGrows
<1>7. /\ cached' \subseteq [token : Tokens, expires : Nat]
      /\ \A e \in cached' : e.expires <= validated'[e.token] + SubjectTTL + CallTime
  BY <1>1, <1>6, CacheLeftAlone
<1>8. CallOK(c)'
  BY <1>1, IdleOK DEF SessionInv
<1> QED
  BY <1>1, <1>3, <1>4, <1>5, <1>7, <1>8, SessionStepOf

(* A request whose token the store just accepted: this very moment counts. *)
LEMMA SubjectGetKeeps ==
  ASSUME SessionInv, SessionNext, NEW c \in SessionCalls, NEW sid, NEW secret,
         SubjectGet(c, sid, secret)
  PROVE  SessionInv'
<1> DEFINE call == Call("put", sid, secret, NoSession)
<1>1. /\ calls' = [calls EXCEPT ![c] = call] /\ held' = held /\ lastPair' = lastPair
      /\ redis' = redis /\ now' = now /\ cached' = cached /\ spent' = spent /\ sessions' = sessions
  BY DEF SubjectGet, Goes
<1>2. <<sid, secret>> \in held /\ Valid(Find(sid), secret)
  BY DEF SubjectGet
<1>3. sid \in Sids /\ secret \in 1 .. MaxPair /\ secret <= lastPair /\ <<sid, secret>> \in Tokens
  BY <1>2 DEF SessionInv, SessionTypes, Tokens
<1>4. validated'[<<sid, secret>>] = now
  BY <1>2, <1>3 DEF SessionNext, Tokens
<1>5. now \in Nat /\ CallTime \in Nat
  BY SessionAssumption DEF SessionInv, SessionTypes
<1>6. /\ call \in CallRecord /\ call.pc = "put" /\ call.from = now
      /\ call.sid = sid /\ call.secret = secret
  BY <1>3, <1>5 DEF Call, CallRecord
<1> HIDE DEF call
<1>7. CallOK(c)'
  <2>1. calls'[c] = call
    BY <1>1 DEF SessionInv, SessionTypes
  <2> QED
    BY <1>1, <1>3, <1>4, <1>5, <1>6, <2>1 DEF CallOK
<1>8. held' \subseteq Tokens /\ \A t \in held' : t[2] <= lastPair
  BY <1>1 DEF SessionInv, SessionTypes
<1> QED
  BY <1>1, <1>6, <1>7, <1>8, StoreLeftAlone

(* The cache is written at most CallTime after the store was asked.        *)
LEMMA SubjectPutKeeps ==
  ASSUME SessionInv, SessionNext, NEW c \in SessionCalls, SubjectPut(c)
  PROVE  SessionInv'
<1> DEFINE token == <<calls[c].sid, calls[c].secret>>
<1>1. /\ calls' = [calls EXCEPT ![c] = Idle] /\ held' = held /\ lastPair' = lastPair
      /\ redis' = redis /\ now' = now /\ spent' = spent /\ sessions' = sessions
      /\ Put(token) /\ calls[c].pc = "put"
  BY DEF SubjectPut, Ends, Goes
<1>2. calls[c] # Idle /\ calls[c] \in CallRecord
  BY <1>1, CallAtWork DEF Idle, SessionInv
<1>3. /\ token \in Tokens /\ calls[c].from \in Nat
      /\ calls[c].from <= validated[token] /\ now <= calls[c].from + CallTime
  BY <1>1, <1>2 DEF SessionInv, CallOK, CallRecord, Tokens
<1>4. now \in Nat /\ CallTime \in Nat /\ lastPair' \in lastPair .. MaxPair
  BY <1>1, SessionAssumption DEF SessionInv, SessionTypes
<1>5. /\ validated' \in [Tokens -> Nat]
      /\ \A t \in Tokens : validated[t] <= validated'[t] /\ validated'[t] <= now'
  BY <1>1, <1>4, ValidatedGrows
<1>6. now <= validated'[token] + CallTime
  <2>1. validated[token] \in Nat /\ validated'[token] \in Nat /\ validated[token] <= validated'[token]
    BY <1>3, <1>5 DEF SessionInv, SessionTypes
  <2> QED
    BY <1>3, <1>4, <2>1
<1> HIDE DEF token
<1>7. /\ cached' \subseteq [token : Tokens, expires : Nat]
      /\ \A e \in cached' : e.expires <= validated'[e.token] + SubjectTTL + CallTime
  BY <1>1, <1>3, <1>5, <1>6, PutKeeps
<1>8. SpentNeverAccepted' /\ sessions' \subseteq SessionRecord
  BY <1>1 DEF SessionInv, SpentNeverAccepted, SessionTypes
<1>9. \A t \in held' \cup spent' : t \in Tokens /\ t[2] <= lastPair'
  BY <1>1 DEF SessionInv, SessionTypes
<1>10. CallOK(c)'
  BY <1>1, IdleOK DEF SessionInv
<1> QED
  BY <1>1, <1>4, <1>7, <1>8, <1>9, <1>10, SessionStepOf


(* The clock waits for calls that have taken all their time.               *)
LEMMA SessionTickKeeps ==
  ASSUME SessionInv, SessionNext, SessionTick
  PROVE  SessionInv'
<1>1. /\ now' = now + 1 /\ now \in Nat /\ CallTime \in Nat
      /\ redis' = redis /\ sessions' = sessions /\ lastPair' = lastPair /\ calls' = calls
      /\ cached' = cached /\ held' = held /\ spent' = spent
  BY SessionAssumption DEF SessionTick, SessionInv, SessionTypes
<1>2. /\ validated' \in [Tokens -> Nat]
      /\ \A t \in Tokens : validated[t] <= validated'[t] /\ validated'[t] <= now'
  BY <1>1, ValidatedGrows
<1>3. /\ cached' \subseteq [token : Tokens, expires : Nat]
      /\ \A e \in cached' : e.expires <= validated'[e.token] + SubjectTTL + CallTime
  BY <1>1, <1>2, CacheLeftAlone
<1>4. ASSUME NEW c \in SessionCalls PROVE CallOK(c)'
  <2>1. CASE calls[c] = Idle
    BY <1>1, <2>1 DEF CallOK
  <2>2. CASE calls[c] # Idle
    <3>1. calls[c] \in CallRecord /\ now < calls[c].from + CallTime /\ CallOK(c)
      BY <2>2, CallAtWork DEF SessionInv, SessionTick
    <3>2. <<calls[c].sid, calls[c].secret>> \in Tokens /\ calls[c].from \in Nat
      BY <3>1 DEF CallRecord, Tokens
    <3> QED
      BY <1>1, <1>2, <2>2, <3>1, <3>2 DEF CallOK, SessionInv, SessionTypes
  <2> QED
    BY <2>1, <2>2
<1>5. SpentNeverAccepted'
  BY <1>1 DEF SessionInv, SpentNeverAccepted
<1> QED
  BY <1>1, <1>2, <1>3, <1>4, <1>5 DEF SessionInv, SessionTypes

(* A key that Redis forgets, and a restart, only take sessions away.       *)
LEMMA SessionsLost ==
  ASSUME SessionInv, SessionNext, sessions' \subseteq sessions, cached' \subseteq cached,
         redis' = redis, lastPair' = lastPair, held' = held, now' = now, spent' = spent,
         calls' = calls \/ calls' = [c \in SessionCalls |-> Idle]
  PROVE  SessionInv'
<1>1. now \in Nat /\ CallTime \in Nat /\ SubjectTTL \in Nat
  BY SessionAssumption DEF SessionInv, SessionTypes
<1>2. /\ validated' \in [Tokens -> Nat]
      /\ \A t \in Tokens : validated[t] <= validated'[t] /\ validated'[t] <= now'
  BY <1>1, ValidatedGrows
<1>3. /\ cached' \subseteq [token : Tokens, expires : Nat]
      /\ \A e \in cached' : e.expires <= validated'[e.token] + SubjectTTL + CallTime
  BY <1>1, <1>2 DEF SessionInv, SessionTypes
<1>4. ASSUME NEW c \in SessionCalls PROVE CallOK(c)'
  <2>1. CASE calls'[c] = Idle
    BY <2>1 DEF CallOK
  <2>2. CASE calls'[c] # Idle
    <3>1. calls' = calls
      BY <2>2
    <3>2. calls[c] \in CallRecord /\ CallOK(c)
      BY <2>2, <3>1, CallAtWork DEF SessionInv
    <3>3. <<calls[c].sid, calls[c].secret>> \in Tokens /\ calls[c].from \in Nat
      BY <3>2 DEF CallRecord, Tokens
    <3> QED
      BY <1>1, <1>2, <2>2, <3>1, <3>2, <3>3 DEF CallOK, SessionInv, SessionTypes
  <2> QED
    BY <2>1, <2>2
<1>5. SpentNeverAccepted'
  BY DEF SessionInv, SpentNeverAccepted
<1>6. calls' \in [SessionCalls -> CallRecord \cup {Idle}]
  BY DEF SessionInv, SessionTypes
<1> QED
  BY <1>1, <1>2, <1>3, <1>4, <1>5, <1>6 DEF SessionInv, SessionTypes

(* SessionInv is inductive.                                                *)
THEOREM SessionInductive == SessionSpec => []SessionInv
<1>1. SessionInit => SessionInv
  <2> SUFFICES ASSUME SessionInit PROVE SessionInv
    OBVIOUS
  <2>1. \A c \in SessionCalls : CallOK(c)
    BY DEF SessionInit, CallOK
  <2>2. SessionTypes
    BY SessionAssumption DEF SessionInit, SessionTypes, Tokens
  <2> QED
    BY <2>1, <2>2 DEF SessionInit, SessionInv, SpentNeverAccepted, Tokens
<1>2. SessionInv /\ [SessionNext]_sessionVars => SessionInv'
  <2> SUFFICES ASSUME SessionInv, [SessionNext]_sessionVars PROVE SessionInv'
    OBVIOUS
  <2>1. CASE UNCHANGED sessionVars
    BY <2>1 DEF sessionVars, SessionInv, SessionTypes, SpentNeverAccepted, CallOK
  <2>2. CASE SessionNext
    <3>1. SessionStep
      BY <2>2 DEF SessionNext
    <3>2. ASSUME NEW c \in SessionCalls, LoginDone(c) \/ LoginInvalid(c) PROVE SessionInv'
      BY <2>2, <3>2, LoginEndKeeps
    <3>3. ASSUME NEW c \in SessionCalls, LoginRefused(c) PROVE SessionInv'
      BY <2>2, <3>3, LoginRefusedKeeps
    <3>4. ASSUME NEW c \in SessionCalls, RefreshUpdate(c) PROVE SessionInv'
      BY <2>2, <3>4, RefreshUpdateKeeps
    <3>5. ASSUME NEW c \in SessionCalls, RevokeGet(c) PROVE SessionInv'
      BY <2>2, <3>5, RevokeGetKeeps
    <3>6. ASSUME NEW c \in SessionCalls, Revoke(c) PROVE SessionInv'
      BY <2>2, <3>6, RevokeKeeps
    <3>7. ASSUME NEW c \in SessionCalls, SubjectPut(c) PROVE SessionInv'
      BY <2>2, <3>7, SubjectPutKeeps
    <3>8. ASSUME NEW c \in SessionCalls, NEW sid \in Sids, Login(c, sid) PROVE SessionInv'
      BY <2>2, <3>8, LoginKeeps
    <3>9. ASSUME NEW c \in SessionCalls, NEW t \in held, RefreshGet(c, t[1], t[2]) PROVE SessionInv'
      BY <2>2, <3>9, RefreshGetKeeps
    <3>10. ASSUME NEW c \in SessionCalls, NEW t \in held, SubjectGet(c, t[1], t[2]) PROVE SessionInv'
      BY <2>2, <3>10, SubjectGetKeeps
    <3>11. ASSUME SessionTick PROVE SessionInv'
      BY <2>2, <3>11, SessionTickKeeps
    <3>12. ASSUME NEW sid \in Sids, RedisExpire(sid) PROVE SessionInv'
      <4>1. sessions' \subseteq sessions
        BY <3>12 DEF RedisExpire
      <4>2. /\ cached' = cached /\ redis' = redis /\ lastPair' = lastPair /\ held' = held
            /\ now' = now /\ spent' = spent /\ calls' = calls
        BY <3>12 DEF RedisExpire
      <4> QED
        BY <2>2, <4>1, <4>2, SessionsLost
    <3>13. ASSUME SessionRestart PROVE SessionInv'
      <4>1. /\ cached' \subseteq cached /\ redis' = redis /\ lastPair' = lastPair /\ held' = held
            /\ now' = now /\ spent' = spent /\ calls' = [c \in SessionCalls |-> Idle]
            /\ sessions' \subseteq sessions
        BY <3>13 DEF SessionRestart
      <4> QED
        BY <2>2, <4>1, SessionsLost
    <3> QED
      BY <3>1, <3>2, <3>3, <3>4, <3>5, <3>6, <3>7, <3>8, <3>9, <3>10, <3>11, <3>12, <3>13
      DEF SessionStep
  <2> QED
    BY <2>1, <2>2
<1> QED
  BY <1>1, <1>2, PTL DEF SessionSpec

(* A refresh token that was rotated away is never accepted again, and the  *)
(* API answers to a token's name at most SubjectTTL and one call after the *)
(* session was last good for it, whatever calls overlap and however many   *)
(* there are (service.go:80, subject.go:41).                               *)
THEOREM TokensStaySound == SessionSpec => []TokensSound
<1>1. SessionInv => TokensSound
  <2> SUFFICES ASSUME SessionInv PROVE IdentifiedFresh
    BY DEF SessionInv, TokensSound
  <2>1. ASSUME NEW t \in held, Live(t) PROVE now <= validated[t] + SubjectTTL + CallTime
    <3>1. PICK e \in cached : e.token = t /\ now <= e.expires
      BY <2>1 DEF Live
    <3>2. e.expires \in Nat /\ e.expires <= validated[t] + SubjectTTL + CallTime
      BY <3>1 DEF SessionInv, SessionTypes
    <3>3. validated[t] \in Nat /\ now \in Nat /\ SubjectTTL \in Nat /\ CallTime \in Nat
      BY <2>1, SessionAssumption DEF SessionInv, SessionTypes
    <3> QED
      BY <3>1, <3>2, <3>3
  <2> QED
    BY <2>1 DEF IdentifiedFresh
<1> QED
  BY <1>1, SessionInductive, PTL


-----------------------------------------------------------------------------
(***************************************************************************)
(* OneTimeCodes.  The verifier forgets a user only when the user's newest  *)
(* code is older than any code it would still take.                        *)
(***************************************************************************)
CodeRecord == [step : Steps \cup {-1}, used : Nat]

CodeOK(u) == IF lastCode[u].step = -1 THEN newestCode[u] <= period - 1
                                      ELSE newestCode[u] = lastCode[u].step

CodesInv ==
  /\ lastCode \in [CodeUsers -> CodeRecord]
  /\ period \in 0 .. MaxPeriod
  /\ newestCode \in [CodeUsers -> Int]
  /\ \A u \in CodeUsers : CodeOK(u)

(* Pruning for an acceptable step keeps the invariant.                     *)
LEMMA PrunedKeeps ==
  ASSUME CodesInv, NEW step \in Acceptable, NEW u \in CodeUsers
  PROVE  /\ Pruned(step)[u] \in CodeRecord
         /\ IF Pruned(step)[u].step = -1 THEN newestCode[u] <= period - 1
                                         ELSE newestCode[u] = Pruned(step)[u].step
<1>1. /\ step \in Int /\ step <= period + 1 /\ period \in Int /\ newestCode[u] \in Int
  BY DEF Acceptable, CodesInv
<1>2. lastCode[u] \in CodeRecord /\ lastCode[u].step \in Int /\ CodeOK(u)
  BY DEF CodesInv, CodeRecord, Steps
<1>3. NoCode \in CodeRecord /\ NoCode.step = -1
  BY DEF NoCode, CodeRecord
<1>4. CASE lastCode[u].step < step - 1
  <2>1. Pruned(step)[u] = NoCode
    BY <1>4 DEF Pruned
  <2>2. newestCode[u] <= period - 1
    <3>1. CASE lastCode[u].step = -1
      BY <1>2, <3>1 DEF CodeOK
    <3>2. CASE lastCode[u].step # -1
      BY <1>1, <1>2, <1>4, <3>2 DEF CodeOK
    <3> QED
      BY <3>1, <3>2
  <2> QED
    BY <1>3, <2>1, <2>2
<1>5. CASE ~(lastCode[u].step < step - 1)
  <2>1. Pruned(step)[u] = lastCode[u]
    BY <1>5 DEF Pruned
  <2> QED
    BY <1>2, <2>1 DEF CodeOK
<1> QED
  BY <1>4, <1>5

(* A step of the verifier keeps CodesInv, and no user's newest accepted    *)
(* code is replaced by an older one.                                       *)
LEMMA VerifyKeeps ==
  ASSUME CodesInv, NEW user \in CodeUsers, NEW step \in Steps, VerifyCode(user, step)
  PROVE  CodesInv' /\ \A u \in CodeUsers : newestCode'[u] >= newestCode[u]
<1>1. /\ step \in Acceptable /\ step \in Nat /\ period - 1 <= step /\ period' = period /\ period \in Nat
  BY CodesAssumption DEF VerifyCode, Acceptable, CodesInv, Steps
<1> DEFINE pruned == Pruned(step)
<1>2. pruned \in [CodeUsers -> CodeRecord]
  <2>1. pruned = [u \in CodeUsers |-> pruned[u]]
    BY DEF Pruned
  <2> QED
    BY <1>1, <2>1, PrunedKeeps
<1>3. \A u \in CodeUsers : IF pruned[u].step = -1 THEN newestCode[u] <= period - 1
                                                  ELSE newestCode[u] = pruned[u].step
  BY <1>1, PrunedKeeps
<1>4. CASE CodeTaken(user, step)
  <2> DEFINE record == [step |-> step, used |-> IF pruned[user].step = step THEN pruned[user].used + 1 ELSE 1]
  <2>1. lastCode' = [pruned EXCEPT ![user] = record] /\ newestCode' = [newestCode EXCEPT ![user] = step]
    BY <1>4 DEF VerifyCode, CodeRecorded
  <2>2. pruned[user] = NoCode \/ pruned[user].step < step \/ pruned[user].step = step
    BY <1>4 DEF CodeTaken
  <2>3. step >= newestCode[user]
    <3>1. newestCode[user] \in Int /\ pruned[user].step \in Int
      BY <1>2 DEF CodesInv, CodeRecord, Steps
    <3>2. CASE pruned[user].step = -1
      BY <1>1, <1>3, <3>1, <3>2
    <3>3. CASE pruned[user].step # -1
      <4>1. pruned[user] # NoCode
        BY <3>3 DEF NoCode
      <4> QED
        BY <1>1, <1>3, <2>2, <3>1, <3>3, <4>1
    <3> QED
      BY <3>2, <3>3
  <2>4. record \in CodeRecord /\ record.step = step
    BY <1>2 DEF CodeRecord
  <2> HIDE DEF pruned, record
  <2>5. /\ lastCode' \in [CodeUsers -> CodeRecord] /\ newestCode' \in [CodeUsers -> Int]
    BY <1>1, <1>2, <2>1, <2>4 DEF CodesInv
  <2>6. ASSUME NEW u \in CodeUsers PROVE CodeOK(u)'
    <3>1. CASE u = user
      <4>1. lastCode'[u].step = step /\ newestCode'[u] = step
        BY <1>2, <2>1, <2>4, <3>1 DEF CodesInv
      <4> QED
        BY <1>1, <4>1 DEF CodeOK
    <3>2. CASE u # user
      <4>1. lastCode'[u] = pruned[u] /\ newestCode'[u] = newestCode[u]
        BY <1>2, <2>1, <3>2 DEF CodesInv
      <4> QED
        BY <1>1, <1>3, <4>1 DEF CodeOK
    <3> QED
      BY <3>1, <3>2
  <2>7. \A u \in CodeUsers : newestCode'[u] >= newestCode[u]
    BY <1>1, <2>1, <2>3 DEF CodesInv
  <2> QED
    BY <1>1, <2>5, <2>6, <2>7 DEF CodesInv
<1>5. CASE ~CodeTaken(user, step)
  <2>1. lastCode' = pruned /\ newestCode' = newestCode
    BY <1>5 DEF VerifyCode
  <2> HIDE DEF pruned
  <2>2. \A u \in CodeUsers : CodeOK(u)'
    BY <1>1, <1>3, <2>1 DEF CodeOK
  <2> QED
    BY <1>1, <1>2, <2>1, <2>2 DEF CodesInv
<1> QED
  BY <1>4, <1>5

(* The verifier never accepts a code older than one it has accepted of the *)
(* same user, for any users, periods and uses of a code (totp.go:98).      *)
THEOREM CodesOnlyForward == CodesSpec => NoOlderCode
<1>1. CodesInit => CodesInv
  BY CodesAssumption DEF CodesInit, CodesInv, CodeOK, CodeRecord, NoCode
<1>2. CodesInv /\ [CodesNext]_codesVars => CodesInv' /\ [\A u \in CodeUsers : newestCode'[u] >= newestCode[u]]_codesVars
  <2> SUFFICES ASSUME CodesInv, [CodesNext]_codesVars
               PROVE  CodesInv' /\ [\A u \in CodeUsers : newestCode'[u] >= newestCode[u]]_codesVars
    OBVIOUS
  <2>1. CASE UNCHANGED codesVars
    BY <2>1 DEF codesVars, CodesInv, CodeOK
  <2>2. CASE NextPeriod
    <3>1. /\ period \in Nat /\ period' = period + 1 /\ period' \in 0 .. MaxPeriod
          /\ lastCode' = lastCode /\ newestCode' = newestCode
      BY <2>2, CodesAssumption DEF NextPeriod, CodesInv
    <3>2. \A u \in CodeUsers : CodeOK(u)' /\ newestCode'[u] >= newestCode[u]
      BY <3>1 DEF CodesInv, CodeOK
    <3> QED
      BY <3>1, <3>2 DEF CodesInv
  <2>3. CASE \E user \in CodeUsers, step \in Steps : VerifyCode(user, step)
    BY <2>3, VerifyKeeps
  <2> QED
    BY <2>1, <2>2, <2>3 DEF CodesNext
<1> QED
  BY <1>1, <1>2, PTL DEF CodesSpec, NoOlderCode


-----------------------------------------------------------------------------
(***************************************************************************)
(* GameSessions, with the store in memory.  A login draws a token later    *)
(* than every sign-out before it, and a rotation starts from the session   *)
(* that is in the map now, not from the one the handler read.              *)
(***************************************************************************)
GameOK(session) ==
  /\ session.player \in GamePlayers
  /\ session.login \in Nat
  /\ session.login > signedOut[session.player]

InMemoryInv ==
  /\ lastToken \in Nat
  /\ signedOut \in [GamePlayers -> Nat]
  /\ \A p \in GamePlayers : signedOut[p] <= lastToken
  /\ DOMAIN requests = GameCalls
  /\ \A c \in GameCalls : requests[c].at \in {"idle", "rotate"}
  /\ \A t \in DOMAIN games : GameOK(games[t])

GameInv == remote \in BOOLEAN /\ (~remote => InMemoryInv)

(* Any part of the map, with at most one good session added, is good.      *)
LEMMA GamesKept ==
  ASSUME InMemoryInv, lastToken' \in Nat, lastToken <= lastToken', signedOut' = signedOut,
         requests' = requests \/ (\E c \in GameCalls : Answers(c))
           \/ (\E c \in GameCalls : \E r : r.at = "rotate" /\ Proceeds(c, r)),
         \A t \in DOMAIN games' : GameOK(games'[t]) \/ (t \in DOMAIN games /\ games'[t] = games[t])
  PROVE  InMemoryInv'
<1>1. \A p \in GamePlayers : signedOut'[p] <= lastToken'
  BY DEF InMemoryInv
<1>2. DOMAIN requests' = GameCalls /\ \A c \in GameCalls : requests'[c].at \in {"idle", "rotate"}
  BY DEF InMemoryInv, Answers, Proceeds, NoRequest
<1>3. \A t \in DOMAIN games' : GameOK(games[t])'
  BY DEF InMemoryInv, GameOK
<1> QED
  BY <1>1, <1>2, <1>3 DEF InMemoryInv

(* putSession in memory: a part of the map and the new session.            *)
LEMMA PutIs ==
  ASSUME ~remote, NEW token, NEW session, putSession(token, session)
  PROVE  \A t \in DOMAIN games' :
            games'[t] = session \/ (t \in DOMAIN games /\ games'[t] = games[t])
<1>1. \A t \in DOMAIN Swept(games, MaxLiveRecords) :
         t \in DOMAIN games /\ Swept(games, MaxLiveRecords)[t] = games[t]
  BY DEF Swept, Restrict
<1> QED
  BY <1>1 DEF putSession, With

(* Taking tokens away leaves a part of the map.                            *)
LEMMA WithoutIs ==
  ASSUME NEW S, games' = Without(games, S)
  PROVE  \A t \in DOMAIN games' : t \in DOMAIN games /\ t \notin S /\ games'[t] = games[t]
<1> QED
  BY DEF Without, Restrict

(* Each step keeps the invariant while the store is in memory.             *)
LEMMA InMemoryStep ==
  ASSUME InMemoryInv, ~remote, GameNext
  PROVE  InMemoryInv' /\ remote' = remote
<1>0. lastToken \in Nat
  BY DEF InMemoryInv
<1>1. ASSUME NEW player \in GamePlayers, authenticate(player) PROVE InMemoryInv' /\ remote' = remote
  <2> DEFINE session == NewSession(player, lastToken + 1)
  <2>1. /\ lastToken' = lastToken + 1 /\ requests' = requests /\ signedOut' = signedOut
        /\ putSession(lastToken + 1, session) /\ remote' = remote
    BY <1>1 DEF authenticate
  <2>2. GameOK(session)
    BY <1>0, <1>1 DEF GameOK, NewSession, InMemoryInv
  <2> HIDE DEF session
  <2>3. \A t \in DOMAIN games' : games'[t] = session \/ (t \in DOMAIN games /\ games'[t] = games[t])
    BY <2>1, PutIs
  <2>4. lastToken' \in Nat /\ lastToken <= lastToken'
    BY <1>0, <2>1
  <2>5. \A t \in DOMAIN games' : GameOK(games'[t]) \/ (t \in DOMAIN games /\ games'[t] = games[t])
    BY <2>2, <2>3
  <2> QED
    BY <2>1, <2>4, <2>5, GamesKept
<1>2. ASSUME NEW player \in GamePlayers, getProfile(player) PROVE InMemoryInv' /\ remote' = remote
  BY <1>2 DEF getProfile, InMemoryInv, GameOK
<1>3. ASSUME NEW c \in GameCalls, NEW token, refresh(c, token) PROVE InMemoryInv' /\ remote' = remote
  <2> DEFINE r == [at |-> "rotate", token |-> token, fresh |-> lastToken + 1, read |-> games[token]]
  <2>1. /\ lastToken' = lastToken + 1 /\ signedOut' = signedOut /\ games' = games
        /\ Proceeds(c, r) /\ r.at = "rotate" /\ remote' = remote
    BY <1>3 DEF refresh
  <2> HIDE DEF r
  <2>2. lastToken' \in Nat /\ lastToken <= lastToken'
    BY <1>0, <2>1
  <2> QED
    BY <2>1, <2>2, GamesKept
<1>4. ASSUME NEW c \in GameCalls, rotateSession(c) PROVE InMemoryInv' /\ remote' = remote
  <2> DEFINE token == requests[c].token
             session == NewSession(games[token].player, games[token].login)
  <2>1. /\ lastToken' = lastToken /\ signedOut' = signedOut /\ Answers(c) /\ remote' = remote
        /\ \/ /\ token \in DOMAIN games
              /\ games' = With(Without(games, {token}), requests[c].fresh, session)
           \/ games' = games
    BY <1>4 DEF rotateSession
  <2>2. CASE games' = games
    BY <1>0, <2>1, <2>2, GamesKept
  <2>3. CASE token \in DOMAIN games /\ games' = With(Without(games, {token}), requests[c].fresh, session)
    <3>1. GameOK(session)
      BY <2>3 DEF InMemoryInv, GameOK, NewSession
    <3> HIDE DEF session
    <3>2. \A t \in DOMAIN games' : games'[t] = session \/ (t \in DOMAIN games /\ games'[t] = games[t])
      BY <2>3 DEF With, Without, Restrict
    <3> QED
      BY <1>0, <2>1, <3>1, <3>2, GamesKept
  <2> QED
    BY <2>1, <2>2, <2>3
<1>5. ASSUME NEW c \in GameCalls, rotateGet(c) \/ rotatePut(c) \/ rotateRemove(c) \/ removeUser(c)
      PROVE  FALSE
  BY <1>5 DEF rotateGet, rotatePut, rotateRemove, removeUser, InMemoryInv
<1>6. ASSUME NEW token, invalidate(token) PROVE InMemoryInv' /\ remote' = remote
  <2>1. \A t \in DOMAIN games' : t \in DOMAIN games /\ games'[t] = games[t]
    BY <1>6, WithoutIs DEF invalidate, removed
  <2> QED
    BY <1>0, <1>6, <2>1, GamesKept DEF invalidate
<1>7. ASSUME NEW c \in GameCalls, NEW player \in GamePlayers, signout(c, player)
      PROVE  InMemoryInv' /\ remote' = remote
  <2>1. /\ games' = Without(games, {t \in DOMAIN games : games[t].player = player})
        /\ signedOut' = [signedOut EXCEPT ![player] = lastToken]
        /\ requests' = requests /\ lastToken' = lastToken /\ remote' = remote
    BY <1>7 DEF signout
  <2>2. \A t \in DOMAIN games' : /\ t \in DOMAIN games /\ games'[t] = games[t]
                                 /\ games[t].player # player
    BY <2>1, WithoutIs
  <2>3. \A t \in DOMAIN games' : GameOK(games[t])'
    <3> SUFFICES ASSUME NEW t \in DOMAIN games' PROVE GameOK(games[t])'
      OBVIOUS
    <3>1. games'[t] = games[t] /\ games[t].player # player /\ GameOK(games[t])
      BY <2>2 DEF InMemoryInv
    <3>2. signedOut'[games[t].player] = signedOut[games[t].player]
      BY <2>1, <3>1 DEF InMemoryInv, GameOK
    <3> QED
      BY <3>1, <3>2 DEF GameOK
  <2>4. /\ signedOut' \in [GamePlayers -> Nat]
        /\ \A p \in GamePlayers : signedOut'[p] <= lastToken'
    BY <1>0, <2>1 DEF InMemoryInv
  <2> QED
    BY <2>1, <2>3, <2>4 DEF InMemoryInv
<1>8. ASSUME NEW token, NEW server, join(token, server) PROVE InMemoryInv' /\ remote' = remote
  BY <1>8 DEF join, InMemoryInv, GameOK
<1>9. ASSUME NEW server, hasJoined(server) PROVE InMemoryInv' /\ remote' = remote
  BY <1>9 DEF hasJoined, InMemoryInv, GameOK
<1>10. ASSUME GameRestart PROVE InMemoryInv' /\ remote' = remote
  <2>1. /\ games' = <<>> /\ requests' = [c \in GameCalls |-> NoRequest]
        /\ lastToken' = lastToken /\ signedOut' = signedOut /\ remote' = remote
    BY <1>10 DEF GameRestart
  <2>2. DOMAIN games' = {}
    BY <2>1
  <2> QED
    BY <2>1, <2>2 DEF InMemoryInv, NoRequest
<1>11. ASSUME GameTick PROVE InMemoryInv' /\ remote' = remote
  BY <1>11 DEF GameTick, InMemoryInv, GameOK
<1> QED
  BY <1>1, <1>2, <1>3, <1>4, <1>5, <1>6, <1>7, <1>8, <1>9, <1>10, <1>11 DEF GameNext

(* With the store in memory a player who signed out is out, for any        *)
(* number of requests at the same time: no later session goes back to a    *)
(* login before the sign-out (store.go:101).                               *)
THEOREM SignOutStays == GameSpec => []SignOutFinal
<1>1. GameInit => GameInv
  BY DEF GameInit, GameInv, InMemoryInv, NoRequest
<1>2. GameInv /\ [GameNext]_gameVars => GameInv'
  <2> SUFFICES ASSUME GameInv, [GameNext]_gameVars PROVE GameInv'
    OBVIOUS
  <2>1. CASE UNCHANGED gameVars
    BY <2>1 DEF gameVars, GameInv, InMemoryInv, GameOK
  <2>2. CASE GameNext /\ ~remote
    BY <2>2, InMemoryStep DEF GameInv
  <2>3. CASE GameNext /\ remote
    <3>1. remote' = remote
      BY <2>3 DEF GameNext, authenticate, getProfile, refresh, rotateSession, rotateGet, rotatePut,
                  rotateRemove, signout, removeUser, invalidate, join, hasJoined, GameRestart, GameTick
    <3> QED
      BY <2>3, <3>1 DEF GameInv
  <2> QED
    BY <2>1, <2>2, <2>3 DEF GameInv
<1>3. GameInv => SignOutFinal
  BY DEF GameInv, InMemoryInv, GameOK, SignOutFinal
<1> QED
  BY <1>1, <1>2, <1>3, PTL DEF GameSpec


-----------------------------------------------------------------------------
(***************************************************************************)
(* SignIn.  A call that was let in past a counter may still add to it.     *)
(* What an open window counts and the calls that may still add to it stay  *)
(* together below the limit and the number of calls.                       *)
(***************************************************************************)
SignRecord == [pc : {"address", "account", "verify", "failed", "count"},
               address : Addresses, user : Users]

SignInTypes ==
  /\ sharedCounters \in BOOLEAN
  /\ windows \in [Keys -> [count : Nat, resetAt : Int]]
  /\ signing \in [SignCalls -> SignRecord \cup {NotSigning}]
  /\ tick \in Nat
  /\ failedOpen \in BOOLEAN

(* The calls that passed the counter of a key and have not fed it.         *)
LetIn(call, key) ==
  /\ call # NotSigning
  /\ \/ key = call.address /\ call.pc \in {"account", "verify", "failed"}
     \/ key = call.user /\ call.pc \in {"verify", "failed", "count"}
Pending(key) == {c \in SignCalls : LetIn(signing[c], key)}

Room(key) == Limit(key) - 1 + Cardinality(SignCalls)

KeyOK(key) ==
  /\ windows[key].count <= Room(key)
  /\ WindowOpen(key) => windows[key].count + Cardinality(Pending(key)) <= Room(key)

SignInInv == SignInTypes /\ (failedOpen \/ \A key \in Keys : KeyOK(key))

(* The calls are finitely many, so the pending ones are countable.         *)
LEMMA PendingCounts ==
  ASSUME NEW key
  PROVE  /\ IsFiniteSet(Pending(key)) /\ Cardinality(Pending(key)) \in Nat
         /\ Cardinality(Pending(key)) <= Cardinality(SignCalls)
         /\ Cardinality(SignCalls) \in Nat
<1>1. IsFiniteSet(SignCalls) /\ Pending(key) \subseteq SignCalls
  BY SignInAssumption DEF Pending
<1> QED
  BY <1>1, FS_Subset, FS_CardinalityType

(* The same after a step.                                                  *)
LEMMA PendingCountsNext ==
  ASSUME NEW key
  PROVE  /\ IsFiniteSet(Pending(key)') /\ Cardinality(Pending(key)') \in Nat
         /\ Cardinality(Pending(key)') <= Cardinality(SignCalls)
         /\ Cardinality(SignCalls) \in Nat
<1>1. IsFiniteSet(SignCalls) /\ Pending(key)' \subseteq SignCalls
  BY SignInAssumption DEF Pending
<1> QED
  BY <1>1, FS_Subset, FS_CardinalityType

(* What a limit and the room it leaves are.                                *)
LEMMA RoomIs ==
  ASSUME NEW key
  PROVE  /\ Limit(key) \in Nat /\ Limit(key) >= 1 /\ Room(key) \in Int
         /\ Cardinality(SignCalls) <= Room(key)
         /\ Room(key) = Limit(key) - 1 + Cardinality(SignCalls)
<1>1. Limit(key) \in Nat /\ Limit(key) >= 1
  BY SignInAssumption DEF Limit
<1>2. Cardinality(SignCalls) \in Nat
  BY SignInAssumption, FS_CardinalityType
<1> QED
  BY <1>1, <1>2 DEF Room

(* A key whose window is left alone, and past which no further call is let *)
(* in, stays in order; so does one that lets a call in below its limit.    *)
LEMMA WindowLeftAlone ==
  ASSUME SignInTypes, NEW key \in Keys, KeyOK(key),
         windows'[key] = windows[key], tick' \in Nat, tick <= tick',
         \/ Pending(key)' \subseteq Pending(key)
         \/ WindowOpen(key) => windows[key].count < Limit(key)
  PROVE  KeyOK(key)'
<1>1. windows[key].count \in Nat /\ windows[key].resetAt \in Int /\ tick \in Nat
  BY DEF SignInTypes
<1>2. Room(key)' = Room(key) /\ Limit(key) \in Nat /\ Room(key) \in Int
  BY RoomIs DEF Room, Limit
<1>3. SUFFICES ASSUME WindowOpen(key)'
               PROVE  windows[key].count + Cardinality(Pending(key)') <= Room(key)
  BY <1>2 DEF KeyOK
<1>4. WindowOpen(key)
  BY <1>1, <1>3 DEF WindowOpen
<1>5. CASE Pending(key)' \subseteq Pending(key)
  <2>1. Cardinality(Pending(key)') <= Cardinality(Pending(key))
    BY <1>5, PendingCounts, FS_Subset
  <2> QED
    BY <1>1, <1>2, <1>4, <2>1, PendingCounts, PendingCountsNext DEF KeyOK
<1>6. CASE windows[key].count < Limit(key)
  BY <1>1, <1>6, RoomIs, PendingCountsNext
<1> QED
  BY <1>4, <1>5, <1>6

(* A wrong attempt that is counted leaves the calls that may still count.  *)
LEMMA WindowCounts ==
  ASSUME SignInTypes, NEW key \in Keys, KeyOK(key), NEW c \in SignCalls,
         c \in Pending(key), Pending(key)' = Pending(key) \ {c},
         tick' = tick,
         \/ /\ WindowOpen(key)
            /\ windows'[key].count \in {windows[key].count, windows[key].count + 1}
            /\ windows'[key].resetAt = windows[key].resetAt
         \/ windows'[key].count = 1
  PROVE  KeyOK(key)'
<1>1. windows[key].count \in Nat
  BY DEF SignInTypes
<1>2. Cardinality(Pending(key)') = Cardinality(Pending(key)) - 1
  BY PendingCounts, FS_RemoveElement
<1>3. Room(key)' = Room(key) /\ Room(key) \in Int
  BY RoomIs DEF Room, Limit
<1> DEFINE n == Cardinality(Pending(key)')
           m == Cardinality(SignCalls)
           k == Cardinality(Pending(key))
<1>4. n \in Nat /\ m \in Nat /\ k \in Nat /\ n = k - 1 /\ k <= m /\ m <= Room(key)
  BY <1>2, PendingCounts, PendingCountsNext, RoomIs
<1>5. CASE windows'[key].count = 1
  BY <1>3, <1>4, <1>5 DEF KeyOK
<1>6. CASE /\ WindowOpen(key)
           /\ windows'[key].count \in {windows[key].count, windows[key].count + 1}
  BY <1>1, <1>3, <1>4, <1>6 DEF KeyOK
<1> QED
  BY <1>5, <1>6


(* One call moves: it is pending at a key as its new state says.           *)
LEMMA CallMoves ==
  ASSUME SignInTypes, NEW c \in SignCalls, NEW call, signing' = [signing EXCEPT ![c] = call], NEW key
  PROVE  Pending(key)' = IF LetIn(call, key) THEN Pending(key) \cup {c} ELSE Pending(key) \ {c}
<1>1. \A d \in SignCalls : signing'[d] = IF d = c THEN call ELSE signing[d]
  BY DEF SignInTypes
<1>2. \A d \in SignCalls : LetIn(signing[d], key)' <=> LetIn(signing'[d], key)
  BY DEF LetIn, NotSigning
<1>3. Pending(key)' = {d \in SignCalls : LetIn(signing'[d], key)}
  BY <1>2 DEF Pending
<1> QED
  BY <1>1, <1>3 DEF Pending

(* What a call that goes on becomes.                                       *)
LEMMA GoesIs ==
  ASSUME SignInTypes, NEW c \in SignCalls, signing[c] # NotSigning,
         NEW pc \in {"address", "account", "verify", "failed", "count"}, SignGoes(c, pc)
  PROVE  \E call \in SignRecord :
            /\ signing' = [signing EXCEPT ![c] = call]
            /\ call.pc = pc /\ call.address = signing[c].address /\ call.user = signing[c].user
            /\ call # NotSigning
<1> DEFINE call == [signing[c] EXCEPT !.pc = pc]
<1>1. signing[c] \in SignRecord
  BY DEF SignInTypes
<1>2. /\ call \in SignRecord /\ call.pc = pc
      /\ call.address = signing[c].address /\ call.user = signing[c].user
  BY <1>1 DEF SignRecord
<1>3. signing' = [signing EXCEPT ![c] = call]
  BY DEF SignGoes
<1>4. pc # "idle" /\ NotSigning.pc = "idle"
  BY DEF NotSigning
<1> HIDE DEF call
<1> QED
  BY <1>2, <1>3, <1>4

(* A step that feeds no counter and lets no call in past one.              *)
LEMMA QuietSignStep ==
  ASSUME SignInInv, NEW c \in SignCalls, NEW call \in SignRecord \cup {NotSigning},
         signing' = [signing EXCEPT ![c] = call],
         sharedCounters' = sharedCounters, windows' = windows, tick' = tick, failedOpen' = failedOpen,
         \A key \in Keys : LetIn(call, key) =>
            LetIn(signing[c], key) \/ (WindowOpen(key) => windows[key].count < Limit(key))
  PROVE  SignInInv'
<1>1. SignInTypes'
  BY DEF SignInInv, SignInTypes
<1>2. CASE failedOpen
  BY <1>1, <1>2 DEF SignInInv
<1>3. CASE ~failedOpen
  <2>1. ASSUME NEW key \in Keys PROVE KeyOK(key)'
    <3>1. SignInTypes /\ KeyOK(key) /\ tick \in Nat
      BY <1>3 DEF SignInInv, SignInTypes
    <3>2. Pending(key)' = IF LetIn(call, key) THEN Pending(key) \cup {c} ELSE Pending(key) \ {c}
      BY <3>1, CallMoves
    <3>3. CASE ~LetIn(call, key) \/ LetIn(signing[c], key)
      <4>1. Pending(key)' \subseteq Pending(key)
        BY <3>2, <3>3 DEF Pending
      <4> QED
        BY <3>1, <4>1, WindowLeftAlone
    <3>4. CASE WindowOpen(key) => windows[key].count < Limit(key)
      BY <3>1, <3>4, WindowLeftAlone
    <3> QED
      BY <3>3, <3>4
  <2> QED
    BY <1>1, <2>1 DEF SignInInv
<1> QED
  BY <1>2, <1>3

(* A counter that does not answer voids the bound for good.                *)
LEMMA FailsOpen ==
  ASSUME SignInInv, NEW c \in SignCalls, NEW call \in SignRecord \cup {NotSigning},
         signing' = [signing EXCEPT ![c] = call],
         sharedCounters' = sharedCounters, windows' = windows, tick' = tick, failedOpen' = TRUE
  PROVE  SignInInv'
<1> QED
  BY DEF SignInInv, SignInTypes

(* Asking a counter: the call passes only below the limit.                 *)
LEMMA AskedKeeps ==
  ASSUME SignInInv, NEW c \in SignCalls, signing[c] # NotSigning,
         \/ SignInAllowed(c, "address", signing[c].address, "account")
         \/ SignInAllowed(c, "account", signing[c].user, "verify")
  PROVE  SignInInv'
<1>1. signing[c] \in SignRecord /\ SignInTypes
  BY DEF SignInInv, SignInTypes
<1>2. /\ sharedCounters' = sharedCounters /\ windows' = windows /\ tick' = tick
  BY DEF SignInAllowed
<1>3. PICK key, pc, then :
        /\ SignInAllowed(c, pc, key, then)
        /\ \/ pc = "address" /\ key = signing[c].address /\ then = "account"
           \/ pc = "account" /\ key = signing[c].user /\ then = "verify"
  OBVIOUS
<1>4. CASE Blocked(key) /\ SignEnds(c) /\ failedOpen' = failedOpen
  <2>1. \A k : ~LetIn(NotSigning, k)
    BY DEF LetIn
  <2> QED
    BY <1>2, <1>4, <2>1, QuietSignStep DEF SignEnds
<1>5. CASE /\ SignGoes(c, then)
           /\ failedOpen' = TRUE \/ (~Blocked(key) /\ failedOpen' = failedOpen)
  <2>1. PICK call \in SignRecord :
            /\ signing' = [signing EXCEPT ![c] = call]
            /\ call.pc = then /\ call.address = signing[c].address /\ call.user = signing[c].user
            /\ call # NotSigning
    BY <1>1, <1>3, <1>5, GoesIs
  <2>2. CASE failedOpen' = TRUE
    BY <1>2, <2>1, <2>2, FailsOpen
  <2>3. CASE ~Blocked(key) /\ failedOpen' = failedOpen
    <3>1. key \in Keys /\ (WindowOpen(key) => windows[key].count < Limit(key))
      <4>1. key \in Keys
        BY <1>1, <1>3 DEF SignRecord, Keys
      <4>2. windows[key].count \in Nat /\ Limit(key) \in Nat
        BY <1>1, <4>1, RoomIs DEF SignInTypes
      <4> QED
        BY <2>3, <4>1, <4>2 DEF Blocked
    <3>2. \A k \in Keys : LetIn(call, k) => k = key \/ LetIn(signing[c], k)
      BY <1>3, <2>1 DEF LetIn, SignInAllowed
    <3> QED
      BY <1>2, <2>1, <2>3, <3>1, <3>2, QuietSignStep
  <2> QED
    BY <1>5, <2>2, <2>3
<1> QED
  BY <1>3, <1>4, <1>5 DEF SignInAllowed

(* Feeding a counter: the call that does is no longer pending there.       *)
LEMMA FedKeeps ==
  ASSUME SignInInv, NEW c \in SignCalls, signing[c] # NotSigning,
         \/ SignInFailed(c, "failed", signing[c].address, "count")
         \/ SignInFailed(c, "count", signing[c].user, "idle")
  PROVE  SignInInv'
<1>1. signing[c] \in SignRecord /\ SignInTypes
  BY DEF SignInInv, SignInTypes
<1>2. /\ sharedCounters' = sharedCounters /\ tick' = tick /\ failedOpen' = failedOpen
  BY DEF SignInFailed
<1>3. PICK key, pc, then :
        /\ SignInFailed(c, pc, key, then)
        /\ \/ pc = "failed" /\ key = signing[c].address /\ then = "count"
           \/ pc = "count" /\ key = signing[c].user /\ then = "idle"
  OBVIOUS
<1>4. key \in Keys /\ signing[c].pc = pc
  BY <1>1, <1>3 DEF SignRecord, Keys, SignInFailed
<1>5. signing[c].address # signing[c].user
  BY <1>1, SignInAssumption DEF SignRecord
<1>6. PICK call \in SignRecord \cup {NotSigning} :
        /\ signing' = [signing EXCEPT ![c] = call]
        /\ ~LetIn(call, key)
        /\ \A k \in Keys : LetIn(call, k) => LetIn(signing[c], k)
        /\ \A k \in Keys : k # key => (LetIn(signing[c], k) => LetIn(call, k))
  <2>1. CASE pc = "failed"
    <3>1. PICK call \in SignRecord :
            /\ signing' = [signing EXCEPT ![c] = call]
            /\ call.pc = "count" /\ call.address = signing[c].address /\ call.user = signing[c].user
            /\ call # NotSigning
      <4>1. then = "count" /\ SignGoes(c, "count")
        BY <1>3, <2>1 DEF SignInFailed
      <4> QED
        BY <1>1, <4>1, GoesIs
    <3> QED
      BY <1>3, <1>4, <1>5, <2>1, <3>1 DEF LetIn
  <2>2. CASE pc = "count"
    <3>1. signing' = [signing EXCEPT ![c] = NotSigning]
      BY <1>3, <2>2 DEF SignInFailed, SignEnds
    <3> QED
      BY <1>3, <1>4, <2>2, <3>1 DEF LetIn
  <2> QED
    BY <1>3, <2>1, <2>2
<1>7. LetIn(signing[c], key)
  BY <1>3, <1>4 DEF LetIn
<1>8. CASE windows' = windows
  BY <1>2, <1>6, <1>8, QuietSignStep
<1>9. CASE Allow(key) \/ AllowImmortal(key)
  <2>1. PICK w \in [count : Nat, resetAt : Int] :
           /\ windows' = [windows EXCEPT ![key] = w]
           /\ \/ /\ WindowOpen(key) /\ w.count \in {windows[key].count, windows[key].count + 1}
                 /\ w.resetAt = windows[key].resetAt
              \/ w.count = 1
    <3>1. /\ windows[key] \in [count : Nat, resetAt : Int] /\ tick \in Nat
          /\ WindowLength \in Nat /\ MaxTick \in Nat /\ MaxCount \in Nat
      BY <1>1, <1>4, SignInAssumption DEF SignInTypes
    <3>2. CASE Allow(key) /\ WindowOpen(key)
      <4> DEFINE w == Counted(windows[key])
      <4>1. /\ w \in [count : Nat, resetAt : Int]
            /\ w.count \in {windows[key].count, windows[key].count + 1}
            /\ w.resetAt = windows[key].resetAt
        BY <3>1 DEF Counted
      <4> DEFINE v == [count |-> 1, resetAt |-> tick + WindowLength]
      <4>3. windows' = [windows EXCEPT ![key] = IF WindowOpen(key) THEN w ELSE v]
        BY <3>2 DEF Allow
      <4> HIDE DEF w, v
      <4>2. windows' = [windows EXCEPT ![key] = w]
        BY <3>2, <4>3
      <4> QED
        BY <3>2, <4>1, <4>2
    <3>3. CASE Allow(key) /\ ~WindowOpen(key)
      <4> DEFINE w == [count |-> 1, resetAt |-> tick + WindowLength]
      <4>1. w \in [count : Nat, resetAt : Int] /\ w.count = 1
        BY <3>1
      <4>2. windows' = [windows EXCEPT ![key] = w]
        BY <3>3 DEF Allow
      <4> HIDE DEF w
      <4> QED
        BY <4>1, <4>2
    <3>4. CASE AllowImmortal(key)
      <4> DEFINE w == [count |-> 1, resetAt |-> Never]
      <4>1. w \in [count : Nat, resetAt : Int] /\ w.count = 1
        BY <3>1 DEF Never
      <4>2. windows' = [windows EXCEPT ![key] = w]
        BY <3>4 DEF AllowImmortal
      <4> HIDE DEF w
      <4> QED
        BY <4>1, <4>2
    <3> QED
      BY <1>9, <3>2, <3>3, <3>4
  <2>2. SignInTypes'
    BY <1>1, <1>2, <1>6, <2>1 DEF SignInTypes
  <2>3. ASSUME ~failedOpen, NEW k \in Keys PROVE KeyOK(k)'
    <3>1. KeyOK(k) /\ tick \in Nat
      BY <2>3, <1>1 DEF SignInInv, SignInTypes
    <3>2. Pending(k)' = IF LetIn(call, k) THEN Pending(k) \cup {c} ELSE Pending(k) \ {c}
      BY <1>1, <1>6, CallMoves
    <3>3. CASE k = key
      <4>1. windows'[k] = w
        BY <1>1, <1>4, <2>1, <3>3 DEF SignInTypes
      <4>2. c \in Pending(k) /\ Pending(k)' = Pending(k) \ {c}
        BY <1>6, <1>7, <3>2, <3>3 DEF Pending
      <4> QED
        BY <1>1, <1>2, <2>1, <3>1, <3>3, <4>1, <4>2, WindowCounts
    <3>4. CASE k # key
      <4>1. windows'[k] = windows[k]
        BY <1>1, <2>1, <3>4 DEF SignInTypes
      <4>2. Pending(k)' \subseteq Pending(k)
        BY <1>6, <3>2 DEF Pending
      <4> QED
        BY <1>1, <1>2, <3>1, <4>1, <4>2, WindowLeftAlone
    <3> QED
      BY <3>3, <3>4
  <2> QED
    BY <1>2, <2>2, <2>3 DEF SignInInv
<1> QED
  BY <1>3, <1>8, <1>9 DEF SignInFailed


(* However many sign-ins run at once and whatever the limits are, a window *)
(* counts fewer wrong attempts than its limit and the calls together,      *)
(* unless a counter failed to answer (guard.go:101).                       *)
THEOREM GuessesStayBounded == SignInSpec => []GuessesBounded
<1>1. SignInInit => SignInInv
  <2> SUFFICES ASSUME SignInInit PROVE SignInInv
    OBVIOUS
  <2>1. SignInTypes
    <3>1. NoWindow \in [count : Nat, resetAt : Int]
      BY DEF NoWindow
    <3> QED
      BY <3>1 DEF SignInInit, SignInTypes
  <2>2. ASSUME NEW key \in Keys PROVE KeyOK(key)
    <3>1. windows[key] = NoWindow /\ windows[key].count = 0
      BY <2>2 DEF SignInInit, NoWindow
    <3> QED
      BY <3>1, RoomIs, PendingCounts DEF KeyOK, WindowOpen
  <2> QED
    BY <2>1, <2>2 DEF SignInInv
<1>2. SignInInv /\ [SignInNext]_signInVars => SignInInv'
  <2> SUFFICES ASSUME SignInInv, [SignInNext]_signInVars PROVE SignInInv'
    OBVIOUS
  <2>0. SignInTypes
    BY DEF SignInInv
  <2>1. CASE UNCHANGED signInVars
    BY <2>1 DEF signInVars, SignInInv, SignInTypes, KeyOK, Pending, LetIn, WindowOpen, Room, Limit
  <2>2. ASSUME NEW c \in SignCalls, NEW address \in Addresses, NEW user \in Users, SignStart(c, address, user)
        PROVE  SignInInv'
    <3> DEFINE call == [pc |-> "address", address |-> address, user |-> user]
    <3>1. call \in SignRecord /\ \A k : ~LetIn(call, k)
      BY DEF SignRecord, LetIn
    <3>2. /\ signing' = [signing EXCEPT ![c] = call]
          /\ sharedCounters' = sharedCounters /\ windows' = windows /\ tick' = tick /\ failedOpen' = failedOpen
      BY <2>2 DEF SignStart
    <3> HIDE DEF call
    <3> QED
      BY <3>1, <3>2, QuietSignStep
  <2>3. ASSUME NEW c \in SignCalls, WrongGuess(c) PROVE SignInInv'
    <3>1. /\ signing[c].pc = "verify" /\ SignGoes(c, "failed") /\ signing[c] # NotSigning
          /\ sharedCounters' = sharedCounters /\ windows' = windows /\ tick' = tick /\ failedOpen' = failedOpen
      BY <2>3 DEF WrongGuess, NotSigning
    <3>2. PICK call \in SignRecord :
            /\ signing' = [signing EXCEPT ![c] = call]
            /\ call.pc = "failed" /\ call.address = signing[c].address /\ call.user = signing[c].user
            /\ call # NotSigning
      BY <2>0, <3>1, GoesIs
    <3>3. \A k \in Keys : LetIn(call, k) => LetIn(signing[c], k)
      BY <3>1, <3>2 DEF LetIn
    <3> QED
      BY <3>1, <3>2, <3>3, QuietSignStep
  <2>4. ASSUME NEW c \in SignCalls, RightGuess(c) PROVE SignInInv'
    <3>1. \A k : ~LetIn(NotSigning, k)
      BY DEF LetIn
    <3> QED
      BY <2>4, <3>1, QuietSignStep DEF RightGuess, SignEnds
  <2>5. CASE SignTick
    <3>1. /\ tick' \in Nat /\ tick <= tick' /\ signing' = signing /\ windows' = windows
          /\ sharedCounters' = sharedCounters /\ failedOpen' = failedOpen
      BY <2>0, <2>5 DEF SignTick, SignInTypes
    <3>2. \A key : Pending(key)' = Pending(key)
      BY <3>1 DEF Pending, LetIn
    <3>3. ASSUME NEW key \in Keys, KeyOK(key) PROVE KeyOK(key)'
      BY <2>0, <3>1, <3>2, <3>3, WindowLeftAlone
    <3> QED
      BY <3>1, <3>3 DEF SignInInv, SignInTypes
  <2> QED
    BY <2>1, <2>2, <2>3, <2>4, <2>5, AskedKeeps, FedKeeps DEF SignInNext
<1>3. SignInInv => GuessesBounded
  <2> SUFFICES ASSUME SignInInv, ~failedOpen, NEW key \in Keys
               PROVE  windows[key].count < Limit(key) + Cardinality(SignCalls)
    BY DEF GuessesBounded
  <2>1. windows[key].count \in Nat /\ windows[key].count <= Room(key)
    BY DEF SignInInv, SignInTypes, KeyOK
  <2> QED
    BY <2>1, RoomIs, PendingCounts
<1> QED
  BY <1>1, <1>2, <1>3, PTL DEF SignInSpec

-----------------------------------------------------------------------------
(***************************************************************************)
(* Crash reports.  What was let through in the last hour is still on the   *)
(* sender's list: a list that is forgotten has nothing of the last hour    *)
(* left, and of the others only older reports go.                          *)
(***************************************************************************)
Report == [no : Nat, at : Nat]

InHour(s, t) == {r \in admitted[s] : r.at \in (t - Hour + 1) .. t}

ListOK(s) ==
  /\ IsFiniteSet(admitted[s])
  /\ \A r \in admitted[s] : r.at <= crashClock
  /\ s \in DOMAIN recent => recent[s] \subseteq admitted[s]
  /\ \A r \in admitted[s] : r.at > crashClock - Hour => s \in DOMAIN recent /\ r \in recent[s]

CrashInv ==
  /\ crashClock \in Nat /\ reports \in Nat
  /\ admitted \in [Senders -> SUBSET Report]
  /\ DOMAIN recent \subseteq Senders
  /\ \A s \in Senders : ListOK(s)
  /\ HourlyBound

(* The hour and the limits are positive numbers.                           *)
LEMMA HourAndLimit == Hour \in Nat \ {0} /\ \A s : hourLimit(s) \in Nat \ {0}
BY CrashAssumption DEF hourLimit

(* keptMoments are the reports of the sender let through in the last hour. *)
LEMMA KeptIs ==
  ASSUME CrashInv, NEW s \in Senders
  PROVE  keptMoments(s) = InHour(s, crashClock)
<1>1. crashClock \in Nat /\ Hour \in Nat /\ admitted[s] \subseteq Report /\ ListOK(s)
  BY HourAndLimit DEF CrashInv
<1>2. \A r \in admitted[s] : r.at \in Nat
  BY <1>1 DEF Report
<1> QED
  BY <1>1, <1>2 DEF keptMoments, InHour, ListOK

(* There are finitely many reports in an hour.                             *)
LEMMA HourIsFinite ==
  ASSUME CrashInv, NEW s \in Senders, NEW t
  PROVE  /\ IsFiniteSet(InHour(s, t)) /\ Cardinality(InHour(s, t)) \in Nat
<1>1. IsFiniteSet(admitted[s]) /\ InHour(s, t) \subseteq admitted[s]
  BY DEF CrashInv, ListOK, InHour
<1> QED
  BY <1>1, FS_Subset, FS_CardinalityType

(* The sweep takes nothing of the last hour from anybody.                  *)
LEMMA SweepKeeps ==
  ASSUME CrashInv, NEW sender \in Senders
  PROVE  /\ DOMAIN afterSweep(sender) \subseteq DOMAIN recent
         /\ \A s \in DOMAIN afterSweep(sender) : afterSweep(sender)[s] \subseteq recent[s]
         /\ \A s \in Senders : \A r \in admitted[s] :
              r.at > crashClock - Hour => /\ s \in DOMAIN afterSweep(sender)
                                          /\ r \in afterSweep(sender)[s]
<1> DEFINE own == keptMoments(sender)
           map == IF own = {} THEN Restrict(recent, DOMAIN recent \ {sender})
                  ELSE [recent EXCEPT ![sender] = own]
           staying == {s \in DOMAIN map : \E r \in map[s] : r.at >= crashClock - Hour}
<1>1. own = {} => DOMAIN map = DOMAIN recent \ {sender} /\ \A s \in DOMAIN map : map[s] = recent[s]
  BY DEF Restrict
<1>2. own # {} => /\ DOMAIN map = DOMAIN recent /\ sender \in DOMAIN recent /\ map[sender] = own
                  /\ \A s \in DOMAIN map : s # sender => map[s] = recent[s]
  BY DEF keptMoments
<1>3. sender \in DOMAIN recent => own = {r \in recent[sender] : r.at > crashClock - Hour}
  BY DEF keptMoments
<1>4. /\ DOMAIN map \subseteq DOMAIN recent
      /\ \A s \in DOMAIN map : map[s] \subseteq recent[s]
  BY <1>1, <1>2, <1>3
<1>5. ASSUME NEW s \in Senders, NEW r \in admitted[s], r.at > crashClock - Hour
      PROVE  s \in DOMAIN map /\ r \in map[s]
  <2>1. s \in DOMAIN recent /\ r \in recent[s]
    BY <1>5 DEF CrashInv, ListOK
  <2>2. CASE s = sender
    BY <1>2, <1>3, <1>5, <2>1, <2>2
  <2>3. CASE s # sender
    BY <1>1, <1>2, <2>1, <2>3
  <2> QED
    BY <2>2, <2>3
<1>6. /\ afterSweep(sender) = Restrict(map, staying)
  BY DEF afterSweep, forgetStale
<1>7. /\ DOMAIN afterSweep(sender) = staying
      /\ \A s \in staying : afterSweep(sender)[s] = map[s]
  <2> HIDE DEF map, staying
  <2> QED
    BY <1>6 DEF Restrict
<1>8. \A s \in Senders : \A r \in admitted[s] : r.at > crashClock - Hour => s \in staying
  <2> SUFFICES ASSUME NEW s \in Senders, NEW r \in admitted[s], r.at > crashClock - Hour PROVE s \in staying
    OBVIOUS
  <2>1. r.at \in Nat /\ crashClock - Hour \in Int
    BY HourAndLimit DEF CrashInv, Report
  <2>2. r.at >= crashClock - Hour
    BY <2>1
  <2>3. s \in DOMAIN map /\ r \in map[s]
    BY <1>5
  <2> HIDE DEF map
  <2> QED
    BY <2>2, <2>3
<1>9. staying \subseteq DOMAIN map
  OBVIOUS
<1> HIDE DEF map, staying
<1> QED
  BY <1>4, <1>5, <1>7, <1>8, <1>9

(* A report is let through or not.                                         *)
LEMMA ReceiveKeeps ==
  ASSUME CrashInv, NEW c \in CrashCalls, NEW sender \in Senders, NEW kind, Receive(c, sender, kind)
  PROVE  CrashInv'
<1> DEFINE report == Stamped(reports, crashClock)
           swept == afterSweep(sender)
<1>0. /\ crashClock \in Nat /\ reports \in Nat /\ Hour \in Nat \ {0} /\ crashClock' = crashClock
      /\ reports' = reports + 1 /\ admitted \in [Senders -> SUBSET Report] /\ \A s \in Senders : ListOK(s)
      /\ report \in Report /\ report.at = crashClock
  BY HourAndLimit DEF CrashInv, Receive, Report, Stamped
<1>1. /\ DOMAIN swept \subseteq DOMAIN recent
      /\ \A s \in DOMAIN swept : swept[s] \subseteq recent[s]
      /\ \A s \in Senders : \A r \in admitted[s] :
           r.at > crashClock - Hour => s \in DOMAIN swept /\ r \in swept[s]
  BY SweepKeeps
<1>2. CASE hourFull(sender)
  <2>1. recent' = swept /\ admitted' = admitted
    BY <1>2 DEF Receive, allow
  <2> HIDE DEF swept
  <2>2. \A s \in Senders : ListOK(s)'
    BY <1>0, <1>1, <2>1 DEF ListOK
  <2>3. DOMAIN recent' \subseteq Senders
    BY <1>1, <2>1 DEF CrashInv
  <2>4. HourlyBound'
    BY <1>0, <2>1 DEF CrashInv, HourlyBound, hourLimit
  <2> QED
    BY <1>0, <2>1, <2>2, <2>3, <2>4 DEF CrashInv
<1>3. CASE ~hourFull(sender)
  <2>1. /\ admitted' = [admitted EXCEPT ![sender] = @ \union {report}]
        /\ recent' = [s \in DOMAIN swept \union {sender} |->
                        IF s = sender THEN keptMoments(s) \union {report} ELSE swept[s]]
    BY <1>3 DEF Receive, allow
  <2>2. /\ keptMoments(sender) = InHour(sender, crashClock)
        /\ IsFiniteSet(InHour(sender, crashClock)) /\ Cardinality(InHour(sender, crashClock)) \in Nat
        /\ Cardinality(InHour(sender, crashClock)) < hourLimit(sender)
        /\ hourLimit(sender) \in Nat
    BY <1>0, <1>3, KeptIs, HourIsFinite, HourAndLimit DEF hourFull
  <2> HIDE DEF swept, report
  <2>3. /\ admitted' \in [Senders -> SUBSET Report]
        /\ admitted'[sender] = admitted[sender] \union {report}
        /\ \A s \in Senders : s # sender => admitted'[s] = admitted[s]
    BY <1>0, <2>1
  <2>4. /\ DOMAIN recent' = DOMAIN swept \union {sender}
        /\ recent'[sender] = InHour(sender, crashClock) \union {report}
        /\ \A s \in DOMAIN swept : s # sender => recent'[s] = swept[s]
    BY <2>1, <2>2
  <2>5. ASSUME NEW s \in Senders PROVE ListOK(s)'
    <3>1. CASE s = sender
      <4>1. ListOK(sender) /\ admitted[sender] \subseteq Report
        BY <1>0
      <4>2. IsFiniteSet(admitted'[s]) /\ \A r \in admitted'[s] : r.at <= crashClock
        BY <1>0, <2>3, <3>1, <4>1, FS_AddElement DEF ListOK
      <4>3. s \in DOMAIN recent' /\ recent'[s] \subseteq admitted'[s]
        BY <2>3, <2>4, <3>1 DEF InHour
      <4>4. ASSUME NEW r \in admitted'[s], r.at > crashClock - Hour PROVE r \in recent'[s]
        <5>1. CASE r = report
          BY <2>4, <3>1, <5>1
        <5>2. CASE r \in admitted[sender]
          <6>1. r.at \in Nat /\ r.at <= crashClock
            BY <4>1, <5>2 DEF Report, ListOK
          <6>2. r.at \in (crashClock - Hour + 1) .. crashClock
            BY <1>0, <4>4, <6>1
          <6> QED
            BY <2>4, <3>1, <5>2, <6>2 DEF InHour
        <5> QED
          BY <2>3, <3>1, <5>1, <5>2
      <4> QED
        BY <1>0, <4>2, <4>3, <4>4 DEF ListOK
    <3>2. CASE s # sender
      BY <1>0, <1>1, <2>3, <2>4, <3>2 DEF ListOK
    <3> QED
      BY <3>1, <3>2
  <2>6. ASSUME NEW s \in Senders, NEW t \in 0 .. crashClock
        PROVE  Cardinality(InHour(s, t)') <= hourLimit(s)
    <3>0. Cardinality(InHour(s, t)) <= hourLimit(s)
      BY DEF CrashInv, HourlyBound, InHour
    <3>1. CASE s # sender
      BY <1>0, <2>3, <3>0, <3>1 DEF InHour
    <3>2. CASE s = sender /\ t # crashClock
      <4>1. report.at \notin (t - Hour + 1) .. t
        BY <1>0, <3>2
      <4> QED
        BY <1>0, <2>3, <3>0, <3>2, <4>1 DEF InHour
    <3>3. CASE s = sender /\ t = crashClock
      <4>1. InHour(s, t)' = InHour(sender, crashClock) \union {report}
        <5>1. report.at \in (crashClock - Hour + 1) .. crashClock
          BY <1>0
        <5> QED
          BY <1>0, <2>3, <3>3, <5>1 DEF InHour
      <4>2. Cardinality(InHour(s, t)') <= Cardinality(InHour(sender, crashClock)) + 1
        BY <2>2, <4>1, FS_AddElement
      <4>3. Cardinality(InHour(s, t)') \in Nat
        BY <2>2, <4>1, FS_AddElement, FS_CardinalityType
      <4> QED
        BY <2>2, <3>3, <4>2, <4>3
    <3> QED
      BY <3>1, <3>2, <3>3
  <2>7. HourlyBound'
    BY <1>0, <2>6 DEF HourlyBound, InHour, hourLimit
  <2>8. DOMAIN recent' \subseteq Senders
    BY <1>1, <2>4 DEF CrashInv
  <2> QED
    BY <1>0, <2>3, <2>5, <2>7, <2>8 DEF CrashInv
<1> QED
  BY <1>2, <1>3

(* Time passes: reports leave the hour and none enters it.                 *)
LEMMA CrashTickKeeps ==
  ASSUME CrashInv, CrashTick
  PROVE  CrashInv'
<1>0. /\ crashClock \in Nat /\ reports \in Nat /\ Hour \in Nat \ {0} /\ crashClock' = crashClock + 1
      /\ reports' = reports /\ admitted' = admitted /\ recent' = recent
      /\ admitted \in [Senders -> SUBSET Report] /\ \A s \in Senders : ListOK(s)
  BY HourAndLimit DEF CrashInv, CrashTick
<1>1. \A s \in Senders : \A r \in admitted[s] : r.at \in Nat /\ r.at <= crashClock
  BY <1>0 DEF ListOK, Report
<1>2. \A s \in Senders : ListOK(s)'
  BY <1>0, <1>1 DEF ListOK
<1>3. ASSUME NEW s \in Senders, NEW t \in 0 .. crashClock'
      PROVE  Cardinality(InHour(s, t)') <= hourLimit(s)
  <2>1. InHour(s, t)' = InHour(s, t)
    BY <1>0 DEF InHour
  <2>2. CASE t \in 0 .. crashClock
    BY <2>1, <2>2 DEF CrashInv, HourlyBound, InHour
  <2>3. CASE t = crashClock + 1
    <3>1. InHour(s, t) \subseteq InHour(s, crashClock)
      BY <1>0, <1>1, <2>3 DEF InHour
    <3>2. Cardinality(InHour(s, t)) <= Cardinality(InHour(s, crashClock))
      BY <3>1, HourIsFinite, FS_Subset
    <3>3. Cardinality(InHour(s, crashClock)) <= hourLimit(s)
      BY <1>0 DEF CrashInv, HourlyBound, InHour
    <3>4. /\ Cardinality(InHour(s, t)) \in Nat /\ Cardinality(InHour(s, crashClock)) \in Nat
          /\ hourLimit(s) \in Nat
      BY HourIsFinite, HourAndLimit
    <3> QED
      BY <2>1, <3>2, <3>3, <3>4
  <2> QED
    BY <1>0, <2>2, <2>3
<1>4. HourlyBound'
  BY <1>0, <1>3 DEF HourlyBound, InHour, hourLimit
<1> QED
  BY <1>0, <1>2, <1>4 DEF CrashInv

(* In no hour are more reports of one sender let through than its limit,   *)
(* however reports interleave, whatever the limits are and whichever lists *)
(* are forgotten meanwhile (crash/service.go:128).                         *)
THEOREM ReportsStayBounded == CrashSpec => []HourlyBound
<1>1. CrashInit => CrashInv
  <2> SUFFICES ASSUME CrashInit PROVE CrashInv
    OBVIOUS
  <2>1. /\ admitted \in [Senders -> SUBSET Report] /\ DOMAIN recent = {} /\ crashClock = 0 /\ reports = 0
        /\ \A s \in Senders : admitted[s] = {}
    BY DEF CrashInit
  <2>2. \A s \in Senders : ListOK(s)
    BY <2>1, FS_EmptySet DEF ListOK
  <2>3. HourlyBound
    <3> SUFFICES ASSUME NEW s \in Senders, NEW t \in 0 .. crashClock
                 PROVE  Cardinality({r \in admitted[s] : r.at \in (t - Hour + 1)..t}) <= hourLimit(s)
      BY DEF HourlyBound
    <3>1. {r \in admitted[s] : r.at \in (t - Hour + 1)..t} = {}
      BY <2>1
    <3> QED
      BY <3>1, FS_EmptySet, HourAndLimit
  <2> QED
    BY <2>1, <2>2, <2>3 DEF CrashInv
<1>2. CrashInv /\ [CrashNext]_crashVars => CrashInv'
  <2> SUFFICES ASSUME CrashInv, [CrashNext]_crashVars PROVE CrashInv'
    OBVIOUS
  <2>1. ASSUME UNCHANGED <<recent, admitted, crashClock>>, reports' = reports
        PROVE  CrashInv'
    BY <2>1 DEF CrashInv, ListOK, HourlyBound, hourLimit
  <2>2. CASE UNCHANGED crashVars
    BY <2>1, <2>2 DEF crashVars
  <2>3. ASSUME NEW c \in CrashCalls, NEW works \in BOOLEAN, SendFile(c, works) PROVE CrashInv'
    BY <2>1, <2>3 DEF SendFile
  <2>4. ASSUME NEW c \in CrashCalls, NEW refusals \in 0 .. RemoteSinks, SendRest(c, refusals) PROVE CrashInv'
    BY <2>1, <2>4 DEF SendRest
  <2> QED
    BY <2>2, <2>3, <2>4, ReceiveKeeps, CrashTickKeeps DEF CrashNext
<1>3. CrashInv => HourlyBound
  BY DEF CrashInv
<1> QED
  BY <1>1, <1>2, <1>3, PTL DEF CrashSpec

(* Both limits hold together, for every number of calls, every clock and   *)
(* all limits (ratelimit, auth/guard.go, crash/service.go).                *)
THEOREM LimitsAlwaysHold == LimitsSpec => []LimitsHold
<1>1. LimitsInit => SignInInit /\ CrashInit
  BY DEF LimitsInit
<1>2. [LimitsNext]_<<signInVars, crashVars>> => [SignInNext]_signInVars /\ [CrashNext]_crashVars
  BY DEF LimitsNext
<1>3. LimitsSpec => SignInSpec /\ CrashSpec
  BY <1>1, <1>2, PTL DEF LimitsSpec, SignInSpec, CrashSpec
<1> QED
  BY <1>3, GuessesStayBounded, ReportsStayBounded, PTL DEF LimitsHold

=============================================================================
