---------------------------- MODULE ServerProofs ----------------------------
(***************************************************************************)
(* What holds of running the server whatever the number of clients,        *)
(* processes, tokens and versions: who is shut out stays out               *)
(* (ControlAccess), an update leaves players and the server with a working *)
(* program (LauncherRelease), the process that serves can be reached       *)
(* (Lifecycle), what stands under its final name is whole (ServerFiles,    *)
(* over Uploads and Backup), what the administrator confirms on the        *)
(* terminal is what was shown (Console), and a secret stays with the       *)
(* adapter it was typed for (Settings).                                    *)
(***************************************************************************)
EXTENDS ControlAccess, LauncherRelease, Lifecycle, ServerFiles, Console, Settings,
        FiniteSetTheorems, SequenceTheorems, WellFoundedInduction, TLAPS

----------------------------------------------------------------------------
(* ControlAccess. *)

(* The tokens of a file, or of one about to be written: one for each id,   *)
(* and none that is still good has been revoked.                           *)
TokensOK(S) ==
    /\ \A t \in S : /\ t \in [id : given, until : Nat, revoked : BOOLEAN]
                    /\ ~t.revoked => dead[t.id] > MaxControlClock
    /\ \A t, u \in S : t.id = u.id => t = u

(* A request is looked at within an interval, and within an interval of    *)
(* the revocation of its token.                                            *)
RequestOK(q) ==
    /\ q.token \in TokenIds /\ q.look \in Nat
    /\ clock <= q.look /\ q.look <= clock + RecheckInterval
    /\ q.look <= dead[q.token] + RecheckInterval

TokenInv ==
    /\ clock \in Nat /\ clock <= MaxControlClock
    /\ dead \in [TokenIds -> Nat] /\ given \subseteq TokenIds
    /\ \A id \in TokenIds \ given : dead[id] > MaxControlClock
    /\ TokensOK(tokenFile)
    /\ creating # NoCreate => TokensOK(creating.tokens)
    /\ requests = [r \in Requests |-> requests[r]]
    /\ \A r \in Requests : requests[r] = NoRequest \/ RequestOK(requests[r])

WebInv ==
    /\ forgotten \subseteq minted
    /\ \A e \in consoles \union stateFile : e.secret \in minted \ forgotten

(* The bounds of ControlAccess are numbers.                                *)
LEMMA ControlBounds == /\ MaxControlClock \in Nat /\ RecheckInterval \in Nat
                       /\ TokenTTL \in Nat
BY ControlAssumption

(* Both parts of the inductive invariant hold at the beginning.            *)
LEMMA ControlStarts == ControlInit => TokenInv /\ WebInv
<1> SUFFICES ASSUME ControlInit PROVE TokenInv /\ WebInv
  OBVIOUS
<1>1. WebInv
  BY DEF ControlInit, WebInv
<1>2. TokensOK(tokenFile)
  BY DEF ControlInit, TokensOK
<1>3. dead \in [TokenIds -> Nat] /\ \A id \in TokenIds : dead[id] > MaxControlClock
  BY ControlBounds DEF ControlInit
<1>4. QED
  BY <1>1, <1>2, <1>3, ControlBounds DEF ControlInit, TokenInv

(* The steps of the web console leave the tokens alone.                    *)
LEMMA TokensAlone ==
    ASSUME TokenInv, UNCHANGED <<tokenVars, clock>> PROVE TokenInv'
BY DEF TokenInv, tokenVars, TokensOK, RequestOK

(* A token file that grows by a token never given before stays good, and   *)
(* so does everything that was good before.                                *)
LEMMA NewTokenOK ==
    ASSUME TokenInv, NEW id \in TokenIds, id \notin given, given' = given \union {id},
           dead' = dead, NEW S, TokensOK(S), NEW n, n = newToken(id)
    PROVE  TokensOK(S)' /\ TokensOK(S \union {n})' /\ TokensOK({n})'
<1>1. n \in [id : given', until : Nat, revoked : BOOLEAN] /\ n.id = id /\ ~n.revoked
  BY ControlBounds DEF newToken, TokenInv
<1>2. dead[id] > MaxControlClock
  BY DEF TokenInv
<1>3. \A t \in S : t \in [id : given', until : Nat, revoked : BOOLEAN] /\ t.id # id
  BY DEF TokensOK
<1>4. QED
  BY <1>1, <1>2, <1>3 DEF TokensOK

(* Handing out a token, either way, keeps the token part.                  *)
LEMMA CreatesKeepTokens ==
    ASSUME TokenInv, NEW id \in TokenIds, CreateLoad(id) \/ Bootstrap(id) PROVE TokenInv'
<1> PICK n : n = newToken(id)
  OBVIOUS
<1> id \notin given /\ given' = given \union {id} /\ dead' = dead /\ requests' = requests /\ clock' = clock
  BY DEF CreateLoad, Bootstrap
<1> PICK F : F = tokenFile
  OBVIOUS
<1>1. TokensOK(F)' /\ TokensOK(F \union {n})' /\ TokensOK({n})'
  BY NewTokenOK DEF TokenInv
<1>2. TokensOK(tokenFile)'
  BY <1>1 DEF CreateLoad, Bootstrap, TokensOK
<1>3. (creating # NoCreate => TokensOK(creating.tokens))'
  <2>1. CASE CreateLoad(id)
    BY <1>1, <2>1 DEF CreateLoad, TokensOK
  <2>2. CASE Bootstrap(id) /\ creating # NoCreate
    <3> PICK C : C = creating.tokens
      OBVIOUS
    <3>1. TokensOK(C)'
      BY <2>2, NewTokenOK DEF TokenInv
    <3>2. QED
      BY <2>2, <3>1 DEF Bootstrap, TokensOK
  <2>3. CASE Bootstrap(id) /\ creating = NoCreate
    BY <2>3 DEF Bootstrap
  <2>4. QED
    BY <2>1, <2>2, <2>3
<1>4. (\A r \in Requests : requests[r] = NoRequest \/ RequestOK(requests[r]))'
  BY DEF TokenInv, RequestOK
<1>5. QED
  BY <1>2, <1>3, <1>4 DEF TokenInv

(* A revocation marks the only token of its id.                            *)
LEMMA RevokeKeepsTokens ==
    ASSUME TokenInv, NEW id \in TokenIds, RevokeToken(id) PROVE TokenInv'
<1> PICK t \in tokenFile : /\ t.id = id /\ ~t.revoked
                           /\ tokenFile' = (tokenFile \ {t}) \union {[t EXCEPT !.revoked = TRUE]}
  BY DEF RevokeToken
<1> PICK n : n = [t EXCEPT !.revoked = TRUE]
  OBVIOUS
<1> given' = given /\ creating' = NoCreate /\ requests' = requests /\ clock' = clock
  BY DEF RevokeToken
<1>1. dead' = [dead EXCEPT ![id] = clock]
  <2>1. dead[id] > MaxControlClock /\ dead[id] \in Nat
    BY DEF TokenInv, TokensOK
  <2>2. clock < dead[id]
    BY <2>1, ControlBounds DEF TokenInv
  <2>3. QED
    BY <2>2 DEF RevokeToken
<1>2. /\ dead' \in [TokenIds -> Nat] /\ dead'[id] = clock
      /\ \A i \in TokenIds : i # id => dead'[i] = dead[i]
  BY <1>1 DEF TokenInv
<1>3. n \in [id : given, until : Nat, revoked : BOOLEAN] /\ n.revoked /\ n.id = id
  BY DEF TokenInv, TokensOK
<1>4. \A u \in tokenFile : u # t => u.id # id /\ u.id \in TokenIds
  BY DEF TokenInv, TokensOK
<1>5. TokensOK(tokenFile)'
  <2>1. \A u \in tokenFile' : u = n \/ (u \in tokenFile /\ u # t)
    OBVIOUS
  <2>2. \A u \in tokenFile' : /\ u \in [id : given', until : Nat, revoked : BOOLEAN]
                              /\ ~u.revoked => dead'[u.id] > MaxControlClock
    BY <2>1, <1>2, <1>3, <1>4 DEF TokenInv, TokensOK
  <2>3. \A u, w \in tokenFile' : u.id = w.id => u = w
    BY <2>1, <1>3, <1>4 DEF TokenInv, TokensOK
  <2>4. QED
    BY <2>2, <2>3 DEF TokensOK
<1>6. (\A r \in Requests : requests[r] = NoRequest \/ RequestOK(requests[r]))'
  <2>1. ASSUME NEW r \in Requests, RequestOK(requests[r]) PROVE RequestOK(requests[r])'
    <3>1. CASE requests[r].token = id
      BY <2>1, <3>1, <1>2, ControlBounds DEF TokenInv, RequestOK
    <3>2. CASE requests[r].token # id
      BY <2>1, <3>2, <1>2, ControlBounds DEF TokenInv, RequestOK
    <3>3. QED
      BY <3>1, <3>2
  <2>2. QED
    BY <2>1 DEF TokenInv
<1>7. \A i \in TokenIds \ given' : dead'[i] > MaxControlClock
  <2>1. id \in given
    BY DEF TokenInv, TokensOK
  <2>2. QED
    BY <2>1, <1>2 DEF TokenInv
<1>8. QED
  BY <1>2, <1>5, <1>6, <1>7 DEF TokenInv

(* The steps of the handler: a request is only let on with a token that    *)
(* was not revoked.                                                        *)
LEMMA RequestsKeepTokens ==
    ASSUME TokenInv, NEW r \in Requests,
           RequestLook(r) \/ RequestEnds(r) \/ \E id \in TokenIds : RequestStarts(r, id)
    PROVE  TokenInv'
<1> /\ given' = given /\ creating' = creating /\ tokenFile' = tokenFile /\ clock' = clock /\ dead' = dead
  BY DEF RequestLook, RequestEnds, RequestStarts
<1>1. ASSUME NEW id \in TokenIds, Authenticate(id), NEW q, q.token = id, q.look = clock + RecheckInterval
      PROVE  RequestOK(q)
  <2>1. dead[id] > MaxControlClock
    BY <1>1 DEF Authenticate, TokenInv, TokensOK
  <2>2. dead[id] \in Nat
    BY DEF TokenInv
  <2>3. QED
    BY <1>1, <2>1, <2>2, ControlBounds DEF RequestOK, TokenInv
<1>2. requests' = [q \in Requests |-> requests'[q]] /\ \A q \in Requests : q # r => requests'[q] = requests[q]
  BY DEF RequestLook, RequestEnds, RequestStarts, TokenInv
<1>3. requests'[r] = NoRequest \/ RequestOK(requests'[r])
  <2>1. CASE RequestLook(r)
    <3>1. requests[r].token \in TokenIds
      BY <2>1 DEF RequestLook, TokenInv, RequestOK
    <3>2. CASE Authenticate(requests[r].token)
      <4> PICK q : q = [requests[r] EXCEPT !.look = clock + RecheckInterval]
        OBVIOUS
      <4>1. requests'[r] = q
        BY <2>1, <3>2 DEF RequestLook, TokenInv
      <4>2. q.token = requests[r].token /\ q.look = clock + RecheckInterval
        BY <2>1 DEF RequestLook, TokenInv, RequestOK
      <4>3. QED
        BY <4>1, <4>2, <3>1, <3>2, <1>1
    <3>3. CASE ~Authenticate(requests[r].token)
      BY <2>1, <3>3 DEF RequestLook, TokenInv
    <3>4. QED
      BY <3>2, <3>3
  <2>2. CASE RequestEnds(r)
    BY <2>2 DEF RequestEnds, TokenInv
  <2>3. ASSUME NEW id \in TokenIds, RequestStarts(r, id) PROVE RequestOK(requests'[r])
    <3>1. requests'[r].token = id /\ requests'[r].look = clock + RecheckInterval
      BY <2>3 DEF RequestStarts, TokenInv
    <3>2. Authenticate(id)
      BY <2>3 DEF RequestStarts
    <3>3. QED
      BY <3>1, <3>2, <1>1
  <2>4. QED
    BY <2>1, <2>2, <2>3
<1>4. (\A q \in Requests : requests[q] = NoRequest \/ RequestOK(requests[q]))'
  BY <1>2, <1>3 DEF TokenInv, RequestOK
<1>5. QED
  BY <1>2, <1>4 DEF TokenInv, TokensOK

(* Saving, a restart and the clock: a request that has to be looked at now *)
(* holds the clock, and a restart ends all of them.                        *)
LEMMA OtherTokenSteps ==
    ASSUME TokenInv, CreateSave \/ ControlRestart \/ ControlTick PROVE TokenInv'
<1>1. CASE CreateSave
  BY <1>1 DEF CreateSave, webVars, TokenInv, TokensOK, RequestOK
<1>2. CASE ControlRestart
  BY <1>2 DEF ControlRestart, TokenInv, TokensOK, RequestOK
<1>3. CASE ControlTick
  <2> tokenFile' = tokenFile /\ given' = given /\ creating' = creating /\ requests' = requests /\ dead' = dead
    BY <1>3 DEF ControlTick, tokenVars
  <2>1. clock' \in Nat /\ clock' <= MaxControlClock /\ clock' = clock + 1
    BY <1>3, ControlBounds DEF ControlTick, TokenInv
  <2>2. \A r \in Requests : RequestOK(requests[r]) /\ requests[r] # NoRequest => RequestOK(requests[r])'
    BY <1>3, <2>1, ControlBounds DEF ControlTick, RequestOK, TokenInv
  <2>3. QED
    BY <2>1, <2>2 DEF TokenInv, TokensOK
<1>4. QED
  BY <1>1, <1>2, <1>3

(* The steps of the tokens leave the web console alone.                    *)
LEMMA WebAlone == ASSUME WebInv, UNCHANGED webVars PROVE WebInv'
BY DEF WebInv, webVars

(* The steps of the web console: a session is entered under a secret never *)
(* used before, and the sessions of the disk are good ones.                *)
LEMMA WebKept == ASSUME WebInv, WebNext PROVE WebInv'
<1>1. CASE forgetAll
  BY <1>1 DEF forgetAll, WebInv
<1>2. CASE liveConsoles \/ ControlRestart
  BY <1>2 DEF liveConsoles, ControlRestart, WebInv
<1>3. CASE ControlTick
  BY <1>3, WebAlone DEF ControlTick
<1>4. ASSUME NEW s \in Secrets, Link(s) PROVE WebInv'
  BY <1>4 DEF Link, Fresh, WebInv
<1>5. ASSUME NEW s \in Secrets, open(s) PROVE WebInv'
  <2>1. \A e \in consoles' : e.secret \in minted' \ forgotten'
    BY <1>5 DEF open, Fresh, WebInv
  <2>2. QED
    BY <1>5, <2>1 DEF open, Fresh, saveLocked, WebInv
<1>6. ASSUME NEW s \in Secrets, socket(s) PROVE WebInv'
  BY <1>6 DEF socket, saveLocked, WebInv
<1>7. ASSUME NEW s \in Secrets, NEW t \in Secrets, redeem(t, s) PROVE WebInv'
  <2>1. \A e \in consoles' : e.secret \in minted' \ forgotten'
    BY <1>7 DEF redeem, Fresh, WebInv
  <2>2. minted \subseteq minted' /\ forgotten' = forgotten
        /\ (stateFile' = stateFile \/ stateFile' = consoles')
    BY <1>7 DEF redeem, Fresh, saveLocked
  <2>3. QED
    BY <2>1, <2>2 DEF WebInv
<1>8. ASSUME NEW t \in terminals, releaseTerminal(t) PROVE WebInv'
  BY <1>8 DEF releaseTerminal, WebInv
<1>9. QED
  BY <1>1, <1>2, <1>3, <1>4, <1>5, <1>6, <1>7, <1>8 DEF WebNext

(* Every step of either part keeps the invariant.                          *)
LEMMA ControlStep ==
    ASSUME TokenInv, WebInv, [TokenNext \/ WebNext]_controlVars PROVE TokenInv' /\ WebInv'
<1>1. CASE TokenNext
  <2>1. TokenInv'
    BY <1>1, CreatesKeepTokens, RevokeKeepsTokens, RequestsKeepTokens, OtherTokenSteps DEF TokenNext
  <2>2. CASE ControlRestart
    BY <2>1, <2>2, WebKept DEF WebNext
  <2>3. CASE UNCHANGED webVars
    BY <2>1, <2>3, WebAlone
  <2>4. ControlRestart \/ UNCHANGED webVars
    BY <1>1 DEF TokenNext, CreateSave, ControlTick, CreateLoad, Bootstrap, RevokeToken,
                RequestStarts, RequestLook, RequestEnds
  <2>5. QED
    BY <2>2, <2>3, <2>4
<1>2. CASE WebNext
  <2>1. CASE ControlRestart \/ ControlTick
    BY <1>2, <2>1, WebKept, OtherTokenSteps
  <2>2. CASE UNCHANGED <<tokenVars, clock>>
    BY <1>2, <2>2, WebKept, TokensAlone
  <2>3. ControlRestart \/ ControlTick \/ UNCHANGED <<tokenVars, clock>>
    BY <1>2 DEF WebNext, forgetAll, liveConsoles, Link, open, socket, redeem, releaseTerminal
  <2>4. QED
    BY <2>1, <2>2, <2>3
<1>3. CASE UNCHANGED controlVars
  <2>1. UNCHANGED <<tokenVars, clock>> /\ UNCHANGED webVars
    BY <1>3 DEF controlVars, tokenVars, webVars
  <2>2. QED
    BY <2>1, TokensAlone, WebAlone
<1>4. QED
  BY <1>1, <1>2, <1>3

(* Whoever was shut out stays out (controlauth.Handler, webconsole.store): *)
(* a request with a revoked token has ended within an interval of the      *)
(* ticker, and a session web forget closed is in no list a restart reads,  *)
(* for every number of tokens, requests and sessions.                      *)
THEOREM ShutOutStaysOut == ControlSpec => []ShutOut
<1>1. TokenInv /\ WebInv => ShutOut
  <2> SUFFICES ASSUME TokenInv, WebInv PROVE ShutOut
    OBVIOUS
  <2>1. ForgottenStaysOut
    BY DEF WebInv, ForgottenStaysOut
  <2>2. RevokedRequestsEnd
    <3> SUFFICES ASSUME NEW r \in Requests, requests[r] # NoRequest
                 PROVE  clock <= dead[requests[r].token] + RecheckInterval
      BY DEF RevokedRequestsEnd
    <3>1. RequestOK(requests[r])
      BY DEF TokenInv
    <3>2. dead[requests[r].token] \in Nat
      BY <3>1 DEF TokenInv, RequestOK
    <3>3. QED
      BY <3>1, <3>2, ControlBounds DEF TokenInv, RequestOK
  <2>3. QED
    BY <2>1, <2>2 DEF ShutOut
<1>2. QED
  BY <1>1, ControlStarts, ControlStep, PTL DEF ControlSpec

----------------------------------------------------------------------------
(* LauncherRelease. *)

(* The server's binary.  An update that moved it aside finds nothing at    *)
(* the path; so there is one such update at a time, and what it set aside  *)
(* is there unless another update removed it.                              *)
BinaryOK(f) == f = NoBinary \/ \E v \in Versions : f = Binary(v)
Moved(k) == k.pc \in {"replace", "back"}

UpdateOK(k) ==
    /\ k.pc \in {"remove", "aside", "replace"} => BinaryOK(k.staged) /\ k.staged # NoBinary
    /\ Moved(k) => target = NoBinary /\ (~ clashed => previous # NoBinary)

BinaryInv ==
    /\ BinaryOK(target) /\ BinaryOK(previous)
    /\ update = [u \in Updaters |-> update[u]]
    /\ \A u \in Updaters : UpdateOK(update[u])
    /\ \A u, w \in Updaters : Moved(update[u]) /\ Moved(update[w]) => u = w
    /\ ~ clashed => target # NoBinary \/ previous # NoBinary
    /\ (~ clashed /\ ~ stranded /\ currentVersion # Missing /\ \A u \in Updaters : ~ Moved(update[u]))
         => target # NoBinary
    /\ currentVersion = Missing => \A u \in Updaters : update[u].pc = "idle"

(* The two files of the launcher's release.  A publish that is alone is    *)
(* the only one between its files, and the signature there is its own;     *)
(* while none was cut off or overlapped another, every publish is, and     *)
(* with nobody between its files the pair on disk is one.  A call no       *)
(* publish overlaps has seen the release that is there.                    *)
Publication == [pc : {"idle", "bake", "publish", "write"}, version : Nat]
               \cup [pc : {"signed"}, version : Nat, alone : BOOLEAN]
ReadState == {NotReading} \cup [pc : {"release"}, seen : Nat, overlapped : BOOLEAN]
             \cup [pc : {"signature"}, seen : Nat, version : Nat, overlapped : BOOLEAN]

ReadingOK(k) ==
    /\ k \in ReadState
    /\ k # NotReading => k.seen <= release.write /\ (~ k.overlapped => NobodySigns /\ k.seen = release.write)
    /\ k.pc = "signature" /\ k.seen = release.write => k.version = release.version
CacheOK(c) ==
    c # NotReading =>
        /\ c.seen \in Nat /\ c.seen <= release.write
        /\ c.seen = release.write =>
             /\ c.version = release.version
             /\ halfDone \/ ~ NobodySigns \/ c.signature = release.version
AnswerOK(k) ==
    (k # NotReading /\ ~ k.troubled) =>
        /\ k.signature = k.version
        /\ k.at \in Nat /\ k.at <= release.write /\ (k.at = release.write => k.version = release.version)

FilesOK ==
    /\ \A p \in Releasers : Signing(p) /\ publishing[p].alone =>
         signature = publishing[p].version /\ \A q \in Releasers : Signing(q) => q = p
    /\ ~ halfDone => /\ \A p \in Releasers : Signing(p) => publishing[p].alone
                     /\ NobodySigns => signature = release.version

PairInv ==
    /\ release \in [version : Nat, write : Nat]
    /\ publishing \in [Releasers -> Publication]
    /\ FilesOK
    /\ reading = [r \in Readers |-> reading[r]] /\ \A r \in Readers : ReadingOK(reading[r])
    /\ CacheOK(cached)
    /\ answered = [r \in Readers |-> answered[r]] /\ \A r \in Readers : AnswerOK(answered[r])

(* Missing binaries and whole ones differ.                                 *)
LEMMA BinaryShapes ==
    /\ NoBinary.version = Missing /\ ~ NoBinary.whole
    /\ \A v \in Versions : Binary(v) # NoBinary /\ Binary(v).whole /\ Binary(v).version # Missing
    /\ BinaryOK(NoBinary)
BY DEF NoBinary, Binary, Missing, Versions, BinaryOK

(* Both parts of the inductive invariant hold at the beginning.            *)
LEMMA LauncherStarts == LauncherInit => BinaryInv /\ PairInv
<1> SUFFICES ASSUME LauncherInit PROVE BinaryInv /\ PairInv
  OBVIOUS
<1>1. 1 \in Versions
  BY LauncherAssumption DEF Versions
<1>2. BinaryInv
  BY <1>1, BinaryShapes DEF LauncherInit, BinaryInv, BinaryOK, UpdateOK, Moved, Sleeping
<1>3. PairInv
  <2>1. release \in [version : Nat, write : Nat] /\ release.version = 0 /\ signature = 0
    BY DEF LauncherInit, NoRelease, Missing
  <2>2. Sleeping \in Publication /\ Sleeping.pc = "idle" /\ NotReading.pc = "idle" /\ NotReading \in ReadState
    BY DEF Sleeping, Publication, Missing, NotReading, ReadState
  <2>3. FilesOK
    BY <2>1, <2>2 DEF LauncherInit, FilesOK, Signing
  <2>4. QED
    BY <2>1, <2>2, <2>3 DEF LauncherInit, PairInv, ReadingOK, CacheOK, AnswerOK
<1>4. QED
  BY <1>2, <1>3

(* The steps of the launcher's release and its readers leave the binary    *)
(* alone.                                                                  *)
LEMMA BinaryAlone == ASSUME BinaryInv, UNCHANGED binaryVars PROVE BinaryInv'
BY DEF BinaryInv, binaryVars, BinaryOK, UpdateOK, Moved

(* The steps of an update leave the release alone.                         *)
LEMMA PairAlone ==
    ASSUME PairInv, UNCHANGED <<publishing, release, signature, halfDone, readVars>> PROVE PairInv'
BY DEF PairInv, FilesOK, ReadingOK, CacheOK, AnswerOK, NobodySigns, Signing, readVars

(* One step of an update moves that update and leaves the others.          *)
LEMMA UpdateMoves ==
    ASSUME BinaryInv, NEW u \in Updaters, NEW k, update' = [update EXCEPT ![u] = k]
    PROVE  /\ update' = [w \in Updaters |-> update'[w]] /\ update'[u] = k
           /\ \A w \in Updaters : w # u => update'[w] = update[w]
BY DEF BinaryInv

(* An update that goes on, or gives up, while it does not have the binary  *)
(* aside.                                                                  *)
LEMMA FetchMoves ==
    ASSUME BinaryInv, NEW u \in Updaters, NEW k, update' = [update EXCEPT ![u] = k],
           ~ Moved(k), k.pc \in {"remove", "aside"} => BinaryOK(k.staged) /\ k.staged # NoBinary,
           ~ Moved(update[u]), currentVersion # Missing,
           target' = target, previous' = previous, currentVersion' = currentVersion,
           clashed' = clashed, stranded' = stranded
    PROVE  BinaryInv'
<1>1. /\ update' = [w \in Updaters |-> update'[w]] /\ update'[u] = k
      /\ \A w \in Updaters : w # u => update'[w] = update[w]
  BY UpdateMoves
<1>2. \A w \in Updaters : UpdateOK(update[w])'
  BY <1>1 DEF BinaryInv, UpdateOK, BinaryOK, Moved
<1>3. \A w \in Updaters : Moved(update'[w]) <=> Moved(update[w])
  BY <1>1
<1>4. QED
  BY <1>1, <1>2, <1>3 DEF BinaryInv, BinaryOK, Moved

(* An update that asks for the newest release or downloads it.             *)
LEMMA FetchKeepsBinary ==
    ASSUME BinaryInv, NEW u \in Updaters, Latest(u) \/ Download(u) PROVE BinaryInv'
<1> /\ target' = target /\ previous' = previous /\ currentVersion' = currentVersion
    /\ clashed' = clashed /\ stranded' = stranded
  BY DEF Latest, Download
<1>1. ~ Moved(update[u]) /\ currentVersion # Missing
  BY DEF Latest, Download, Sleeping, BinaryInv, Moved
<1>2. CASE Latest(u)
  <2> PICK v \in Versions : update' = [update EXCEPT ![u] = [pc |-> "download", version |-> v]]
    BY <1>2 DEF Latest
  <2> PICK k : k = [pc |-> "download", version |-> v]
    OBVIOUS
  <2>1. k.pc = "download" /\ update' = [update EXCEPT ![u] = k]
    OBVIOUS
  <2>2. QED
    BY <1>1, <2>1, FetchMoves DEF Moved
<1>3. CASE Download(u)
  <2> PICK file \in {Binary(v) : v \in Versions} \union {NoBinary} :
           update' = [update EXCEPT ![u] = IF Accept(file, update[u].version)
                                       THEN [pc |-> "remove", version |-> update[u].version, staged |-> file]
                                       ELSE Sleeping]
    BY <1>3 DEF Download
  <2>1. CASE Accept(file, update[u].version)
    <3> PICK k : k = [pc |-> "remove", version |-> update[u].version, staged |-> file]
      OBVIOUS
    <3>1. update' = [update EXCEPT ![u] = k] /\ k.pc = "remove" /\ k.staged = file
      BY <2>1
    <3>2. BinaryOK(file) /\ file # NoBinary
      BY <2>1, BinaryShapes DEF Accept, BinaryOK
    <3>3. QED
      BY <1>1, <3>1, <3>2, FetchMoves DEF Moved
  <2>2. CASE ~ Accept(file, update[u].version)
    <3>1. update' = [update EXCEPT ![u] = Sleeping] /\ Sleeping.pc = "idle"
      BY <2>2 DEF Sleeping
    <3>2. QED
      BY <1>1, <3>1, FetchMoves DEF Moved
  <2>3. QED
    BY <2>1, <2>2
<1>4. QED
  BY <1>2, <1>3

(* The file beside is removed: with the binary at its path nobody has it   *)
(* aside.                                                                  *)
LEMMA RemoveKeepsBinary ==
    ASSUME BinaryInv, NEW u \in Updaters, InstallRemove(u) PROVE BinaryInv'
<1> /\ currentVersion' = currentVersion /\ target' = target /\ previous' = NoBinary /\ stranded' = stranded
    /\ update[u].pc = "remove" /\ clashed' = (clashed \/ target = NoBinary)
  BY DEF InstallRemove
<1> PICK k : k = [update[u] EXCEPT !.pc = "aside"]
  OBVIOUS
<1>1. update' = [update EXCEPT ![u] = k]
  BY DEF InstallRemove
<1>2. /\ update' = [w \in Updaters |-> update'[w]] /\ update'[u] = k
      /\ \A w \in Updaters : w # u => update'[w] = update[w]
  BY <1>1, UpdateMoves
<1>3. k.staged = update[u].staged /\ k.pc # "idle" => k.pc = "aside"
  OBVIOUS
<1>4. ~ Moved(k) /\ ~ Moved(update[u]) /\ k.staged = update[u].staged
  BY DEF Moved
<1>5. \A w \in Updaters : Moved(update'[w]) <=> Moved(update[w])
  BY <1>2, <1>4
<1>6. \A w \in Updaters : Moved(update[w]) => target = NoBinary
  BY DEF BinaryInv, UpdateOK
<1>7. UpdateOK(update[u])'
  BY <1>2, <1>4 DEF BinaryInv, UpdateOK, BinaryOK, Moved
<1>8. ASSUME NEW w \in Updaters, w # u PROVE UpdateOK(update[w])'
  <2>1. UpdateOK(update[w]) /\ update'[w] = update[w]
    BY <1>2, <1>8 DEF BinaryInv
  <2>2. Moved(update[w]) => target = NoBinary /\ clashed'
    BY <1>6
  <2> QED
    BY <2>1, <2>2 DEF UpdateOK, BinaryOK, Moved
<1>9. currentVersion # Missing
  BY DEF BinaryInv
<1> QED
  BY <1>2, <1>5, <1>7, <1>8, <1>9, BinaryShapes DEF BinaryInv, BinaryOK, Moved

(* The binary is moved aside, or the update fails before it could be.      *)
LEMMA AsideKeepsBinary ==
    ASSUME BinaryInv, NEW u \in Updaters, InstallAside(u) PROVE BinaryInv'
<1> currentVersion' = currentVersion /\ update[u].pc = "aside" /\ clashed' = clashed /\ stranded' = stranded
  BY DEF InstallAside
<1>0. currentVersion # Missing /\ ~ Moved(update[u])
  BY DEF BinaryInv, Moved
<1>1. CASE target # NoBinary /\ previous' = target /\ target' = NoBinary
           /\ update' = [update EXCEPT ![u].pc = "replace"]
  <2> PICK k : k = [update[u] EXCEPT !.pc = "replace"]
    OBVIOUS
  <2>1. \A w \in Updaters : ~ Moved(update[w])
    BY <1>1 DEF BinaryInv, UpdateOK
  <2>2. update' = [update EXCEPT ![u] = k]
    BY <1>1
  <2>3. /\ update' = [w \in Updaters |-> update'[w]] /\ update'[u] = k
        /\ \A w \in Updaters : w # u => update'[w] = update[w]
    BY <2>2, UpdateMoves
  <2>4. k.staged = update[u].staged
    OBVIOUS
  <2>5. BinaryOK(k.staged) /\ k.staged # NoBinary
    BY <2>4 DEF BinaryInv, UpdateOK
  <2>6. UpdateOK(update[u])'
    BY <1>1, <2>3, <2>5 DEF UpdateOK, BinaryOK
  <2>7. \A w \in Updaters : w # u => UpdateOK(update[w])'
    BY <2>1, <2>3 DEF BinaryInv, UpdateOK, BinaryOK, Moved
  <2>8. \A w \in Updaters : Moved(update'[w]) => w = u
    BY <2>1, <2>3
  <2>9. update'[u].pc = "replace"
    BY <2>3, <1>1 DEF BinaryInv
  <2>10. Moved(update'[u])
    BY <2>9 DEF Moved
  <2>11. QED
    BY <1>0, <1>1, <2>3, <2>6, <2>7, <2>8, <2>10, BinaryShapes DEF BinaryInv, BinaryOK, Moved
<1>2. CASE update' = [update EXCEPT ![u] = Sleeping] /\ target' = target /\ previous' = previous
  BY <1>0, <1>2, FetchMoves DEF Sleeping, Moved
<1>3. QED
  BY <1>1, <1>2 DEF InstallAside

(* The end of an update that has the binary aside: nobody has it aside     *)
(* then.                                                                   *)
LEMMA InstallEnds ==
    ASSUME BinaryInv, NEW u \in Updaters, Moved(update[u]), update' = [update EXCEPT ![u] = Sleeping],
           currentVersion' = currentVersion, clashed' = clashed,
           BinaryOK(target)', BinaryOK(previous)',
           ~ clashed => target' # NoBinary \/ (previous' # NoBinary /\ stranded')
    PROVE  BinaryInv'
<1>1. /\ update' = [w \in Updaters |-> update'[w]] /\ update'[u] = Sleeping
      /\ \A w \in Updaters : w # u => update'[w] = update[w]
  BY UpdateMoves
<1>2. \A w \in Updaters : w # u => ~ Moved(update[w])
  BY DEF BinaryInv
<1>3. Sleeping.pc = "idle" /\ ~ Moved(Sleeping)
  BY DEF Sleeping, Moved
<1>4. \A w \in Updaters : ~ Moved(update'[w])
  BY <1>1, <1>2, <1>3
<1>5. \A w \in Updaters : UpdateOK(update[w])'
  BY <1>1, <1>3, <1>4 DEF BinaryInv, UpdateOK, BinaryOK, Moved
<1> QED
  BY <1>1, <1>3, <1>4, <1>5 DEF BinaryInv, Moved

(* The staged file becomes the binary, or the old one is to be put back.   *)
LEMMA InstallKeepsBinary ==
    ASSUME BinaryInv, NEW u \in Updaters, Install(u) PROVE BinaryInv'
<1> /\ currentVersion' = currentVersion /\ clashed' = clashed /\ stranded' = stranded /\ previous' = previous
    /\ update[u].pc = "replace"
  BY DEF Install
<1>0. Moved(update[u]) /\ BinaryOK(previous)'
  BY DEF Moved, BinaryInv, BinaryOK
<1>1. CASE target' = update[u].staged /\ update' = [update EXCEPT ![u] = Sleeping]
  <2>1. BinaryOK(target)' /\ target' # NoBinary
    BY <1>1 DEF BinaryInv, UpdateOK, BinaryOK
  <2> QED
    BY <1>0, <1>1, <2>1, InstallEnds
<1>2. CASE target' = target /\ update' = [update EXCEPT ![u] = [pc |-> "back", version |-> update[u].version]]
  <2> PICK k : k = [pc |-> "back", version |-> update[u].version]
    OBVIOUS
  <2>1. update' = [update EXCEPT ![u] = k]
    BY <1>2
  <2>2. /\ update' = [w \in Updaters |-> update'[w]] /\ update'[u] = k
        /\ \A w \in Updaters : w # u => update'[w] = update[w]
    BY <2>1, UpdateMoves
  <2>3. \A w \in Updaters : w # u => ~ Moved(update[w])
    BY <1>0 DEF BinaryInv
  <2>4. k.pc = "back"
    OBVIOUS
  <2>5. UpdateOK(update[u])'
    BY <1>0, <1>2, <2>2, <2>4 DEF BinaryInv, UpdateOK, BinaryOK, Moved
  <2>6. \A w \in Updaters : w # u => UpdateOK(update[w])'
    BY <1>2, <2>2, <2>3 DEF BinaryInv, UpdateOK, BinaryOK, Moved
  <2>7. \A w \in Updaters : Moved(update'[w]) => w = u
    BY <2>2, <2>3
  <2>8. ~ clashed => previous # NoBinary
    BY <1>0 DEF BinaryInv, UpdateOK
  <2>9. currentVersion # Missing
    BY DEF BinaryInv
  <2>10. Moved(update'[u])
    BY <2>2, <2>4 DEF Moved
  <2> QED
    BY <1>2, <2>2, <2>5, <2>6, <2>7, <2>8, <2>9, <2>10 DEF BinaryInv, BinaryOK, Moved
<1>3. QED
  BY <1>1, <1>2 DEF Install

(* The old one is put back, or stays beside.                               *)
LEMMA PutBackKeepsBinary ==
    ASSUME BinaryInv, NEW u \in Updaters, PutBack(u) PROVE BinaryInv'
<1> /\ currentVersion' = currentVersion /\ clashed' = clashed /\ update[u].pc = "back"
    /\ update' = [update EXCEPT ![u] = Sleeping]
  BY DEF PutBack
<1>0. Moved(update[u])
  BY DEF Moved
<1>1. BinaryOK(target)' /\ BinaryOK(previous)'
  BY BinaryShapes DEF PutBack, BinaryInv, BinaryOK
<1>2. ~ clashed => previous # NoBinary
  BY <1>0 DEF BinaryInv, UpdateOK
<1>3. ~ clashed => target' # NoBinary \/ (previous' # NoBinary /\ stranded')
  BY <1>2 DEF PutBack
<1> QED
  BY <1>0, <1>1, <1>3, InstallEnds

(* A restart forgets the updates and runs the file that is there.          *)
LEMMA RestartKeepsBinary == ASSUME BinaryInv, LauncherRestart PROVE BinaryInv'
<1> target' = target /\ previous' = previous /\ clashed' = clashed /\ stranded' = stranded /\ currentVersion' = target.version
  BY DEF LauncherRestart
<1>1. update' = [u \in Updaters |-> Sleeping]
  BY DEF LauncherRestart
<1>2. currentVersion' # Missing => target # NoBinary
  BY BinaryShapes
<1>3. QED
  BY <1>1, <1>2 DEF BinaryInv, BinaryOK, UpdateOK, Moved, Sleeping

(* A publish moves, and neither was nor becomes one that is between its    *)
(* two files.                                                              *)
LEMMA PublishMoves ==
    ASSUME PairInv, NEW p \in Releasers, NEW k \in Publication,
           publishing' = [publishing EXCEPT ![p] = k],
           ~ Signing(p), k.pc # "signed",
           release' = release, signature' = signature, halfDone' = halfDone,
           UNCHANGED readVars
    PROVE  PairInv'
<1>1. publishing' \in [Releasers -> Publication] /\ publishing'[p] = k
      /\ \A q \in Releasers : q # p => publishing'[q] = publishing[q]
  BY DEF PairInv
<1>2. \A q \in Releasers : Signing(q)' <=> Signing(q)
  BY <1>1 DEF Signing
<1>3. \A q \in Releasers : Signing(q) => publishing'[q] = publishing[q]
  BY <1>1
<1>4. NobodySigns' <=> NobodySigns
  BY <1>2 DEF NobodySigns
<1>5. FilesOK'
  BY <1>2, <1>3, <1>4 DEF PairInv, FilesOK
<1>6. QED
  BY <1>1, <1>4, <1>5 DEF PairInv, ReadingOK, CacheOK, AnswerOK, readVars

(* The beginning of a publish, its files and its check of the version.     *)
LEMMA PreparingKeepsPair ==
    ASSUME PairInv, NEW p \in Releasers, BeginLauncher(p) \/ Bake(p) \/ Sign(p) PROVE PairInv'
<1> /\ release' = release /\ signature' = signature /\ halfDone' = halfDone
    /\ UNCHANGED readVars
  BY DEF BeginLauncher, Bake, Sign
<1>0. Sleeping.pc # "signed" /\ Sleeping \in Publication
  BY DEF Sleeping, Missing, Publication
<1>1. ~ Signing(p)
  BY DEF BeginLauncher, Bake, Sign, Sleeping, Signing
<1>2. CASE BeginLauncher(p)
  <2> PICK v \in Versions :
           \/ publishing' = [publishing EXCEPT ![p] = [pc |-> "bake", version |-> v]]
           \/ publishing' = [publishing EXCEPT ![p] = [pc |-> "publish", version |-> v]]
    BY <1>2 DEF BeginLauncher
  <2> PICK b : b = [pc |-> "bake", version |-> v]
    OBVIOUS
  <2> PICK k : k = [pc |-> "publish", version |-> v]
    OBVIOUS
  <2>1. /\ b.pc # "signed" /\ k.pc # "signed"
        /\ b \in Publication /\ k \in Publication
    BY DEF Versions, Publication
  <2>2. QED
    BY <1>1, <2>1, PublishMoves
<1>3. CASE Bake(p)
  <2> PICK k : k = [publishing[p] EXCEPT !.pc = "publish"]
    OBVIOUS
  <2>1. publishing' = [publishing EXCEPT ![p] = k] \/ publishing' = [publishing EXCEPT ![p] = Sleeping]
    BY <1>3 DEF Bake
  <2>2. k.pc # "signed" /\ k \in Publication
    BY <1>1 DEF PairInv, Publication, Signing
  <2>3. QED
    BY <1>0, <1>1, <2>1, <2>2, PublishMoves
<1>4. CASE Sign(p)
  <2> PICK k : k = [pc |-> "write", version |-> publishing[p].version]
    OBVIOUS
  <2>1. publishing' = [publishing EXCEPT ![p] = k] \/ publishing' = [publishing EXCEPT ![p] = Sleeping]
    BY <1>4 DEF Sign
  <2>2. k.pc # "signed" /\ k \in Publication
    BY DEF PairInv, Publication
  <2>3. QED
    BY <1>0, <1>1, <2>1, <2>2, PublishMoves
<1>5. QED
  BY <1>2, <1>3, <1>4

(* The signature is written: from now on it is another's than the release  *)
(* that is there, until the release follows; and every call under way is   *)
(* overlapped.  Or it cannot be written.                                   *)
LEMMA FirstKeepsPair ==
    ASSUME PairInv, NEW p \in Releasers, WriteFirst(p) PROVE PairInv'
<1> release' = release /\ cached' = cached /\ answered' = answered /\ publishing[p].pc = "write"
  BY DEF WriteFirst
<1>0. ~ Signing(p)
  BY DEF Signing
<1>1. CASE publishing' = [publishing EXCEPT ![p] = Sleeping] /\ UNCHANGED <<signature, halfDone, reading>>
  <2>1. Sleeping.pc # "signed" /\ Sleeping \in Publication
    BY DEF Sleeping, Missing, Publication
  <2> QED
    BY <1>0, <1>1, <2>1, PublishMoves DEF readVars
<1>2. CASE /\ signature' = publishing[p].version
           /\ publishing' = [q \in Releasers |->
                 IF q = p THEN [pc |-> "signed", version |-> publishing[p].version, alone |-> NobodySigns]
                 ELSE IF Signing(q) THEN [publishing[q] EXCEPT !.alone = FALSE] ELSE publishing[q]]
           /\ halfDone' = (halfDone \/ ~ NobodySigns)
           /\ reading' = [r \in Readers |-> IF reading[r] = NotReading THEN NotReading
                                            ELSE [reading[r] EXCEPT !.overlapped = TRUE]]
  <2>1. publishing[p].version \in Nat /\ NobodySigns \in BOOLEAN
    BY DEF PairInv, Publication, NobodySigns
  <2>2. /\ publishing'[p] \in Publication /\ Signing(p)' /\ publishing'[p].version = signature'
        /\ publishing'[p].alone = NobodySigns
    BY <1>2, <2>1 DEF Publication, Signing
  <2>3. ASSUME NEW q \in Releasers, q # p
        PROVE  /\ publishing'[q] \in Publication /\ (Signing(q)' <=> Signing(q))
               /\ Signing(q) => ~ publishing'[q].alone
    <3>1. publishing[q] \in Publication
      BY DEF PairInv
    <3>2. CASE Signing(q)
      <4> PICK k : k = [publishing[q] EXCEPT !.alone = FALSE]
        OBVIOUS
      <4>1. k \in Publication /\ k.pc = "signed" /\ ~ k.alone
        BY <3>1, <3>2 DEF Publication, Signing
      <4> QED
        BY <1>2, <2>3, <3>2, <4>1 DEF Signing
    <3>3. CASE ~ Signing(q)
      BY <1>2, <2>3, <3>1, <3>3 DEF Signing
    <3> QED
      BY <3>2, <3>3
  <2>4. publishing' \in [Releasers -> Publication]
    BY <1>2, <2>2, <2>3
  <2>5. NobodySigns => \A q \in Releasers : q # p => ~ Signing(q)'
    BY <2>3 DEF NobodySigns
  <2>6. FilesOK'
    BY <1>2, <2>2, <2>3, <2>5 DEF FilesOK, NobodySigns
  <2>7. ASSUME NEW r \in Readers PROVE ReadingOK(reading[r])'
    <3>0. ReadingOK(reading[r])
      BY DEF PairInv
    <3>1. CASE reading[r] = NotReading
      BY <1>2, <3>0, <3>1 DEF ReadingOK, NotReading
    <3>2. CASE reading[r] # NotReading
      <4> PICK j : j = reading[r] /\ j # NotReading /\ j \in ReadState
        BY <3>0, <3>2 DEF ReadingOK
      <4> PICK k : k = [j EXCEPT !.overlapped = TRUE]
        OBVIOUS
      <4>1. /\ k \in ReadState /\ k.overlapped /\ k.seen = j.seen /\ k.pc = j.pc
            /\ (k.pc = "signature" => k.version = j.version)
        BY DEF ReadState
      <4>2. reading'[r] = k
        BY <1>2, <3>2
      <4> QED
        BY <3>0, <4>1, <4>2 DEF ReadingOK
    <3> QED
      BY <3>1, <3>2
  <2>8. reading' = [r \in Readers |-> reading'[r]]
    BY <1>2
  <2>9. CacheOK(cached)'
    BY <2>2 DEF PairInv, CacheOK, NobodySigns
  <2>10. \A r \in Readers : AnswerOK(answered[r])'
    BY DEF PairInv, AnswerOK
  <2> QED
    BY <2>4, <2>6, <2>7, <2>8, <2>9, <2>10 DEF PairInv
<1>3. QED
  BY <1>1, <1>2 DEF WriteFirst

(* The release is written, or cannot be.  Nothing that was read before is  *)
(* of the new write; and when this publish was alone the signature there   *)
(* is its own.                                                             *)
LEMMA SecondKeepsPair ==
    ASSUME PairInv, NEW p \in Releasers, WriteSecond(p) PROVE PairInv'
<1> cached' = cached /\ reading' = reading /\ answered' = answered /\ signature' = signature /\ Signing(p)
  BY DEF WriteSecond, readVars, Signing
<1>1. publishing' \in [Releasers -> Publication] /\ publishing'[p] = Sleeping
      /\ \A q \in Releasers : q # p => publishing'[q] = publishing[q]
  BY DEF WriteSecond, PairInv, Publication, Sleeping, Missing
<1>2. ~ Signing(p)' /\ \A q \in Releasers : q # p => (Signing(q)' <=> Signing(q))
  BY <1>1 DEF Signing, Sleeping
<1>3. \A r \in Readers : reading[r] # NotReading => reading[r].overlapped
  BY DEF PairInv, ReadingOK, NobodySigns
<1>4. CASE release' = [version |-> publishing[p].version, write |-> release.write + 1]
           /\ halfDone' = (halfDone /\ ~ publishing[p].alone)
  <2>1. publishing[p].version \in Nat
    BY DEF PairInv, Publication
  <2>2. release'.write = release.write + 1 /\ release'.version = publishing[p].version
        /\ release' \in [version : Nat, write : Nat] /\ release.write \in Nat
    BY <1>4, <2>1 DEF PairInv
  <2>3. ~ halfDone' => publishing[p].alone
    BY <1>4 DEF PairInv, FilesOK
  <2>4. publishing[p].alone => signature = release'.version /\ \A q \in Releasers : ~ Signing(q)'
    BY <1>2, <2>2 DEF PairInv, FilesOK
  <2>5. ASSUME NEW q \in Releasers, Signing(q)', publishing'[q].alone PROVE FALSE
    <3>1. q # p /\ Signing(q) /\ publishing[q].alone
      BY <1>1, <1>2, <2>5
    <3> QED
      BY <3>1 DEF PairInv, FilesOK
  <2>6. FilesOK'
    BY <2>3, <2>4, <2>5 DEF FilesOK
  <2>7. \A n \in Nat : n <= release.write => n <= release'.write /\ n # release'.write
    BY <2>2
  <2>8. ASSUME NEW r \in Readers PROVE ReadingOK(reading[r])'
    <3>1. ReadingOK(reading[r])
      BY DEF PairInv
    <3>2. reading[r] # NotReading => reading[r].seen \in Nat
      BY <3>1 DEF ReadingOK, ReadState
    <3>3. reading[r].pc = "signature" => reading[r] # NotReading
      BY DEF NotReading
    <3> QED
      BY <1>3, <2>7, <3>1, <3>2, <3>3 DEF ReadingOK
  <2>9. CacheOK(cached)'
    BY <2>7 DEF PairInv, CacheOK
  <2>10. \A r \in Readers : AnswerOK(answered[r])'
    BY <2>7 DEF PairInv, AnswerOK
  <2> QED
    BY <1>1, <2>2, <2>6, <2>8, <2>9, <2>10 DEF PairInv
<1>5. CASE release' = release /\ halfDone' = TRUE
  <2>1. FilesOK'
    <3> SUFFICES ASSUME NEW q \in Releasers, Signing(q)', publishing'[q].alone PROVE FALSE
      BY <1>5 DEF FilesOK
    <3>1. q # p /\ Signing(q) /\ publishing[q].alone
      BY <1>1, <1>2
    <3> QED
      BY <3>1 DEF PairInv, FilesOK
  <2>2. \A r \in Readers : ReadingOK(reading[r])'
    BY <1>3, <1>5 DEF PairInv, ReadingOK
  <2> QED
    BY <1>1, <1>5, <2>1, <2>2 DEF PairInv, CacheOK, AnswerOK
<1>6. QED
  BY <1>4, <1>5 DEF WriteSecond

(* A reader moves, and what it was answered is good.                       *)
LEMMA ReaderMoves ==
    ASSUME PairInv, NEW r \in Readers, NEW k, NEW j,
           UNCHANGED <<release, signature, halfDone, publishing>>,
           reading' = [reading EXCEPT ![r] = k], ReadingOK(k),
           answered' = [answered EXCEPT ![r] = j], AnswerOK(j),
           CacheOK(cached')
    PROVE  PairInv'
<1>1. reading' = [q \in Readers |-> reading'[q]] /\ \A q \in Readers : ReadingOK(reading'[q])
  BY DEF PairInv
<1>2. answered' = [q \in Readers |-> answered'[q]] /\ \A q \in Readers : AnswerOK(answered'[q])
  BY DEF PairInv
<1>3. NobodySigns' <=> NobodySigns
  BY DEF NobodySigns, Signing
<1>4. FilesOK'
  BY <1>3 DEF PairInv, FilesOK, Signing
<1>5. /\ \A q \in Readers : ReadingOK(reading[q])' /\ AnswerOK(answered[q])'
      /\ CacheOK(cached)'
  BY <1>1, <1>2, <1>3 DEF ReadingOK, AnswerOK, CacheOK
<1> QED
  BY <1>1, <1>2, <1>4, <1>5 DEF PairInv

(* The reads of Releases.Current.                                          *)
LEMMA ReadersKeepPair ==
    ASSUME PairInv, NEW r \in Readers, Stat(r) \/ ReadRelease(r) \/ ReadSignature(r) PROVE PairInv'
<1>0. UNCHANGED <<release, signature, halfDone, publishing>>
  BY DEF Stat, ReadRelease, ReadSignature, SignatureRead, releaseVars
<1>1. /\ release.write \in Nat /\ release.version \in Nat /\ CacheOK(cached)
      /\ reading = [q \in Readers |-> reading[q]] /\ answered = [q \in Readers |-> answered[q]]
      /\ ReadingOK(reading[r]) /\ AnswerOK(answered[r])
  BY DEF PairInv
<1>2. reading = [reading EXCEPT ![r] = reading[r]] /\ answered = [answered EXCEPT ![r] = answered[r]]
  BY <1>1
<1>3. ReadingOK(NotReading) /\ AnswerOK(NotReading) /\ NotReading.pc = "idle"
  BY DEF ReadingOK, AnswerOK, ReadState, NotReading
<1>4. CASE Stat(r)
  <2>1. cached' = cached
    BY <1>4 DEF Stat
  <2>2. CASE cached # NotReading /\ cached.seen = release.write
    <3> PICK j : j = [version |-> cached.version, signature |-> cached.signature, at |-> release.write,
                      troubled |-> ~ NobodySigns \/ halfDone]
      OBVIOUS
    <3>1. answered' = [answered EXCEPT ![r] = j] /\ reading' = reading
      BY <1>4, <2>2 DEF Stat, Returns
    <3>2. /\ j.version = cached.version /\ j.signature = cached.signature /\ j.at = release.write
          /\ j.troubled = (~ NobodySigns \/ halfDone)
      OBVIOUS
    <3>3. AnswerOK(j)
      BY <1>1, <2>2, <3>2 DEF AnswerOK, CacheOK
    <3> QED
      BY <1>0, <1>1, <1>2, <2>1, <3>1, <3>3, ReaderMoves
  <2>3. CASE ~ (cached # NotReading /\ cached.seen = release.write)
    <3> PICK k : k = [pc |-> "release", seen |-> release.write, overlapped |-> ~ NobodySigns]
      OBVIOUS
    <3>1. reading' = [reading EXCEPT ![r] = k] /\ answered' = [answered EXCEPT ![r] = NotReading]
      BY <1>4, <2>3 DEF Stat
    <3>2. k \in ReadState /\ k.pc = "release" /\ k.seen = release.write /\ k.overlapped = ~ NobodySigns
      BY <1>1 DEF ReadState, NobodySigns
    <3>a. ~ k.overlapped => NobodySigns
      BY <3>2, Zenon
    <3>3. k.seen <= release.write /\ (~ k.overlapped => NobodySigns)
      BY <1>1, <3>2, <3>a
    <3>4. ReadingOK(k)
      BY <3>2, <3>3 DEF ReadingOK
    <3> QED
      BY <1>0, <1>1, <1>3, <2>1, <3>1, <3>4, ReaderMoves
  <2> QED
    BY <2>2, <2>3
<1>5. CASE ReadRelease(r)
  <2> PICK k : k = [pc |-> "signature", seen |-> reading[r].seen, version |-> release.version,
                    overlapped |-> reading[r].overlapped]
    OBVIOUS
  <2>1. /\ cached' = cached /\ answered' = answered /\ reading[r].pc = "release"
        /\ (reading' = [reading EXCEPT ![r] = k] \/ reading' = [reading EXCEPT ![r] = NotReading])
    BY <1>5 DEF ReadRelease
  <2>2. reading[r] # NotReading /\ reading[r].seen \in Nat /\ reading[r].overlapped \in BOOLEAN
    BY <1>1, <2>1 DEF ReadingOK, ReadState, NotReading
  <2>3. /\ k \in ReadState /\ k.pc = "signature" /\ k.seen = reading[r].seen /\ k.version = release.version
        /\ k.overlapped = reading[r].overlapped
    BY <1>1, <2>2 DEF ReadState
  <2>4. ReadingOK(k)
    BY <1>1, <2>2, <2>3 DEF ReadingOK
  <2> QED
    BY <1>0, <1>1, <1>2, <1>3, <2>1, <2>4, ReaderMoves
<1>6. CASE ReadSignature(r)
  <2>1. reading' = [reading EXCEPT ![r] = NotReading] /\ reading[r].pc = "signature"
    BY <1>6 DEF ReadSignature, SignatureRead
  <2>2. /\ reading[r] # NotReading /\ reading[r].seen \in Nat /\ reading[r].version \in Nat
        /\ reading[r].overlapped \in BOOLEAN
    BY <1>1, <2>1 DEF ReadingOK, ReadState, NotReading
  <2>3. CASE cached' = cached /\ answered' = answered
    BY <1>0, <1>1, <1>2, <1>3, <2>1, <2>3, ReaderMoves
  <2> PICK j : j = [version |-> reading[r].version, signature |-> signature, at |-> release.write,
                    troubled |-> reading[r].overlapped \/ halfDone]
    OBVIOUS
  <2> PICK c : c = [seen |-> reading[r].seen, version |-> reading[r].version, signature |-> signature]
    OBVIOUS
  <2>4. CASE answered' = [answered EXCEPT ![r] = j] /\ (cached' = c \/ cached' = cached)
    <3>1. ~ halfDone /\ NobodySigns => signature = release.version
      BY DEF PairInv, FilesOK
    <3>2. AnswerOK(j)
      <4>1. /\ j.version = reading[r].version /\ j.signature = signature /\ j.at = release.write
            /\ j.troubled = (reading[r].overlapped \/ halfDone)
        OBVIOUS
      <4> QED
        BY <1>1, <2>1, <2>2, <3>1, <4>1 DEF AnswerOK, ReadingOK
    <3>3. CacheOK(c)
      <4>1. c.seen = reading[r].seen /\ c.version = reading[r].version /\ c.signature = signature
        OBVIOUS
      <4> QED
        BY <1>1, <2>1, <2>2, <3>1, <4>1 DEF CacheOK, ReadingOK
    <3>4. CacheOK(cached')
      BY <1>1, <2>4, <3>3
    <3> QED
      BY <1>0, <1>3, <2>1, <2>4, <3>2, <3>4, ReaderMoves
  <2>5. QED
    BY <1>6, <2>3, <2>4 DEF ReadSignature, SignatureRead, Returns
<1>7. QED
  BY <1>4, <1>5, <1>6

(* A restart ends every publish and empties the cache.                     *)
LEMMA RestartKeepsPair == ASSUME BinaryInv, PairInv, LauncherRestart PROVE PairInv'
<1> release' = release /\ signature' = signature
  BY DEF LauncherRestart
<1>1. /\ cached' = NotReading /\ reading' = [r \in Readers |-> NotReading] /\ NotReading.pc = "idle"
      /\ answered' = [r \in Readers |-> NotReading] /\ NotReading \in ReadState
  BY DEF LauncherRestart, NotReading, ReadState
<1>2. target.version \in Nat
  BY DEF BinaryInv, BinaryOK, Binary, NoBinary, Missing, Versions
<1>3. publishing' \in [Releasers -> Publication] /\ \A p \in Releasers : publishing'[p].pc # "signed"
  <2>1. Sleeping \in Publication /\ Sleeping.pc # "signed"
    BY DEF Sleeping, Missing, Publication
  <2> PICK b : b = [pc |-> "bake", version |-> target.version]
    OBVIOUS
  <2>2. b \in Publication /\ b.pc # "signed"
    BY <1>2 DEF Publication
  <2>3. currentVersion' = target.version
    BY DEF LauncherRestart
  <2>4. CASE publishing' = [p \in Releasers |-> Sleeping]
    BY <2>1, <2>4
  <2>5. ASSUME NEW c \in Releasers, publishing' = [p \in Releasers |-> IF p = c THEN b ELSE Sleeping]
        PROVE  publishing' \in [Releasers -> Publication] /\ \A p \in Releasers : publishing'[p].pc # "signed"
    BY <2>1, <2>2, <2>5
  <2>6. QED
    BY <2>3, <2>4, <2>5 DEF LauncherRestart
<1>4. ~ halfDone' => ~ halfDone /\ \A p \in Releasers : ~ Signing(p)
  BY DEF LauncherRestart, Signing
<1>5. FilesOK'
  BY <1>3, <1>4 DEF PairInv, FilesOK, Signing, NobodySigns
<1>6. QED
  BY <1>1, <1>3, <1>5 DEF PairInv, ReadingOK, CacheOK, AnswerOK

(* Every step keeps both parts.                                            *)
LEMMA LauncherStep ==
    ASSUME BinaryInv, PairInv, [LauncherNext]_launcherVars PROVE BinaryInv' /\ PairInv'
<1>1. ASSUME NEW u \in Updaters,
             \/ Latest(u) \/ Download(u) \/ InstallRemove(u) \/ InstallAside(u) \/ Install(u) \/ PutBack(u)
      PROVE  BinaryInv' /\ PairInv'
  <2>1. UNCHANGED <<publishing, release, signature, halfDone, readVars>>
    BY <1>1 DEF Latest, Download, InstallRemove, InstallAside, Install, PutBack, releaseVars
  <2>2. QED
    BY <1>1, <2>1, PairAlone, FetchKeepsBinary, RemoveKeepsBinary, AsideKeepsBinary, InstallKeepsBinary,
       PutBackKeepsBinary
<1>2. CASE LauncherRestart
  BY <1>2, RestartKeepsBinary, RestartKeepsPair
<1>3. ASSUME NEW p \in Releasers,
             BeginLauncher(p) \/ Bake(p) \/ Sign(p) \/ WriteFirst(p) \/ WriteSecond(p)
      PROVE  BinaryInv' /\ PairInv'
  <2>1. UNCHANGED binaryVars
    BY <1>3 DEF BeginLauncher, Bake, Sign, WriteFirst, WriteSecond
  <2>2. QED
    BY <1>3, <2>1, BinaryAlone, PreparingKeepsPair, FirstKeepsPair, SecondKeepsPair
<1>4. ASSUME NEW r \in Readers, Stat(r) \/ ReadRelease(r) \/ ReadSignature(r)
      PROVE  BinaryInv' /\ PairInv'
  <2>1. UNCHANGED binaryVars
    BY <1>4 DEF Stat, ReadRelease, ReadSignature, SignatureRead
  <2>2. QED
    BY <1>4, <2>1, BinaryAlone, ReadersKeepPair
<1>5. CASE UNCHANGED launcherVars
  <2>1. UNCHANGED binaryVars /\ UNCHANGED <<publishing, release, signature, halfDone, readVars>>
    BY <1>5 DEF launcherVars, releaseVars
  <2>2. QED
    BY <2>1, BinaryAlone, PairAlone
<1>6. QED
  BY <1>1, <1>2, <1>3, <1>4, <1>5 DEF LauncherNext, UpdateNext, PublishNext, ReadNext

(* An update leaves players and the server with a working program          *)
(* (selfupdate.Install, launchersvc.publish, Releases.Current): a call no  *)
(* publish overlaps is given a release with its own signature, once no     *)
(* publish was cut off or overlapped since the last whole one; and a whole *)
(* binary is at the path or beside it as long as no update removes .old    *)
(* while nothing is at the path.  For every number of updates, publishes   *)
(* and readers, whatever rename fails and whenever the server restarts.    *)
THEOREM UpdatesStaySafe == LauncherSpec => []UpdatesSafe
<1>1. BinaryInv /\ PairInv => UpdatesSafe
  <2> SUFFICES ASSUME BinaryInv, PairInv PROVE UpdatesSafe
    OBVIOUS
  <2>1. ServedPairVerifies
    BY DEF PairInv, AnswerOK, ServedPairVerifies
  <2>2. \A f : BinaryOK(f) /\ f # NoBinary => f.whole
    BY BinaryShapes DEF BinaryOK
  <2>3. BinaryKept
    BY <2>2 DEF BinaryInv, BinaryKept, Moved
  <2>4. QED
    BY <2>1, <2>3 DEF UpdatesSafe
<1>2. QED
  BY <1>1, LauncherStarts, LauncherStep, PTL DEF LauncherSpec

----------------------------------------------------------------------------
(* Lifecycle. *)

(* The public port, where there is one, is the lock of a start: whoever is *)
(* between taking it and giving it up is the only one to touch the socket, *)
(* and it was seen unanswered after the port was taken, so nobody else     *)
(* listens any more.  Without one the same holds of a process whose socket *)
(* was not crossed when it was made.  And whoever wrote the pid file       *)
(* uncrossed has it, since nobody finds another pid than his own there.    *)
Holders == {"port", "dialled", "removed", "socket", "pid", "serving"}
Bound == {"socket", "pid", "serving"}
Clear(p) == public \/ p \notin crossed

HeldBy(p) ==
    /\ public /\ phase[p] \in Holders => port = p
    /\ public /\ phase[p] \in {"dialled", "removed"} => listening = {}
    /\ phase[p] \in Bound => p \in listening
    /\ phase[p] \in Bound /\ Clear(p) =>
         listening = {p} /\ socketFile = p /\ \A q \in Others(p) : phase[q] # "dialled"
    /\ phase[p] \in {"pid", "serving"} /\ p \notin crossed =>
         pidFile = p /\ \A q \in Others(p) : phase[q] # "matched"

LifecycleInv ==
    /\ phase = [p \in Processes |-> phase[p]]
    /\ listening \subseteq Processes /\ (public => \A q \in listening : socketFile = q)
    /\ \A p \in Processes : HeldBy(p)

(* A step of one process moves its phase and leaves the others where they  *)
(* are.                                                                    *)
LEMMA PhaseMoves ==
    ASSUME LifecycleInv, NEW p \in Processes, NEW f, Goes(p, f)
    PROVE  /\ phase' = [q \in Processes |-> phase'[q]] /\ phase'[p] = f
           /\ \A q \in Processes : q # p => phase'[q] = phase[q]
BY DEF LifecycleInv, Goes

(* With a public address nobody but p holds anything when p has the port.  *)
LEMMA OthersHoldNothing ==
    ASSUME LifecycleInv, NEW p \in Processes, public, port = p \/ port = Free
    PROVE  \A q \in Processes : q # p => phase[q] \notin Holders
BY FreeAssumption DEF LifecycleInv, HeldBy

(* Of two processes with a listener neither is sure of its socket.         *)
LEMMA ListenersMeet ==
    ASSUME LifecycleInv, NEW p \in Processes, p \in listening, NEW q \in Processes, q # p
    PROVE  phase[q] \in Bound => ~ Clear(q)
BY DEF LifecycleInv, HeldBy

(* A step that leaves what others rely on alone: their port, listeners and *)
(* files, and it does not become one that will remove them.                *)
LEMMA OthersKeep ==
    ASSUME LifecycleInv, NEW p \in Processes, NEW f, Goes(p, f), public' = public,
           NEW q \in Processes, q # p,
           port = q => port' = q,
           q \in listening => q \in listening',
           public /\ phase[q] \in {"dialled", "removed"} => listening' = {},
           phase[q] \in Bound /\ Clear(q) => listening' = listening /\ socketFile' = socketFile /\ f # "dialled",
           phase[q] \in {"pid", "serving"} /\ q \notin crossed => pidFile' = pidFile /\ f # "matched",
           q \in crossed' <=> q \in crossed
    PROVE  HeldBy(q)'
<1>1. phase'[p] = f /\ \A w \in Processes : w # p => phase'[w] = phase[w]
  BY PhaseMoves
<1>2. HeldBy(q) /\ phase'[q] = phase[q]
  BY <1>1 DEF LifecycleInv
<1>3. Clear(q)' <=> Clear(q)
  BY DEF Clear
<1>4. phase[q] \in Bound /\ Clear(q) => \A w \in Others(q) : phase'[w] # "dialled"
  BY <1>1, <1>2 DEF HeldBy, Others
<1>5. phase[q] \in {"pid", "serving"} /\ q \notin crossed => \A w \in Others(q) : phase'[w] # "matched"
  BY <1>1, <1>2 DEF HeldBy, Others
<1> QED
  BY <1>2, <1>3, <1>4, <1>5 DEF HeldBy

(* A process that has only begun holds nothing.                             *)
LEMMA StartKeeps == ASSUME LifecycleInv, NEW p \in Processes, Start(p) PROVE LifecycleInv'
<1> PICK f : f = "wired"
  OBVIOUS
<1>1. Goes(p, f)
  BY DEF Start
<1>2. /\ phase' = [q \in Processes |-> phase'[q]] /\ phase'[p] = f
      /\ \A q \in Processes : q # p => phase'[q] = phase[q]
  BY <1>1, PhaseMoves
<1>7. HeldBy(p)'
  BY <1>2 DEF HeldBy, Holders, Bound
<1>8. ASSUME NEW q \in Processes, q # p PROVE HeldBy(q)'
  BY <1>1, <1>8, OthersKeep DEF Start, heldVars, LifecycleInv, HeldBy
<1>9. listening' \subseteq Processes /\ (public' => \A q \in listening' : socketFile' = q)
  BY DEF Start, heldVars, LifecycleInv
<1> QED
  BY <1>2, <1>7, <1>8, <1>9 DEF LifecycleInv

(* The port is free for one only.                                          *)
LEMMA OpenPortKeeps == ASSUME LifecycleInv, NEW p \in Processes, OpenPort(p) PROVE LifecycleInv'
<1> PICK f : f = IF public /\ port # Free THEN "off" ELSE "port"
  OBVIOUS
<1>1. Goes(p, f)
  BY DEF OpenPort
<1>2. /\ phase' = [q \in Processes |-> phase'[q]] /\ phase'[p] = f
      /\ \A q \in Processes : q # p => phase'[q] = phase[q]
  BY <1>1, PhaseMoves
<1>3. /\ UNCHANGED <<public, socketFile, listening, pidFile, crossed>>
      /\ port' = IF public /\ port = Free THEN p ELSE port
  BY DEF OpenPort
<1>7. HeldBy(p)'
  BY <1>2, <1>3 DEF HeldBy, Holders, Bound
<1>8. ASSUME NEW q \in Processes, q # p PROVE HeldBy(q)'
  BY <1>1, <1>3, <1>8, OthersKeep, FreeAssumption DEF LifecycleInv, HeldBy
<1>9. listening' \subseteq Processes /\ (public' => \A q \in listening' : socketFile' = q)
  BY <1>3 DEF LifecycleInv
<1> QED
  BY <1>2, <1>7, <1>8, <1>9 DEF LifecycleInv

(* A socket that does not answer is nobody's who relies on it.             *)
LEMMA DialSocketKeeps == ASSUME LifecycleInv, NEW p \in Processes, DialSocket(p) PROVE LifecycleInv'
<1> PICK f : f = IF Answers THEN "releasing" ELSE "dialled"
  OBVIOUS
<1>1. Goes(p, f)
  BY DEF DialSocket
<1>2. /\ phase' = [q \in Processes |-> phase'[q]] /\ phase'[p] = f
      /\ \A q \in Processes : q # p => phase'[q] = phase[q]
  BY <1>1, PhaseMoves
<1>3. UNCHANGED heldVars /\ phase[p] = "port"
  BY DEF DialSocket
<1>4. ~ Answers => /\ public => listening = {}
                   /\ \A q \in Processes : ~ (phase[q] \in Bound /\ Clear(q))
  BY FreeAssumption DEF Answers, LifecycleInv, HeldBy
<1>7. HeldBy(p)'
  BY <1>2, <1>3, <1>4 DEF LifecycleInv, HeldBy, Holders, Bound, heldVars
<1>8. ASSUME NEW q \in Processes, q # p PROVE HeldBy(q)'
  BY <1>1, <1>3, <1>4, <1>8, OthersKeep DEF LifecycleInv, HeldBy, heldVars
<1>9. listening' \subseteq Processes /\ (public' => \A q \in listening' : socketFile' = q)
  BY <1>3 DEF LifecycleInv, heldVars
<1> QED
  BY <1>2, <1>7, <1>8, <1>9 DEF LifecycleInv

(* A file that somebody relies on is not removed: nobody else has dialled. *)
LEMMA RemoveSocketKeeps == ASSUME LifecycleInv, NEW p \in Processes, RemoveSocket(p) PROVE LifecycleInv'
<1> PICK f : f = "removed"
  OBVIOUS
<1>1. Goes(p, f)
  BY DEF RemoveSocket
<1>2. /\ phase' = [q \in Processes |-> phase'[q]] /\ phase'[p] = f
      /\ \A q \in Processes : q # p => phase'[q] = phase[q]
  BY <1>1, PhaseMoves
<1>3. /\ UNCHANGED <<public, port, listening, pidFile, crossed>>
      /\ phase[p] = "dialled"
  BY DEF RemoveSocket
<1>4. \A q \in Processes : q # p => ~ (phase[q] \in Bound /\ Clear(q))
  BY <1>3 DEF LifecycleInv, HeldBy, Others
<1>7. HeldBy(p)'
  BY <1>2, <1>3 DEF LifecycleInv, HeldBy, Holders, Bound
<1>8. ASSUME NEW q \in Processes, q # p PROVE HeldBy(q)'
  BY <1>1, <1>3, <1>4, <1>8, OthersKeep DEF LifecycleInv, HeldBy
<1>9. listening' \subseteq Processes /\ (public' => \A q \in listening' : socketFile' = q)
  BY <1>3 DEF LifecycleInv, HeldBy
<1> QED
  BY <1>2, <1>7, <1>8, <1>9 DEF LifecycleInv

(* The socket is made, or its address is in use.                           *)
LEMMA BindSocketKeeps == ASSUME LifecycleInv, NEW p \in Processes, BindSocket(p) PROVE LifecycleInv'
<1>1. CASE socketFile # Free
  <2>1. /\ Goes(p, "releasing") /\ UNCHANGED heldVars
    BY <1>1 DEF BindSocket, heldVars
  <2>2. /\ phase' = [q \in Processes |-> phase'[q]] /\ phase'[p] = "releasing"
        /\ \A q \in Processes : q # p => phase'[q] = phase[q]
    BY <2>1, PhaseMoves
  <2>3. HeldBy(p)'
    BY <2>2 DEF HeldBy, Holders, Bound
  <2>4. ASSUME NEW q \in Processes, q # p PROVE HeldBy(q)'
    BY <2>1, <2>4, OthersKeep DEF LifecycleInv, HeldBy, heldVars
  <2> QED
    BY <2>1, <2>2, <2>3, <2>4 DEF LifecycleInv, heldVars
<1>2. CASE socketFile = Free
  <2>1. /\ Goes(p, "socket") /\ UNCHANGED <<public, port, pidFile>> /\ phase[p] = "removed"
        /\ socketFile' = p /\ listening' = listening \cup {p}
        /\ crossed' = IF \E q \in Others(p) : phase[q] = "dialled" \/ q \in listening
                      THEN crossed \cup {p} ELSE crossed
    BY <1>2 DEF BindSocket
  <2>2. /\ phase' = [q \in Processes |-> phase'[q]] /\ phase'[p] = "socket"
        /\ \A q \in Processes : q # p => phase'[q] = phase[q]
    BY <2>1, PhaseMoves
  <2>3. public => /\ port = p /\ listening = {}
                  /\ \A q \in Processes : q # p => phase[q] \notin Holders
    BY <2>1, OthersHoldNothing DEF LifecycleInv, HeldBy, Holders
  <2>4. Clear(p)' => /\ listening' = {p}
                     /\ \A q \in Others(p) : phase'[q] # "dialled"
    <3>1. CASE public
      BY <2>1, <2>2, <2>3, <3>1 DEF Others, Holders
    <3>2. CASE ~ public
      BY <2>1, <2>2, <3>2 DEF Clear, Others, LifecycleInv
    <3> QED
      BY <3>1, <3>2
  <2>5. HeldBy(p)'
    BY <2>1, <2>2, <2>3, <2>4 DEF HeldBy, Holders, Bound
  <2>6. \A q \in Processes : q # p => ~ (phase[q] \in Bound /\ Clear(q))
    BY <1>2, FreeAssumption DEF LifecycleInv, HeldBy
  <2>7. \A q \in Processes : q # p /\ phase[q] \in {"pid", "serving"} => q \in crossed
    BY <2>6 DEF Clear, Bound
  <2>8. ASSUME NEW q \in Processes, q # p PROVE HeldBy(q)'
    <3>1. public => phase[q] \notin {"dialled", "removed"}
      BY <2>3, <2>8 DEF Holders
    <3>2. q \in crossed' <=> q \in crossed
      BY <2>1, <2>8
    <3> QED
      BY <2>1, <2>6, <2>7, <2>8, <3>1, <3>2, OthersKeep
  <2>9. listening' \subseteq Processes /\ (public' => \A q \in listening' : socketFile' = q)
    BY <2>1, <2>3 DEF LifecycleInv
  <2> QED
    BY <2>2, <2>5, <2>8, <2>9 DEF LifecycleInv
<1> QED
  BY <1>1, <1>2

(* Whoever writes the pid file is the only one who has a socket, or is     *)
(* crossed.                                                                *)
LEMMA WritePidKeeps == ASSUME LifecycleInv, NEW p \in Processes, WritePid(p) PROVE LifecycleInv'
<1> PICK f : f = "pid"
  OBVIOUS
<1>1. Goes(p, f)
  BY DEF WritePid, PidWritten
<1>2. /\ phase' = [q \in Processes |-> phase'[q]] /\ phase'[p] = f
      /\ \A q \in Processes : q # p => phase'[q] = phase[q]
  BY <1>1, PhaseMoves
<1>3. /\ UNCHANGED <<public, port, socketFile, listening>> /\ phase[p] = "socket" /\ pidFile' = p
      /\ crossed' = IF \E q \in Others(p) : phase[q] = "matched" THEN crossed \cup {p} ELSE crossed
  BY DEF WritePid, PidWritten
<1>4. HeldBy(p) /\ p \in listening
  BY <1>3 DEF LifecycleInv, HeldBy, Bound
<1>5. \A q \in Processes : q # p => ~ (phase[q] \in Bound /\ Clear(q))
  BY <1>4, ListenersMeet
<1>6. \A q \in Processes : q # p /\ phase[q] \in {"pid", "serving"} => q \in crossed
  BY <1>5 DEF Clear, Bound
<1>a. Clear(p)' => Clear(p) /\ (p \notin crossed' => \A q \in Others(p) : phase'[q] # "matched")
  BY <1>2, <1>3 DEF Clear, Others
<1>b. p \notin crossed' => \A q \in Others(p) : phase'[q] # "matched"
  BY <1>2, <1>3 DEF Others
<1>c. \A q \in Others(p) : phase'[q] = phase[q]
  BY <1>2 DEF Others
<1>7. HeldBy(p)'
  BY <1>2, <1>3, <1>4, <1>a, <1>b, <1>c DEF HeldBy, Holders, Bound
<1>8. ASSUME NEW q \in Processes, q # p PROVE HeldBy(q)'
  BY <1>1, <1>3, <1>5, <1>6, <1>8, OthersKeep DEF LifecycleInv, HeldBy
<1>9. listening' \subseteq Processes /\ (public' => \A q \in listening' : socketFile' = q)
  BY <1>3 DEF LifecycleInv
<1> QED
  BY <1>2, <1>7, <1>8, <1>9 DEF LifecycleInv

(* A start that fails may leave the pid file empty, when nobody else relies *)
(* on it.                                                                  *)
LEMMA StartFailsKeeps == ASSUME LifecycleInv, NEW p \in Processes, StartFails(p) PROVE LifecycleInv'
<1> PICK f : f = IF phase[p] = "socket" THEN "unbinding" ELSE "releasing"
  OBVIOUS
<1>1. Goes(p, f)
  BY DEF StartFails
<1>2. /\ phase' = [q \in Processes |-> phase'[q]] /\ phase'[p] = f
      /\ \A q \in Processes : q # p => phase'[q] = phase[q]
  BY <1>1, PhaseMoves
<1>3. /\ UNCHANGED <<public, port, socketFile, listening, crossed>>
      /\ phase[p] # "socket" => pidFile' = pidFile
  BY DEF StartFails
<1>4. phase[p] = "socket" => p \in listening
  BY DEF LifecycleInv, HeldBy, Bound
<1>5. \A q \in Processes : q # p /\ phase[p] = "socket" => ~ (phase[q] \in Bound /\ Clear(q))
  BY <1>4, ListenersMeet
<1>6. \A q \in Processes : q # p /\ phase[p] = "socket" /\ phase[q] \in {"pid", "serving"} => q \in crossed
  BY <1>5 DEF Clear, Bound
<1>7. HeldBy(p)'
  BY <1>2 DEF HeldBy, Holders, Bound
<1>8. ASSUME NEW q \in Processes, q # p PROVE HeldBy(q)'
  BY <1>1, <1>3, <1>6, <1>8, OthersKeep DEF LifecycleInv, HeldBy
<1>9. listening' \subseteq Processes /\ (public' => \A q \in listening' : socketFile' = q)
  BY <1>3 DEF LifecycleInv
<1> QED
  BY <1>2, <1>7, <1>8, <1>9 DEF LifecycleInv

(* Serving needs nothing more.                                             *)
LEMMA ServeKeeps == ASSUME LifecycleInv, NEW p \in Processes, Serve(p) PROVE LifecycleInv'
<1>1. /\ UNCHANGED <<public, port, socketFile, listening, pidFile, crossed>> /\ phase[p] = "pid"
      /\ Goes(p, "serving") \/ Goes(p, "leaving")
  BY DEF Serve
<1>2. ASSUME NEW f \in {"serving", "leaving"}, Goes(p, f) PROVE LifecycleInv'
  <2>1. /\ phase' = [q \in Processes |-> phase'[q]] /\ phase'[p] = f
        /\ \A q \in Processes : q # p => phase'[q] = phase[q]
    BY <1>2, PhaseMoves
  <2>2. HeldBy(p) /\ \A q \in Others(p) : phase'[q] = phase[q]
    BY <2>1 DEF LifecycleInv, Others
  <2>3. HeldBy(p)'
    BY <1>1, <1>2, <2>1, <2>2 DEF HeldBy, Holders, Bound, Clear
  <2>4. ASSUME NEW q \in Processes, q # p PROVE HeldBy(q)'
    BY <1>1, <1>2, <2>4, OthersKeep DEF LifecycleInv, HeldBy
  <2> QED
    BY <1>1, <2>1, <2>3, <2>4 DEF LifecycleInv
<1> QED
  BY <1>1, <1>2

(* p closes its listener, or has none: whoever is sure of its socket is    *)
(* the only one with a listener.                                           *)
LEMMA ClosingKeeps ==
    ASSUME LifecycleInv, NEW p \in Processes, NEW f \in {"draining", "closing", "releasing", "wired", "off"},
           Goes(p, f), public' = public, pidFile' = pidFile,
           port' = port \/ FreedPort(p),
           \/ listening' = listening /\ socketFile' = socketFile
           \/ listening' = listening \ {p} /\ socketFile' = socketFile
           \/ Closed(p),
           crossed' = crossed \/ crossed' = crossed \ {p}
    PROVE  LifecycleInv'
<1>1. /\ phase' = [q \in Processes |-> phase'[q]] /\ phase'[p] = f
      /\ \A q \in Processes : q # p => phase'[q] = phase[q]
  BY PhaseMoves
<1>2. HeldBy(p)'
  BY <1>1 DEF HeldBy, Holders, Bound
<1>3. ASSUME NEW q \in Processes, q # p PROVE HeldBy(q)'
  <2>1. port = q => port' = q
    BY <1>3 DEF FreedPort
  <2>2. q \in listening => q \in listening'
    BY <1>3 DEF Closed
  <2>3. public /\ phase[q] \in {"dialled", "removed"} => listening' = {}
    BY DEF LifecycleInv, HeldBy, Closed
  <2>4. phase[q] \in Bound /\ Clear(q) => listening' = listening /\ socketFile' = socketFile
    <3>1. phase[q] \in Bound /\ Clear(q) => listening = {q}
      BY DEF LifecycleInv, HeldBy
    <3> QED
      BY <1>3, <3>1 DEF Closed
  <2>5. q \in crossed' <=> q \in crossed
    BY <1>3
  <2> QED
    BY <1>3, <2>1, <2>2, <2>3, <2>4, <2>5, OthersKeep
<1>4. listening' \subseteq Processes /\ (public' => \A q \in listening' : socketFile' = q)
  BY DEF LifecycleInv, Closed
<1> QED
  BY <1>1, <1>2, <1>3, <1>4 DEF LifecycleInv

(* The steps of a stop, but for the pid file, and a kill.                  *)
LEMMA StopKeeps ==
    ASSUME LifecycleInv, NEW p \in Processes,
           StopPublic(p) \/ StopControl(p) \/ ServeFails(p) \/ CloseListener(p) \/ Leave(p) \/ KillServer(p)
    PROVE  LifecycleInv'
<1>1. CASE StopPublic(p)
  BY <1>1, ClosingKeeps DEF StopPublic
<1>2. CASE StopControl(p)
  BY <1>2, ClosingKeeps DEF StopControl
<1>3. CASE ServeFails(p)
  BY <1>3, ClosingKeeps DEF ServeFails
<1>4. CASE CloseListener(p)
  BY <1>4, ClosingKeeps DEF CloseListener
<1>5. CASE Leave(p)
  <2>1. Goes(p, "wired") \/ Goes(p, "off")
    BY <1>5 DEF Leave
  <2>2. /\ public' = public /\ pidFile' = pidFile /\ FreedPort(p)
        /\ listening' = listening /\ socketFile' = socketFile /\ crossed' = crossed \ {p}
    BY <1>5 DEF Leave, Ended
  <2> QED
    BY <2>1, <2>2, ClosingKeeps
<1>6. CASE KillServer(p)
  BY <1>6, ClosingKeeps DEF KillServer, Ended
<1> QED
  BY <1>1, <1>2, <1>3, <1>4, <1>5, <1>6

(* The jobs are closed; the pid file is read, and removed when it was p's: *)
(* whoever wrote another pid since was crossed by that.                    *)
LEMMA ReleaseKeeps ==
    ASSUME LifecycleInv, NEW p \in Processes, CloseJobs(p) \/ ReleasePid(p) \/ RemovePid(p)
    PROVE  LifecycleInv'
<1>1. /\ UNCHANGED <<public, port, socketFile, listening, crossed>>
      /\ pidFile' = pidFile \/ phase[p] = "matched"
  BY DEF CloseJobs, ReleasePid, RemovePid, heldVars
<1>2. PICK f \in {"leaving", "matched", "unbinding"} : Goes(p, f) /\ (f = "matched" => pidFile = p)
  BY DEF CloseJobs, ReleasePid, RemovePid
<1>3. /\ phase' = [q \in Processes |-> phase'[q]] /\ phase'[p] = f
      /\ \A q \in Processes : q # p => phase'[q] = phase[q]
  BY <1>2, PhaseMoves
<1>4. HeldBy(p)'
  BY <1>2, <1>3 DEF HeldBy, Holders, Bound
<1>5. ASSUME NEW q \in Processes, q # p PROVE HeldBy(q)'
  <2>1. phase[q] \in {"pid", "serving"} /\ q \notin crossed => pidFile = q /\ phase[p] # "matched"
    BY <1>5 DEF LifecycleInv, HeldBy, Others
  <2>2. public /\ phase[q] \in {"dialled", "removed"} => listening' = {}
    BY <1>1 DEF LifecycleInv, HeldBy
  <2> QED
    BY <1>1, <1>2, <1>5, <2>1, <2>2, OthersKeep
<1> QED
  BY <1>1, <1>3, <1>4, <1>5 DEF LifecycleInv

(* A server that serves can be reached and stopped (daemon.Run,            *)
(* control.Listen, ReleasePid), however many processes start, stop,        *)
(* restart, fail or are killed around it: its listener is open; with a     *)
(* public address its port and socket are its own; without one the socket  *)
(* is, unless another process was starting or had a listener when it was   *)
(* made; and so is the pid file, unless another process was between        *)
(* reading and removing it when it was written.                            *)
THEOREM ServingIsReachable == LifecycleSpec => []ServerReachable
<1>1. LifecycleInit => LifecycleInv
  BY DEF LifecycleInit, LifecycleInv, HeldBy, Holders, Bound
<1>2. LifecycleInv /\ [LifecycleNext]_lifecycleVars => LifecycleInv'
  <2> SUFFICES ASSUME LifecycleInv, [LifecycleNext]_lifecycleVars PROVE LifecycleInv'
    OBVIOUS
  <2>1. CASE UNCHANGED <<phase, heldVars>>
    BY <2>1 DEF heldVars, LifecycleInv, HeldBy, Clear
  <2>2. ASSUME NEW p \in Processes, RequestRestart(p) \/ RequestStop(p) PROVE UNCHANGED <<phase, heldVars>>
    BY <2>2 DEF RequestRestart, RequestStop
  <2>3. SignalStop \/ UNCHANGED lifecycleVars => UNCHANGED <<phase, heldVars>>
    BY DEF SignalStop, lifecycleVars
  <2>4. QED
    BY <2>1, <2>2, <2>3, StartKeeps, OpenPortKeeps, DialSocketKeeps, RemoveSocketKeeps, BindSocketKeeps,
       WritePidKeeps, StartFailsKeeps, ServeKeeps, StopKeeps, ReleaseKeeps DEF LifecycleNext
<1>3. LifecycleInv => ServerReachable
  BY DEF LifecycleInv, HeldBy, Holders, Bound, Clear, ServerReachable
<1>4. QED
  BY <1>1, <1>2, <1>3, PTL DEF LifecycleSpec

----------------------------------------------------------------------------
(* Uploads. *)

(* What the request under way relies on: its chunk fits the file it is     *)
(* for, and between the look and the write nobody else touches the part.   *)
ChunkOK ==
    /\ chunk.at \in {"none", "look", "write", "hash"}
    /\ chunk.at # "none" =>
         /\ chunk.digest \in Digests /\ chunk.offset \in Nat /\ chunk.data \in Seq(Nat)
         /\ Len(chunk.data) <= 1 /\ (Len(chunk.data) = 1 => chunk.offset < Size(chunk.digest))
         /\ chunk.from \in Pushers /\ (chunk.lost \/ push[chunk.from].at = "wait")
    /\ chunk.at \in {"write", "hash"} => chunk.digest \in DOMAIN parts
    /\ chunk.at = "write" => Len(parts[chunk.digest]) = chunk.offset

PushOK(k) == k.at \in {"send", "wait"} => k.digest \in Digests /\ k.offset \in Nat

UploadInv ==
    /\ DOMAIN parts \subseteq Digests /\ DOMAIN wholes \subseteq Digests
    /\ \A d \in DOMAIN parts : parts[d] \in Seq(Nat) /\ Len(parts[d]) <= Size(d)
    /\ \A d \in DOMAIN wholes : wholes[d] = Content[d]
    /\ sources \in [Pushers -> [Digests -> Seq(Nat)]]
    /\ push = [p \in Pushers |-> push[p]] /\ \A p \in Pushers : PushOK(push[p])
    /\ ChunkOK

(* Sizes are numbers.                                                      *)
LEMMA SizeIsNat == \A d \in Digests : Content[d] \in Seq(Nat) /\ Size(d) \in Nat /\ Size(d) = Len(Content[d])
BY UploadAssumption DEF Size

(* What the answer to a chunk, or its refusal, does to the client.         *)
LEMMA AnswerKeepsPush ==
    ASSUME UploadInv, chunk.at # "none", NEW offset \in Nat, NEW complete,
           ChunkAnswered(chunk.from, offset, complete) \/ Refuse(chunk.from)
    PROVE  push' = [q \in Pushers |-> push'[q]] /\ \A q \in Pushers : PushOK(push[q])'
<1> DEFINE p == chunk.from
<1> PICK k : k = [at |-> "send", digest |-> push[p].digest, offset |-> offset]
  OBVIOUS
<1>1. k.at = "send" /\ k.digest = push[p].digest /\ k.offset = offset /\ NoPush.at = "idle"
  BY DEF NoPush
<1>2. p \in Pushers /\ (chunk.lost \/ PushOK(k))
  BY <1>1 DEF UploadInv, ChunkOK, PushOK
<1>3. \/ push' = [push EXCEPT ![p] = push[p]]
      \/ push' = [push EXCEPT ![p] = NoPush]
      \/ ~ chunk.lost /\ push' = [push EXCEPT ![p] = k]
  BY DEF ChunkAnswered, Refuse
<1>4. QED
  BY <1>1, <1>2, <1>3 DEF UploadInv, PushOK

(* The look at the directory.                                              *)
LEMMA LookKeepsUploads == ASSUME UploadInv, ChunkLook PROVE UploadInv'
<1> DEFINE d == chunk.digest
           keptParts == WithoutFiles(parts, {e \in DOMAIN parts : <<"part", e>> \in stale})
           keptWholes == WithoutFiles(wholes, {e \in DOMAIN wholes : <<"whole", e>> \in stale})
           part == IF d \in DOMAIN keptParts THEN keptParts[d] ELSE <<>>
<1>1. /\ chunk.at = "look" /\ d \in Digests /\ sources' = sources
      /\ chunk.at # "none"
  BY DEF ChunkLook, UploadInv, ChunkOK
<1>2. \/ /\ ChunkAnswered(chunk.from, Size(d), TRUE) /\ chunk' = NoChunk
         /\ parts' = parts /\ wholes' = wholes
      \/ /\ wholes' = keptWholes /\ parts' = keptParts /\ Refuse(chunk.from)
      \/ /\ wholes' = keptWholes /\ parts' = PutIn(keptParts, d, part)
         /\ ChunkAnswered(chunk.from, Len(part), FALSE) /\ chunk' = NoChunk
      \/ /\ wholes' = keptWholes /\ parts' = PutIn(keptParts, d, part)
         /\ Len(part) = chunk.offset /\ chunk' = [chunk EXCEPT !.at = "write"] /\ push' = push
  BY DEF ChunkLook
<1>3. /\ DOMAIN keptParts \subseteq DOMAIN parts /\ \A e \in DOMAIN keptParts : keptParts[e] = parts[e]
      /\ DOMAIN keptWholes \subseteq DOMAIN wholes /\ \A e \in DOMAIN keptWholes : keptWholes[e] = wholes[e]
  BY DEF WithoutFiles, Restrict
<1> HIDE DEF keptParts, keptWholes
<1>4. part \in Seq(Nat) /\ Len(part) <= Size(d) /\ Len(part) \in Nat
  BY <1>1, <1>3, SizeIsNat DEF UploadInv
<1> HIDE DEF part
<1>5. /\ DOMAIN PutIn(keptParts, d, part) = DOMAIN keptParts \union {d} /\ PutIn(keptParts, d, part)[d] = part
      /\ \A e \in DOMAIN keptParts : e # d => PutIn(keptParts, d, part)[e] = keptParts[e]
  BY DEF PutIn
<1>6. /\ DOMAIN parts' \subseteq Digests /\ DOMAIN wholes' \subseteq Digests
      /\ \A e \in DOMAIN parts' : parts'[e] \in Seq(Nat) /\ Len(parts'[e]) <= Size(e)
      /\ \A e \in DOMAIN wholes' : wholes'[e] = Content[e]
  BY <1>1, <1>2, <1>3, <1>4, <1>5 DEF UploadInv
<1>7. CASE chunk' = NoChunk /\ push' = [q \in Pushers |-> push'[q]] /\ \A q \in Pushers : PushOK(push[q])'
  BY <1>1, <1>6, <1>7 DEF UploadInv, ChunkOK, NoChunk
<1>8. CASE chunk' = [chunk EXCEPT !.at = "write"] /\ push' = push /\ parts' = PutIn(keptParts, d, part)
           /\ Len(part) = chunk.offset
  <2>1. /\ chunk'.at = "write" /\ chunk'.digest = d /\ chunk'.offset = chunk.offset /\ chunk'.data = chunk.data
        /\ chunk'.from = chunk.from /\ chunk'.lost = chunk.lost
    BY <1>8, <1>1 DEF UploadInv, ChunkOK
  <2>2. ChunkOK'
    BY <1>1, <1>5, <1>8, <2>1 DEF UploadInv, ChunkOK, Size
  <2>3. QED
    BY <1>1, <1>6, <1>8, <2>2 DEF UploadInv, PushOK
<1>9. Size(d) \in Nat
  BY <1>1, SizeIsNat
<1>10. QED
  BY <1>1, <1>2, <1>4, <1>7, <1>8, <1>9, AnswerKeepsPush DEF Refuse

(* A chunk appended to a part that ends where the chunk begins.            *)
LEMMA Appended ==
    ASSUME NEW part \in Seq(Nat), NEW data \in Seq(Nat), Len(data) <= 1,
           NEW size \in Nat, Len(data) = 1 => Len(part) < size, Len(part) <= size
    PROVE  part \o data \in Seq(Nat) /\ Len(part \o data) \in Nat /\ Len(part \o data) <= size
<1>1. Len(part) \in Nat /\ Len(data) \in Nat
  BY LenProperties
<1>2. part \o data \in Seq(Nat) /\ Len(part \o data) = Len(part) + Len(data)
  BY ConcatProperties
<1>3. ASSUME NEW m \in Nat, NEW n \in Nat, n <= 1, n = 1 => m < size, m <= size PROVE m + n \in Nat /\ m + n <= size
  BY <1>3
<1>4. QED
  BY <1>1, <1>2, <1>3

(* The chunk is appended: it is for where the part ends and fits the file. *)
LEMMA WriteKeepsUploads == ASSUME UploadInv, ChunkWrite PROVE UploadInv'
<1> DEFINE d == chunk.digest
           part == parts[d] \o chunk.data
<1>1. /\ chunk.at = "write" /\ d \in Digests /\ d \in DOMAIN parts /\ sources' = sources /\ wholes' = wholes
      /\ parts' = [parts EXCEPT ![d] = part]
  BY DEF ChunkWrite, UploadInv, ChunkOK
<1>2. /\ parts[d] \in Seq(Nat) /\ chunk.data \in Seq(Nat) /\ Size(d) \in Nat
      /\ Len(chunk.data) <= 1 /\ (Len(chunk.data) = 1 => Len(parts[d]) < Size(d)) /\ Len(parts[d]) <= Size(d)
  BY <1>1, SizeIsNat DEF UploadInv, ChunkOK
<1>3. part \in Seq(Nat) /\ Len(part) \in Nat /\ Len(part) <= Size(d)
  BY <1>2, Appended
<1> HIDE DEF part
<1>4. /\ DOMAIN parts' = DOMAIN parts
      /\ \A e \in DOMAIN parts' : parts'[e] \in Seq(Nat) /\ Len(parts'[e]) <= Size(e)
  BY <1>1, <1>3 DEF UploadInv
<1>5. CASE ChunkAnswered(chunk.from, Len(part), FALSE) /\ chunk' = NoChunk
  BY <1>1, <1>3, <1>4, <1>5, AnswerKeepsPush DEF UploadInv, ChunkOK, NoChunk
<1>6. CASE chunk' = [chunk EXCEPT !.at = "hash"] /\ push' = push
  <2>1. /\ chunk'.at = "hash" /\ chunk'.digest = d /\ chunk'.offset = chunk.offset /\ chunk'.data = chunk.data
        /\ chunk'.from = chunk.from /\ chunk'.lost = chunk.lost
    BY <1>6, <1>1 DEF UploadInv, ChunkOK
  <2>2. ChunkOK'
    BY <1>1, <1>4, <1>6, <2>1 DEF UploadInv, ChunkOK, Size
  <2>3. QED
    BY <1>1, <1>4, <1>6, <2>2 DEF UploadInv, PushOK
<1>7. QED
  BY <1>5, <1>6 DEF ChunkWrite, part

(* The part gets its name only when it is the file with that hash.         *)
LEMMA HashKeepsUploads == ASSUME UploadInv, ChunkHash PROVE UploadInv'
<1> DEFINE d == chunk.digest
<1>1. /\ chunk.at = "hash" /\ d \in Digests /\ d \in DOMAIN parts /\ sources' = sources
      /\ parts' = WithoutFiles(parts, {d}) /\ chunk' = NoChunk
  BY DEF ChunkHash, UploadInv, ChunkOK, Refuse
<1>2. DOMAIN parts' \subseteq DOMAIN parts /\ \A e \in DOMAIN parts' : parts'[e] = parts[e]
  BY <1>1 DEF WithoutFiles, Restrict
<1>3. DOMAIN wholes' \subseteq Digests /\ \A e \in DOMAIN wholes' : wholes'[e] = Content[e]
  <2>1. CASE HashRight(d)
    <3>1. wholes' = PutIn(wholes, d, Content[d])
      BY <2>1 DEF ChunkHash, HashRight
    <3>2. QED
      BY <1>1, <3>1 DEF UploadInv, PutIn
  <2>2. CASE ~ HashRight(d)
    BY <2>2 DEF ChunkHash, UploadInv
  <2>3. QED
    BY <2>1, <2>2
<1>4. push' = [q \in Pushers |-> push'[q]] /\ \A q \in Pushers : PushOK(push[q])'
  <2>1. ChunkAnswered(chunk.from, Size(d), TRUE) \/ Refuse(chunk.from)
    BY DEF ChunkHash
  <2>2. QED
    BY <1>1, <2>1, SizeIsNat, AnswerKeepsPush
<1>5. QED
  BY <1>1, <1>2, <1>3, <1>4 DEF UploadInv, ChunkOK, NoChunk

(* The client begins a file, or sends the next piece of what it reads.     *)
LEMMA ClientKeepsUploads ==
    ASSUME UploadInv, NEW p \in Pushers, PushSend(p) \/ \E d \in Digests : PushStart(p, d)
    PROVE  UploadInv'
<1> parts' = parts /\ wholes' = wholes /\ sources' = sources
  BY DEF PushSend, PushStart
<1>1. ASSUME NEW k, push' = [push EXCEPT ![p] = k], PushOK(k)
      PROVE  /\ push' = [q \in Pushers |-> push'[q]] /\ \A q \in Pushers : PushOK(push[q])'
             /\ push'[p] = k /\ \A q \in Pushers : q # p => push'[q] = push[q]
  BY <1>1 DEF UploadInv, PushOK
<1>2. ASSUME NEW d \in Digests, PushStart(p, d) PROVE UploadInv'
  <2> PICK k : k = [at |-> "send", digest |-> d, offset |-> 0]
    OBVIOUS
  <2>1. PushOK(k) /\ push' = [push EXCEPT ![p] = k] /\ push[p].at = "idle" /\ chunk' = chunk
    BY <1>2 DEF PushOK, PushStart
  <2>2. chunk.at # "none" => chunk.lost \/ chunk.from # p
    BY <2>1 DEF UploadInv, ChunkOK
  <2>3. ChunkOK'
    BY <1>1, <2>1, <2>2 DEF UploadInv, ChunkOK
  <2>4. QED
    BY <1>1, <2>1, <2>3 DEF UploadInv
<1>3. CASE PushSend(p) /\ chunk.at # "none"
  <2>1. push' = [push EXCEPT ![p] = NoPush] /\ chunk' = chunk /\ PushOK(NoPush) /\ push[p].at = "send"
    BY <1>3 DEF PushSend, PushOK, NoPush
  <2>2. chunk.lost \/ chunk.from # p
    BY <1>3, <2>1 DEF UploadInv, ChunkOK
  <2>3. ChunkOK'
    BY <1>1, <2>1, <2>2 DEF UploadInv, ChunkOK
  <2>4. QED
    BY <1>1, <2>1, <2>3 DEF UploadInv
<1>4. CASE PushSend(p) /\ chunk.at = "none"
  <2> DEFINE d == push[p].digest
             source == sources[p][d]
             next == push[p].offset + 1
             data == IF next <= Len(source) /\ next <= Size(d) THEN <<source[next]>> ELSE <<>>
  <2> PICK k : k = [push[p] EXCEPT !.at = "wait"]
    OBVIOUS
  <2>1. push[p].at = "send" /\ d \in Digests /\ push[p].offset \in Nat /\ source \in Seq(Nat)
    BY <1>4 DEF PushSend, UploadInv, PushOK
  <2>2. k.at = "wait" /\ k.digest = d /\ k.offset = push[p].offset
    BY <2>1
  <2>3. push' = [push EXCEPT ![p] = k] /\ PushOK(k)
    BY <1>4, <2>1, <2>2 DEF PushSend, PushOK
  <2>4. data \in Seq(Nat) /\ Len(data) <= 1 /\ (Len(data) = 1 => push[p].offset < Size(d))
    <3>1. CASE next <= Len(source) /\ next <= Size(d)
      <4>1. next \in Nat /\ next \in 1..Len(source) /\ push[p].offset < Size(d)
        BY <2>1, <3>1, SizeIsNat
      <4>2. source[next] \in Nat
        BY <4>1, <2>1, ElementOfSeq
      <4>3. QED
        BY <3>1, <4>1, <4>2
    <3>2. CASE ~ (next <= Len(source) /\ next <= Size(d))
      BY <3>2
    <3>3. QED
      BY <3>1, <3>2
  <2>5. chunk' = [at |-> "look", from |-> p, lost |-> FALSE, digest |-> d, offset |-> push[p].offset, data |-> data]
    BY <1>4 DEF PushSend
  <2> HIDE DEF data
  <2>6. /\ chunk'.at = "look" /\ chunk'.from = p /\ chunk'.digest = d /\ chunk'.offset = push[p].offset
        /\ chunk'.data = data
    BY <2>5
  <2>7. push'[p].at = "wait"
    BY <1>1, <2>2, <2>3
  <2>8. ChunkOK'
    BY <2>1, <2>4, <2>6, <2>7 DEF ChunkOK, Size
  <2>9. QED
    BY <1>1, <2>3, <2>8 DEF UploadInv
<1>5. QED
  BY <1>2, <1>3, <1>4

(* What goes wrong: edits, lost answers, deaths and days.                  *)
LEMMA TroubleKeepsUploads ==
    ASSUME UploadInv,
           ServerDies \/ DayPasses \/ \E p \in Pushers : LoseAnswer(p) \/ \E d \in Digests, draft \in Drafts : EditSource(p, d, draft)
    PROVE  UploadInv'
<1> parts' = parts /\ wholes' = wholes
  BY DEF ServerDies, DayPasses, LoseAnswer, EditSource
<1>1. CASE ServerDies
  BY <1>1 DEF ServerDies, UploadInv, ChunkOK, PushOK, NoChunk, NoPush
<1>2. CASE DayPasses
  BY <1>2 DEF DayPasses, UploadInv, ChunkOK, PushOK
<1>3. ASSUME NEW p \in Pushers, LoseAnswer(p) PROVE UploadInv'
  <2>1. CASE chunk.at # "none"
    <3>1. /\ chunk'.at = chunk.at /\ chunk'.from = chunk.from /\ chunk'.digest = chunk.digest
          /\ chunk'.offset = chunk.offset /\ chunk'.data = chunk.data /\ chunk'.lost
      BY <1>3, <2>1 DEF LoseAnswer, UploadInv, ChunkOK
    <3>2. ChunkOK'
      BY <2>1, <3>1 DEF UploadInv, ChunkOK, Size
    <3>3. QED
      BY <1>3, <3>2 DEF LoseAnswer, UploadInv, PushOK, NoPush
  <2>2. CASE chunk.at = "none"
    <3>1. chunk'.at = "none"
      BY <1>3, <2>2 DEF LoseAnswer
    <3>2. QED
      BY <1>3, <3>1 DEF LoseAnswer, UploadInv, ChunkOK, PushOK, NoPush
  <2>3. QED
    BY <2>1, <2>2
<1>4. ASSUME NEW p \in Pushers, NEW d \in Digests, NEW draft \in Drafts, EditSource(p, d, draft) PROVE UploadInv'
  <2>1. draft \in Seq(Nat)
    BY UploadAssumption
  <2>2. sources' \in [Pushers -> [Digests -> Seq(Nat)]]
    BY <1>4, <2>1 DEF EditSource, UploadInv
  <2>3. QED
    BY <1>4, <2>2 DEF EditSource, UploadInv, ChunkOK, PushOK
<1>5. QED
  BY <1>1, <1>2, <1>3, <1>4

(* A part beside a file, and a file under its hash, are what they should   *)
(* be at the beginning and after every step.                               *)
LEMMA UploadsHold ==
    /\ UploadInit => UploadInv
    /\ UploadInv /\ [UploadNext]_uploadVars => UploadInv'
    /\ UploadInv => HashHolds
<1>1. UploadInit => UploadInv
  BY UploadAssumption DEF UploadInit, UploadInv, ChunkOK, PushOK, NoChunk, NoPush
<1>2. UploadInv /\ UNCHANGED uploadVars => UploadInv'
  BY DEF uploadVars, UploadInv, ChunkOK, PushOK
<1>3. UploadInv /\ UploadNext => UploadInv'
  BY LookKeepsUploads, WriteKeepsUploads, HashKeepsUploads, ClientKeepsUploads, TroubleKeepsUploads DEF UploadNext
<1>4. UploadInv => HashHolds
  BY DEF UploadInv, HashHolds
<1>5. QED
  BY <1>1, <1>2, <1>3, <1>4

----------------------------------------------------------------------------
(* Backup. *)

(* Items of an archive, finished or growing: no path twice, and what is    *)
(* not a database is a content the file had.                               *)
Item == [path : Paths, body : Seq(Nat)]

ItemsOK(items) ==
    /\ items \in Seq(Item)
    /\ \A k, l \in DOMAIN items : items[k].path = items[l].path => k = l
    /\ \A k \in DOMAIN items : items[k].path \notin Databases => items[k].body \in had[items[k].path]

(* A command.  Between stat and the end of the copy the path is on disk    *)
(* and not among the items; a copy is a beginning of what was opened, and  *)
(* no longer than the header says.                                         *)
TaskOK(k) ==
    /\ k.at \in {"idle", "stat", "open", "copy", "restore", "write"}
    /\ k.at \in {"stat", "open", "copy"} => ItemsOK(k.items) /\ k.next \in Nat \ {0}
    /\ k.at \in {"open", "copy"} =>
         /\ k.next \in 1..Len(SourceOrder) /\ k.size \in Nat
         /\ SourceOrder[k.next] \in DOMAIN pages /\ ~ Seen(k.items, SourceOrder[k.next])
    /\ k.at = "copy" =>
         /\ k.opened \in Seq(Nat) /\ k.opened \in had[SourceOrder[k.next]] /\ k.body \in Seq(Nat)
         /\ Len(k.body) <= k.size
         /\ SourceOrder[k.next] \notin Databases =>
              Len(k.body) <= Len(k.opened) /\ \A i \in 1..Len(k.body) : k.body[i] = k.opened[i]
    /\ k.at \in {"restore", "write"} => k.items \in Seq(Item)
    /\ k.at = "write" => k.items # <<>>

BackupInv ==
    /\ had \in [Paths -> SUBSET Seq(Nat)] /\ writes \in Nat
    /\ DOMAIN pages \subseteq Paths /\ \A path \in DOMAIN pages : pages[path] \in had[path]
    /\ \A dest \in DOMAIN archives : ItemsOK(archives[dest]) /\ archives[dest] # <<>>
    /\ tasks = [c \in BackupTasks |-> tasks[c]]
    /\ \A c \in BackupTasks : TaskOK(tasks[c])

(* Every place of the list of sources names a path.                        *)
LEMMA SourcesArePaths ==
    /\ Len(SourceOrder) \in Nat
    /\ \A i \in 1..Len(SourceOrder) : SourceOrder[i] \in Paths
<1>1. SourceOrder \in Seq(Range(SourceOrder))
  BY BackupAssumption
<1>2. QED
  BY <1>1, LenProperties, ElementOfSeq DEF Paths

(* A file gets a content: everything that was good stays good.             *)
LEMMA PutKeeps ==
    ASSUME BackupInv, NEW path \in Paths, NEW body \in Seq(Nat), Put(path, body)
    PROVE  /\ had' \in [Paths -> SUBSET Seq(Nat)]
           /\ \A p \in Paths : had[p] \subseteq had'[p]
           /\ DOMAIN pages \subseteq DOMAIN pages' /\ DOMAIN pages' \subseteq Paths
           /\ \A p \in DOMAIN pages' : pages'[p] \in had'[p]
<1>1. had' = [had EXCEPT ![path] = @ \union {body}]
  BY DEF Put
<1>2. /\ had' \in [Paths -> SUBSET Seq(Nat)] /\ had'[path] = had[path] \union {body}
      /\ \A p \in Paths : p # path => had'[p] = had[p]
  BY <1>1 DEF BackupInv
<1>3. pages' = [p \in DOMAIN pages \union {path} |-> IF p = path THEN body ELSE pages[p]]
  BY DEF Put
<1>4. QED
  BY <1>2, <1>3 DEF BackupInv

(* Every item of a list is an item.                                        *)
LEMMA ItemAt ==
    ASSUME NEW items \in Seq(Item)
    PROVE  DOMAIN items = 1..Len(items) /\ \A k \in DOMAIN items : items[k] \in Item
BY LenProperties, ElementOfSeq

(* More contents in the history leave a good list of items good.           *)
LEMMA ItemsStay ==
    ASSUME \A p \in Paths : had[p] \subseteq had'[p], NEW items, ItemsOK(items)
    PROVE  ItemsOK(items)'
<1>1. \A k \in DOMAIN items : items[k].path \in Paths
  <2>1. \A k \in DOMAIN items : items[k] \in Item
    BY ItemAt DEF ItemsOK
  <2>2. QED
    BY <2>1 DEF Item
<1>2. QED
  BY <1>1 DEF ItemsOK

(* More contents and more files on disk leave a good command good.         *)
LEMMA TaskStays ==
    ASSUME \A p \in Paths : had[p] \subseteq had'[p], DOMAIN pages \subseteq DOMAIN pages',
           NEW k, TaskOK(k)
    PROVE  TaskOK(k)'
<1>1. k.at \in {"stat", "open", "copy"} => ItemsOK(k.items)'
  BY ItemsStay DEF TaskOK
<1>2. k.at \in {"open", "copy"} => SourceOrder[k.next] \in Paths
  BY SourcesArePaths DEF TaskOK
<1>3. QED
  BY <1>1, <1>2 DEF TaskOK, Seen

(* A step of one command that leaves the files alone.                      *)
LEMMA TaskMoves ==
    ASSUME BackupInv, NEW c \in BackupTasks, NEW k, tasks' = [tasks EXCEPT ![c] = k], TaskOK(k),
           pages' = pages, had' = had, writes' = writes, archives' = archives
    PROVE  BackupInv'
<1>1. /\ tasks' = [d \in BackupTasks |-> tasks'[d]]
      /\ \A d \in BackupTasks : tasks'[d] = IF d = c THEN k ELSE tasks[d]
  BY DEF BackupInv
<1>2. \A d \in BackupTasks : TaskOK(tasks'[d])
  BY <1>1 DEF BackupInv
<1>3. \A d \in BackupTasks : TaskOK(tasks[d])'
  BY <1>2 DEF TaskOK, ItemsOK, Seen
<1>4. \A dest \in DOMAIN archives' : ItemsOK(archives[dest])' /\ archives'[dest] # <<>>
  BY DEF BackupInv, ItemsOK
<1>5. QED
  BY <1>1, <1>3, <1>4 DEF BackupInv

(* A write to a file, by the server or a restore, with what the command    *)
(* that makes it goes on to.                                               *)
LEMMA PutStep ==
    ASSUME BackupInv, NEW path \in Paths, NEW body \in Seq(Nat), Put(path, body),
           archives' = archives, writes' \in Nat,
           tasks' = [d \in BackupTasks |-> tasks'[d]], \A d \in BackupTasks : TaskOK(tasks'[d])
    PROVE  BackupInv'
<1>1. /\ had' \in [Paths -> SUBSET Seq(Nat)]
      /\ \A p \in Paths : had[p] \subseteq had'[p]
      /\ DOMAIN pages \subseteq DOMAIN pages' /\ DOMAIN pages' \subseteq Paths
      /\ \A p \in DOMAIN pages' : pages'[p] \in had'[p]
  BY PutKeeps
<1>3. ASSUME NEW d \in BackupTasks PROVE TaskOK(tasks[d])'
  <2> PICK k : k = tasks'[d]
    OBVIOUS
  <2>1. TaskOK(k)'
    BY <1>1, TaskStays
  <2>2. QED
    BY <2>1
<1>4. ASSUME NEW dest \in DOMAIN archives PROVE ItemsOK(archives[dest])'
  <2> PICK items : items = archives[dest]
    OBVIOUS
  <2>1. ItemsOK(items)'
    BY <1>1, ItemsStay DEF BackupInv
  <2>2. QED
    BY <2>1
<1>5. QED
  BY <1>1, <1>3, <1>4 DEF BackupInv

(* The server's own writes.                                                *)
LEMMA ServerWritesKeep ==
    ASSUME BackupInv, NEW path \in Paths, NEW i \in 1..MaxPages, ReplaceFile(path, i) \/ WritePage(path, i)
    PROVE  BackupInv'
<1>1. /\ archives' = archives /\ tasks' = tasks /\ writes' = writes + 1 /\ writes' \in Nat
  BY DEF ReplaceFile, WritePage, BackupInv
<1>2. i \in Nat
  BY BackupAssumption
<1>3. PICK body \in Seq(Nat) : Put(path, body)
  <2>1. CASE ReplaceFile(path, i)
    <3> DEFINE body == [j \in 1..i |-> writes']
    <3>1. body \in Seq(Nat)
      BY <1>1, <1>2
    <3>2. Put(path, body)
      BY <2>1 DEF ReplaceFile
    <3>3. QED
      BY <3>1, <3>2
  <2>2. CASE WritePage(path, i)
    <3> DEFINE n == IF i > Len(pages[path]) THEN i ELSE Len(pages[path])
               body == [j \in 1..n |-> IF i = j THEN writes' ELSE pages[path][j]]
    <3>1. pages[path] \in Seq(Nat)
      BY <2>2 DEF WritePage, Exists, BackupInv
    <3>2. Len(pages[path]) \in Nat /\ \A j \in 1..Len(pages[path]) : pages[path][j] \in Nat
      BY <3>1, LenProperties, ElementOfSeq
    <3>3. i \in 1..(Len(pages[path]) + 1)
      BY <2>2 DEF WritePage
    <3>4. n \in Nat /\ \A j \in 1..n : i = j \/ j \in 1..Len(pages[path])
      BY <1>2, <3>2, <3>3
    <3> HIDE DEF n
    <3>5. body \in [1..n -> Nat]
      BY <1>1, <3>2, <3>4
    <3>6. body \in Seq(Nat)
      BY <3>4, <3>5
    <3>7. Put(path, body)
      BY <2>2 DEF WritePage, n
    <3>8. QED
      BY <3>6, <3>7
  <2>3. QED
    BY <2>1, <2>2
<1>4. tasks' = [d \in BackupTasks |-> tasks'[d]] /\ \A d \in BackupTasks : TaskOK(tasks'[d])
  BY <1>1 DEF BackupInv
<1>5. QED
  BY <1>1, <1>3, <1>4, PutStep

(* A backup begins, a restore begins, either ends or is killed.            *)
LEMMA BeginsAndEndsKeep ==
    ASSUME BackupInv, NEW c \in BackupTasks,
           \/ \E dest \in Targets : CreateBegin(c, dest)
           \/ \E dest \in DOMAIN archives, force \in BOOLEAN : RestoreBegin(c, dest, force)
           \/ RestoreEnd(c) \/ BackupKilled(c)
    PROVE  BackupInv'
<1> pages' = pages /\ had' = had /\ writes' = writes /\ archives' = archives
  BY DEF CreateBegin, CreateTemp, RestoreBegin, RestoreEnd, BackupKilled
<1>1. ASSUME NEW dest \in Targets, CreateBegin(c, dest) PROVE BackupInv'
  <2> PICK k : k = [at |-> "stat", target |-> dest, next |-> 1, items |-> <<>>]
    OBVIOUS
  <2>1. ItemsOK(<<>>)
    BY DEF ItemsOK
  <2>2. k.at = "stat" /\ k.next = 1 /\ k.items = <<>>
    OBVIOUS
  <2>3. TaskOK(k)
    BY <2>1, <2>2 DEF TaskOK
  <2>4. QED
    BY <1>1, <2>3, TaskMoves DEF CreateBegin
<1>2. ASSUME NEW dest \in DOMAIN archives, NEW force, RestoreBegin(c, dest, force) PROVE BackupInv'
  <2> PICK k : k = [at |-> "restore", items |-> archives[dest], force |-> force]
    OBVIOUS
  <2>1. k.at = "restore" /\ k.items = archives[dest]
    OBVIOUS
  <2>2. TaskOK(k)
    BY <2>1 DEF TaskOK, BackupInv, ItemsOK
  <2>3. QED
    BY <1>2, <2>2, TaskMoves DEF RestoreBegin
<1>3. CASE RestoreEnd(c) \/ BackupKilled(c)
  <2>1. tasks' = [tasks EXCEPT ![c] = NoTask]
    BY <1>3 DEF RestoreEnd, BackupKilled, TaskEnds
  <2>2. TaskOK(NoTask)
    BY DEF NoTask, TaskOK
  <2>3. QED
    BY <2>1, <2>2, TaskMoves
<1>4. QED
  BY <1>1, <1>2, <1>3

(* A path is looked at and its file opened.                                *)
LEMMA OpeningKeeps ==
    ASSUME BackupInv, NEW c \in BackupTasks, CreateStat(c) \/ CreateOpen(c) PROVE BackupInv'
<1> pages' = pages /\ had' = had /\ writes' = writes /\ archives' = archives
  BY DEF CreateStat, CreateOpen
<1> DEFINE task == tasks[c]
           path == SourceOrder[task.next]
<1>1. TaskOK(task)
  BY DEF BackupInv
<1>2. CASE CreateStat(c)
  <2>1. task.at = "stat" /\ task.next \in Nat \ {0} /\ task.next <= Len(SourceOrder) /\ ItemsOK(task.items)
    BY <1>1, <1>2 DEF CreateStat, TaskAt, TaskOK
  <2>2. CASE Seen(task.items, path) \/ ~ Exists(path)
    <3> PICK k : k = [task EXCEPT !.next = task.next + 1]
      OBVIOUS
    <3>1. k.at = "stat" /\ k.next = task.next + 1 /\ k.items = task.items
      BY <2>1
    <3>2. TaskOK(k)
      BY <2>1, <3>1 DEF TaskOK
    <3>3. tasks' = [tasks EXCEPT ![c] = k]
      BY <1>2, <2>2 DEF CreateStat
    <3>4. QED
      BY <3>2, <3>3, TaskMoves
  <2>3. CASE ~ (Seen(task.items, path) \/ ~ Exists(path))
    <3> PICK k : k = [at |-> "open", target |-> task.target, next |-> task.next, items |-> task.items,
                      size |-> Len(pages[path])]
      OBVIOUS
    <3>1. k.at = "open" /\ k.next = task.next /\ k.items = task.items /\ k.size = Len(pages[path])
      OBVIOUS
    <3>2. path \in DOMAIN pages /\ path \in Paths
      BY <2>3 DEF Exists, BackupInv
    <3>3. pages[path] \in Seq(Nat)
      BY <3>2 DEF BackupInv
    <3>4. Len(pages[path]) \in Nat /\ task.next \in 1..Len(SourceOrder)
      BY <3>3, <2>1, LenProperties, SourcesArePaths
    <3>5. TaskOK(k)
      BY <2>1, <2>3, <3>1, <3>2, <3>4 DEF TaskOK
    <3>6. tasks' = [tasks EXCEPT ![c] = k]
      BY <1>2, <2>3 DEF CreateStat
    <3>7. QED
      BY <3>5, <3>6, TaskMoves
  <2>4. QED
    BY <2>2, <2>3
<1>3. CASE CreateOpen(c)
  <2>1. /\ task.at = "open" /\ task.next \in 1..Len(SourceOrder) /\ ItemsOK(task.items) /\ task.next \in Nat \ {0}
        /\ task.size \in Nat /\ path \in DOMAIN pages /\ ~ Seen(task.items, path)
    BY <1>1, <1>3 DEF CreateOpen, TaskAt, TaskOK
  <2> PICK k : k = [at |-> "copy", target |-> task.target, next |-> task.next, items |-> task.items,
                    size |-> task.size, opened |-> pages[path], body |-> <<>>]
    OBVIOUS
  <2>2. /\ k.at = "copy" /\ k.next = task.next /\ k.items = task.items /\ k.size = task.size
        /\ k.opened = pages[path] /\ k.body = <<>>
    OBVIOUS
  <2>3. pages[path] \in had[path] /\ pages[path] \in Seq(Nat)
    BY <2>1 DEF BackupInv
  <2>4. 0 <= Len(pages[path]) /\ 0 <= task.size
    BY <2>1, <2>3, LenProperties
  <2>5. k.body \in Seq(Nat) /\ Len(k.body) = 0
    BY <2>2
  <2>6. TaskOK(k)
    BY <2>1, <2>2, <2>3, <2>4, <2>5 DEF TaskOK
  <2>7. tasks' = [tasks EXCEPT ![c] = k]
    BY <1>3 DEF CreateOpen
  <2>8. QED
    BY <2>6, <2>7, TaskMoves
<1>4. QED
  BY <1>2, <1>3

(* One page more in a copy that is a beginning of what was opened.         *)
LEMMA OnePageMore ==
    ASSUME NEW body \in Seq(Nat), NEW opened \in Seq(Nat), NEW page \in Nat
    PROVE  /\ Append(body, page) \in Seq(Nat) /\ Len(Append(body, page)) = Len(body) + 1
           /\ Len(body) < Len(opened) /\ page = opened[Len(body) + 1]
              /\ (\A i \in 1..Len(body) : body[i] = opened[i])
              => Len(body) + 1 <= Len(opened)
                 /\ \A i \in 1..(Len(body) + 1) : Append(body, page)[i] = opened[i]
<1>1. Append(body, page) \in Seq(Nat) /\ Len(Append(body, page)) = Len(body) + 1
  BY AppendProperties
<1>2. \A i \in 1..Len(body) : Append(body, page)[i] = body[i]
  BY AppendProperties
<1>3. Append(body, page)[Len(body) + 1] = page
  BY AppendProperties
<1>4. Len(body) \in Nat /\ Len(opened) \in Nat
  BY LenProperties
<1>5. \A i \in 1..(Len(body) + 1) : i \in 1..Len(body) \/ i = Len(body) + 1
  BY <1>4
<1>6. Len(body) < Len(opened) => Len(body) + 1 <= Len(opened)
  BY <1>4
<1>7. QED
  BY <1>1, <1>2, <1>3, <1>5, <1>6

(* A copy as long as what was opened is what was opened.                   *)
LEMMA CopyIsWhole ==
    ASSUME NEW body \in Seq(Nat), NEW opened \in Seq(Nat), Len(body) = Len(opened),
           \A i \in 1..Len(body) : body[i] = opened[i]
    PROVE  body = opened
BY SeqEqual

(* A finished copy joins the items.                                        *)
LEMMA ItemJoins ==
    ASSUME NEW items, ItemsOK(items), NEW path \in Paths, NEW body \in Seq(Nat), ~ Seen(items, path),
           path \notin Databases => body \in had[path]
    PROVE  ItemsOK(Append(items, [path |-> path, body |-> body]))
<1> PICK new : new = [path |-> path, body |-> body]
  OBVIOUS
<1> PICK all : all = Append(items, new)
  OBVIOUS
<1>1. new \in Item /\ new.path = path /\ new.body = body
  BY DEF Item
<1>2. items \in Seq(Item)
  BY DEF ItemsOK
<1>3. all \in Seq(Item) /\ Len(all) = Len(items) + 1 /\ Len(items) \in Nat
  BY <1>1, <1>2, AppendProperties, LenProperties
<1>4. (\A i \in 1..Len(items) : all[i] = items[i]) /\ all[Len(items) + 1] = new
  BY <1>1, <1>2, AppendProperties
<1>5. DOMAIN items = 1..Len(items) /\ DOMAIN all = 1..(Len(items) + 1)
  BY <1>2, <1>3, ItemAt
<1>6. \A k \in DOMAIN all : k = Len(items) + 1 \/ k \in DOMAIN items
  BY <1>3, <1>5
<1>7. \A k \in DOMAIN items : all[k] = items[k] /\ items[k].path # path
  BY <1>4, <1>5 DEF Seen
<1>8. \A k, l \in DOMAIN all : all[k].path = all[l].path => k = l
  BY <1>1, <1>4, <1>6, <1>7 DEF ItemsOK
<1>9. \A k \in DOMAIN all : all[k].path \notin Databases => all[k].body \in had[all[k].path]
  BY <1>1, <1>4, <1>6, <1>7 DEF ItemsOK
<1>10. QED
  BY <1>3, <1>8, <1>9 DEF ItemsOK

(* The copy goes on, is given up, or is finished.                          *)
LEMMA CopyKeeps ==
    ASSUME BackupInv, NEW c \in BackupTasks, CreateCopy(c) PROVE BackupInv'
<1> pages' = pages /\ had' = had /\ writes' = writes /\ archives' = archives
  BY DEF CreateCopy
<1> DEFINE task == tasks[c]
           path == SourceOrder[task.next]
           file == IF path \in Databases THEN pages[path] ELSE task.opened
           read == Len(task.body)
<1>1. /\ task.at = "copy" /\ task.next \in 1..Len(SourceOrder) /\ ItemsOK(task.items) /\ task.next \in Nat \ {0}
      /\ task.size \in Nat /\ path \in DOMAIN pages /\ ~ Seen(task.items, path)
      /\ task.opened \in Seq(Nat) /\ task.opened \in had[path] /\ task.body \in Seq(Nat)
      /\ Len(task.body) <= task.size
      /\ path \notin Databases =>
           Len(task.body) <= Len(task.opened) /\ \A i \in 1..Len(task.body) : task.body[i] = task.opened[i]
  BY DEF CreateCopy, TaskAt, TaskOK, BackupInv
<1>2. path \in Paths /\ pages[path] \in Seq(Nat)
  BY <1>1, SourcesArePaths DEF BackupInv
<1>3. file \in Seq(Nat) /\ Len(file) \in Nat /\ read \in Nat
  <2>1. file \in Seq(Nat)
    BY <1>1, <1>2
  <2>2. QED
    BY <2>1, <1>1, LenProperties
<1> PICK grown : grown = [task EXCEPT !.body = Append(task.body, file[read + 1])]
  OBVIOUS
<1> PICK done : done = [at |-> "stat", target |-> task.target, next |-> task.next + 1,
                        items |-> Append(task.items, [path |-> path, body |-> task.body])]
  OBVIOUS
<1>3a. task.size \in Nat
  BY <1>1
<1>4. \/ tasks' = [tasks EXCEPT ![c] = NoTask]
      \/ tasks' = [tasks EXCEPT ![c] = grown] /\ read < Len(file) /\ read < task.size
      \/ /\ tasks' = [tasks EXCEPT ![c] = done]
         /\ ~ (read < Len(file) /\ read = task.size) /\ ~ (read < Len(file) /\ read < task.size)
  <2>1. CASE read < Len(file) /\ read = task.size
    <3>1. ~ (read < task.size) /\ ~ (read = Len(file))
      BY <1>3, <1>3a, <2>1
    <3>2. QED
      BY <2>1, <3>1 DEF CreateCopy
  <2>2. CASE read < Len(file) /\ read < task.size
    <3>1. ~ (read = task.size) /\ ~ (read = Len(file))
      BY <1>3, <1>3a, <2>2
    <3>2. QED
      BY <2>2, <3>1 DEF CreateCopy
  <2>3. CASE ~ (read < Len(file)) /\ read = Len(file) /\ read < task.size
    BY <2>3 DEF CreateCopy
  <2>4. CASE /\ ~ (read < Len(file) /\ read = task.size) /\ ~ (read < Len(file) /\ read < task.size)
             /\ ~ (read = Len(file) /\ read < task.size)
    BY <2>4 DEF CreateCopy
  <2>5. QED
    BY <1>3, <2>1, <2>2, <2>3, <2>4
<1>5. TaskOK(NoTask)
  BY DEF NoTask, TaskOK
<1>6. ASSUME read < Len(file), read < task.size PROVE TaskOK(grown)
  <2>1. file[read + 1] \in Nat
    <3> HIDE DEF file, read
    <3>1. read + 1 \in 1..Len(file)
      BY <1>3, <1>6
    <3>2. QED
      BY <1>3, <3>1, ElementOfSeq
  <2>2. /\ grown.at = "copy" /\ grown.next = task.next /\ grown.items = task.items /\ grown.size = task.size
        /\ grown.opened = task.opened /\ grown.body = Append(task.body, file[read + 1])
    BY <1>1
  <2>3. grown.body \in Seq(Nat) /\ Len(grown.body) = read + 1
    BY <1>1, <2>1, <2>2, OnePageMore
  <2>4. path \notin Databases =>
          Len(grown.body) <= Len(grown.opened) /\ \A i \in 1..Len(grown.body) : grown.body[i] = grown.opened[i]
    <3> HAVE path \notin Databases
    <3>1. file = task.opened
      OBVIOUS
    <3>2. Len(task.body) < Len(task.opened) /\ file[read + 1] = task.opened[Len(task.body) + 1]
      BY <1>6, <3>1
    <3>3. /\ Len(task.body) + 1 <= Len(task.opened)
          /\ \A i \in 1..(Len(task.body) + 1) : Append(task.body, file[read + 1])[i] = task.opened[i]
      BY <1>1, <2>1, <3>2, OnePageMore
    <3>4. QED
      BY <2>2, <2>3, <3>3
  <2>5. read + 1 <= task.size
    <3>1. task.size \in Nat
      BY <1>1
    <3> HIDE DEF read, file, task
    <3>2. QED
      BY <1>3, <1>6, <3>1
  <2> HIDE DEF read, file
  <2>6. QED
    BY <1>1, <2>2, <2>3, <2>4, <2>5 DEF TaskOK
<1>7. ASSUME ~ (read < Len(file) /\ read = task.size), ~ (read < Len(file) /\ read < task.size) PROVE TaskOK(done)
  <2>1. done.at = "stat" /\ done.next = task.next + 1
        /\ done.items = Append(task.items, [path |-> path, body |-> task.body])
    OBVIOUS
  <2>2. path \notin Databases => task.body \in had[path]
    <3> HAVE path \notin Databases
    <3>1. file = task.opened
      OBVIOUS
    <3>2. read = Len(task.opened)
      BY <1>1, <1>3, <1>7, <3>1
    <3>3. task.body = task.opened
      BY <1>1, <3>2, CopyIsWhole
    <3>4. QED
      BY <1>1, <3>3
  <2>3. ItemsOK(done.items)
    BY <1>1, <1>2, <2>1, <2>2, ItemJoins
  <2>4. QED
    BY <1>1, <2>1, <2>3 DEF TaskOK
<1>8. QED
  BY <1>4, <1>5, <1>6, <1>7, TaskMoves

(* The archive gets its name.                                              *)
LEMMA EndKeeps == ASSUME BackupInv, NEW c \in BackupTasks, CreateEnd(c) PROVE BackupInv'
<1> pages' = pages /\ had' = had /\ writes' = writes
  BY DEF CreateEnd
<1>1. tasks' = [tasks EXCEPT ![c] = NoTask] /\ TaskOK(NoTask)
  BY DEF CreateEnd, TaskEnds, NoTask, TaskOK
<1>2. ItemsOK(tasks[c].items)
  BY DEF CreateEnd, TaskAt, BackupInv, TaskOK
<1>3. \A dest \in DOMAIN archives' : ItemsOK(archives'[dest]) /\ archives'[dest] # <<>>
  <2>1. CASE tasks[c].items = <<>>
    BY <2>1 DEF CreateEnd, BackupInv
  <2>2. CASE tasks[c].items # <<>>
    BY <1>2, <2>2 DEF CreateEnd, BackupInv
  <2>3. QED
    BY <2>1, <2>2
<1>4. \A dest \in DOMAIN archives' : ItemsOK(archives[dest])' /\ archives'[dest] # <<>>
  BY <1>3 DEF ItemsOK
<1>5. tasks' = [d \in BackupTasks |-> tasks'[d]] /\ \A d \in BackupTasks : TaskOK(tasks'[d])
  BY <1>1 DEF BackupInv
<1>6. \A d \in BackupTasks : TaskOK(tasks[d])'
  BY <1>5 DEF TaskOK, ItemsOK, Seen
<1>7. QED
  BY <1>4, <1>5, <1>6 DEF BackupInv

(* The next file of a restore is skipped, emptied or written.              *)
LEMMA RestoreKeeps ==
    ASSUME BackupInv, NEW c \in BackupTasks, RestoreStat(c) \/ RestoreWrite(c) PROVE BackupInv'
<1> writes' = writes /\ archives' = archives
  BY DEF RestoreStat, RestoreWrite
<1> DEFINE items == tasks[c].items
<1>1. items \in Seq(Item) /\ items # <<>> /\ tasks[c].at \in {"restore", "write"}
  BY DEF RestoreStat, RestoreWrite, TaskAt, BackupInv, TaskOK
<1>2. Tail(items) \in Seq(Item)
  BY <1>1, HeadTailProperties
<1>3. items[1] \in Item
  <2>1. 1 \in 1..Len(items)
    BY <1>1, EmptySeq, LenProperties
  <2>2. QED
    BY <1>1, <2>1, ElementOfSeq
<1>4. items[1].path \in Paths /\ items[1].body \in Seq(Nat) /\ <<>> \in Seq(Nat)
  BY <1>3 DEF Item
<1>5. ASSUME NEW k, TaskOK(k), tasks' = [tasks EXCEPT ![c] = k]
      PROVE  tasks' = [d \in BackupTasks |-> tasks'[d]] /\ \A d \in BackupTasks : TaskOK(tasks'[d])
  BY <1>5 DEF BackupInv
<1> PICK skip : skip = [tasks[c] EXCEPT !.items = Tail(items)]
  OBVIOUS
<1> PICK begin : begin = [tasks[c] EXCEPT !.at = "write"]
  OBVIOUS
<1> PICK on : on = [[tasks[c] EXCEPT !.at = "restore"] EXCEPT !.items = Tail(items)]
  OBVIOUS
<1>6. /\ skip.at = tasks[c].at /\ skip.items = Tail(items) /\ begin.at = "write" /\ begin.items = items
      /\ on.at = "restore" /\ on.items = Tail(items)
  BY <1>1
<1>7. TaskOK(begin) /\ TaskOK(on) /\ (tasks[c].at = "restore" => TaskOK(skip))
  BY <1>1, <1>2, <1>6 DEF TaskOK
<1>8. CASE RestoreStat(c)
  <2>1. tasks[c].at = "restore"
    BY <1>8 DEF RestoreStat, TaskAt
  <2>2. \/ tasks' = [tasks EXCEPT ![c] = skip] /\ pages' = pages /\ had' = had
        \/ tasks' = [tasks EXCEPT ![c] = begin] /\ Put(items[1].path, <<>>)
    BY <1>8 DEF RestoreStat
  <2>3. CASE tasks' = [tasks EXCEPT ![c] = skip] /\ pages' = pages /\ had' = had
    BY <1>7, <2>1, <2>3, TaskMoves
  <2>4. CASE tasks' = [tasks EXCEPT ![c] = begin] /\ Put(items[1].path, <<>>)
    <3>1. writes' \in Nat
      BY DEF BackupInv
    <3>2. QED
      BY <1>4, <1>5, <1>7, <2>4, <3>1, PutStep
  <2>5. QED
    BY <2>2, <2>3, <2>4
<1>9. CASE RestoreWrite(c)
  <2>1. tasks' = [tasks EXCEPT ![c] = on] /\ Put(items[1].path, items[1].body)
    BY <1>9 DEF RestoreWrite
  <2>2. writes' \in Nat
    BY DEF BackupInv
  <2>3. QED
    BY <1>4, <1>5, <1>7, <2>1, <2>2, PutStep
<1>10. QED
  BY <1>8, <1>9

(* Every file and every archive is what it should be at the beginning and  *)
(* after every step.                                                       *)
LEMMA BackupsHold ==
    /\ BackupInit => BackupInv
    /\ BackupInv /\ [BackupNext]_backupVars => BackupInv'
    /\ BackupInv => ArchiveWhole
<1>1. BackupInit => BackupInv
  <2> SUFFICES ASSUME BackupInit PROVE BackupInv
    OBVIOUS
  <2>1. <<0>> \in Seq(Nat)
    OBVIOUS
  <2>2. PICK there \in SUBSET Paths : pages = [path \in there |-> <<0>>]
    BY DEF BackupInit
  <2>3. had = [path \in Paths |-> IF path \in DOMAIN pages THEN {<<0>>} ELSE {}]
    BY DEF BackupInit
  <2>4. had \in [Paths -> SUBSET Seq(Nat)] /\ DOMAIN pages \subseteq Paths
        /\ \A path \in DOMAIN pages : pages[path] \in had[path]
    BY <2>1, <2>2, <2>3
  <2>5. QED
    BY <2>4 DEF BackupInit, BackupInv, TaskOK, NoTask
<1>2. BackupInv /\ UNCHANGED backupVars => BackupInv'
  BY DEF backupVars, BackupInv, TaskOK, ItemsOK, Seen
<1>3. BackupInv /\ BackupNext => BackupInv'
  BY ServerWritesKeep, BeginsAndEndsKeep, OpeningKeeps, CopyKeeps, EndKeeps, RestoreKeeps DEF BackupNext
<1>4. BackupInv => ArchiveWhole
  BY DEF BackupInv, ItemsOK, ArchiveWhole
<1>5. QED
  BY <1>1, <1>2, <1>3, <1>4

(* What stands under its name on the disk is whole (buildsvc/upload.go,    *)
(* backup/backup.go), for every number of clients, files and commands: an  *)
(* uploaded file is the one with its hash, and an archive lists each file  *)
(* once with a content it had, whoever edits, dies or overlaps.            *)
THEOREM FilesStayWhole == FilesSpec => []FilesWhole
<1>1. FilesInit => UploadInv /\ BackupInv
  BY UploadsHold, BackupsHold DEF FilesInit
<1>2. UploadInv /\ BackupInv /\ [FilesNext]_<<uploadVars, backupVars>> => UploadInv' /\ BackupInv'
  BY UploadsHold, BackupsHold DEF FilesNext
<1>3. UploadInv /\ BackupInv => FilesWhole
  BY UploadsHold, BackupsHold DEF FilesWhole
<1>4. QED
  BY <1>1, <1>2, <1>3, PTL DEF FilesSpec

----------------------------------------------------------------------------
(* Console. *)

Steps == {"version", "loader", "recipe", "loaderVersion", "name", "platforms", "review"}
Rows == Seq(STRING \ {None})
LoaderNumbers == (UNION {LoaderVersions[x] : x \in MinecraftVersions \X LoaderNames}) \cup {None}
RecipeNames == (UNION {Recipes[x] : x \in MinecraftVersions \X LoaderNames}) \cup {None, "declined"}

WizardOf(histories) ==
  [step : Steps, loading : BOOLEAN, request : Nat, problem : BOOLEAN,
   mc : MinecraftVersions \cup {None}, loader : LoaderNames \cup {None},
   loaderVersion : LoaderNumbers, recipe : RecipeNames, index : MinecraftVersions \cup {None},
   name : ConsoleBuilds \cup {None}, platforms : SUBSET GamePlatforms, history : histories]
KeptWizard == WizardOf({<<>>})
WizardRecord == WizardOf(Seq(KeptWizard))

(* What was chosen is what the server offers for the Minecraft version     *)
(* whose reply filled the lists.                                           *)
Consistent(w) ==
  /\ w.step # "version" => w.mc \in MinecraftVersions /\ w.index = w.mc
  /\ w.step \notin {"version", "loader"} =>
       /\ w.loader \in LoaderNames
       /\ w.loaderVersion # None => w.loaderVersion \in LoaderVersions[<<w.mc, w.loader>>]
       /\ w.recipe \notin {None, "declined"} => w.recipe \in Recipes[<<w.mc, w.loader>>]
       /\ w.recipe = "declined" => Recipes[<<w.mc, w.loader>>] # {}
  /\ w.step = "recipe" => Recipes[<<w.mc, w.loader>>] # {}

GoesBack(w) == Consistent(w) /\ w.step # "review" /\ ~w.loading /\ ~w.problem

WizardOK(w) ==
  /\ w \in WizardRecord
  /\ Consistent(w)
  /\ w.step = "review" => w.platforms # {}
  /\ w.loading \/ w.problem => w.step = "version"
  /\ ~(w.loading /\ w.problem)
  /\ \A i \in 1 .. Len(w.history) : GoesBack(w.history[i])

PickRecord == [title : {None, "card", "publish", "update", "delete"}, items : SUBSET ConsoleBuilds]
MenuRecord == [rows : Rows, cursor : Int]
Loose(rows) == {i \in 0 .. Len(rows) - 1 : ~Static(rows[i + 1])}
MenuOK(list) == list \in MenuRecord /\ (Loose(list.rows) # {} => list.cursor \in Loose(list.rows))

ContentOK(state, content, action) ==
  /\ state = "wizard" => WizardOK(content)
  /\ state = "pick" => content \in PickRecord /\ content.title = action
  /\ state = "card" => content \in ConsoleBuilds
  /\ state = "settings" => content \in ConsoleBuilds \cup {None}
  /\ state = "players" => MenuOK(content)

Contents == {None} \cup ConsoleBuilds \cup WizardRecord \cup PickRecord \cup MenuRecord
Confirms == {NoConfirm} \cup [op : {"delete", "ban"}, name : ConsoleBuilds \cup STRING]
ViewRecord == [state : {"main", "help", "wizard", "pick", "players", "card", "settings"},
               content : Contents, confirm : Confirms, typing : BOOLEAN]
Commands == [op : {"delete", "ban"}, name : ConsoleBuilds \cup STRING]
            \cup [op : {"publish"}, name : ConsoleBuilds]
            \cup [op : {"typed"}, line : SecretCommands \cup OpenCommands]
            \cup [op : {"install"}, name : ConsoleBuilds \cup {None}, mc : MinecraftVersions \cup {None},
                  loader : LoaderNames \cup {None}, loaderVersion : LoaderNumbers, recipe : RecipeNames,
                  platforms : SUBSET GamePlatforms]

ConsoleInv ==
  /\ view \in ViewRecord
  /\ ContentOK(view.state, view.content, pickerAction)
  /\ pickerAction \in {None, "card", "publish", "update", "delete"}
  /\ requested \in Nat
  /\ executing \in Seq(Commands)
  /\ lines \intersect SecretCommands = {}
  /\ \A r \in replies : r.kind = "loaders" => r.mc \in MinecraftVersions

(* What is left of a sequence without its i-th element.                    *)
LEMMA RemovedIs ==
  ASSUME NEW S, NEW e \in Seq(S), NEW i \in 1 .. Len(e)
  PROVE  /\ RemoveAt(e, i) \in Seq(S) /\ Len(RemoveAt(e, i)) = Len(e) - 1
         /\ \A j \in 1 .. Len(e) - 1 : RemoveAt(e, i)[j] = IF j < i THEN e[j] ELSE e[j + 1]
<1>0. Len(e) \in Nat /\ i \in Nat /\ i - 1 \in Nat /\ i + 1 \in Nat
  OBVIOUS
<1>1. PICK n \in Nat, m \in Nat, k \in Nat : n = i - 1 /\ m = i + 1 /\ k = Len(e)
  BY <1>0
<1> DEFINE a == SubSeq(e, 1, n)
           b == SubSeq(e, m, k)
<1>2. \A j \in 1 .. k : e[j] \in S
  BY <1>1
<1>3. /\ a \in Seq(S) /\ Len(a) = IF 1 <= n THEN n - 1 + 1 ELSE 0
      /\ \A j \in 1 .. n - 1 + 1 : a[j] = e[1 + j - 1]
  <2>1. \A j \in 1 .. n : e[j] \in S
    BY <1>1, <1>2
  <2> QED
    BY <2>1, SubSeqProperties
<1>4. /\ b \in Seq(S) /\ Len(b) = IF m <= k THEN k - m + 1 ELSE 0
      /\ \A j \in 1 .. k - m + 1 : b[j] = e[m + j - 1]
  <2>1. \A j \in m .. k : e[j] \in S
    BY <1>1, <1>2
  <2> QED
    BY <2>1, SubSeqProperties
<1>5. RemoveAt(e, i) = a \o b
  BY <1>1 DEF RemoveAt
<1> HIDE DEF a, b
<1>6. Len(a) = i - 1 /\ \A j \in 1 .. i - 1 : a[j] = e[j]
  BY <1>1, <1>3
<1>7. Len(b) = Len(e) - i /\ \A j \in 1 .. Len(e) - i : b[j] = e[i + j]
  BY <1>1, <1>4
<1>8. /\ a \o b \in Seq(S) /\ Len(a \o b) = Len(a) + Len(b)
      /\ \A j \in 1 .. Len(a) + Len(b) : (a \o b)[j] = IF j <= Len(a) THEN a[j] ELSE b[j - Len(a)]
  BY <1>3, <1>4, ConcatProperties
<1>9. ASSUME NEW j \in 1 .. Len(e) - 1 PROVE (a \o b)[j] = IF j < i THEN e[j] ELSE e[j + 1]
  <2>1. CASE j < i
    <3>1. j \in 1 .. i - 1 /\ j <= Len(a) /\ j \in 1 .. Len(a) + Len(b)
      BY <1>0, <1>6, <1>7, <2>1
    <3>2. (a \o b)[j] = a[j] /\ a[j] = e[j]
      BY <1>6, <1>8, <3>1
    <3> QED
      BY <2>1, <3>2
  <2>2. CASE j >= i
    <3>1. (a \o b)[j] = b[j - (i - 1)] /\ j - (i - 1) \in 1 .. Len(e) - i
      BY <1>1, <1>6, <1>7, <1>8, <2>2
    <3>2. b[j - (i - 1)] = e[i + (j - (i - 1))] /\ i + (j - (i - 1)) = j + 1
      BY <1>7, <3>1
    <3> QED
      BY <2>2, <3>1, <3>2
  <2>3. j < i \/ j >= i
    BY <1>0
  <2> QED
    BY <2>1, <2>2, <2>3, Zenon
<1> QED
  BY <1>0, <1>1, <1>5, <1>6, <1>7, <1>8, <1>9

(* A nonempty set of natural numbers has a least element.                  *)
LEMMA LeastIs ==
  ASSUME NEW S, S \subseteq Nat, S # {}
  PROVE  \E x \in S : \A y \in S : x <= y
<1> DEFINE R == OpToRel(<, Nat)
<1>1. R = {ss \in Nat \X Nat : ss[1] < ss[2]}
  BY DEF OpToRel
<1>2. IsWellFoundedOn(R, Nat)
  BY NatLessThanWellFounded
<1> HIDE DEF R
<1>3. PICK x \in S : \A y \in S : ~(<<y, x>> \in R)
  BY <1>2, WFMin
<1>4. \A y \in S : x <= y
  <2> SUFFICES ASSUME NEW y \in S, y < x PROVE FALSE
    OBVIOUS
  <2> DEFINE p == <<y, x>>
  <2>1. p \in Nat \X Nat /\ p[1] < p[2]
    OBVIOUS
  <2> HIDE DEF p
  <2>2. p \in R
    BY <1>1, <2>1
  <2> QED
    BY <1>3, <2>2 DEF p
<1> QED
  BY <1>4

(* A nonempty set of numbers up to n has a greatest element.               *)
LEMMA GreatestIs ==
  ASSUME NEW n \in Nat, NEW S, S \subseteq 0 .. n, S # {}
  PROVE  \E x \in S : \A y \in S : y <= x
<1> DEFINE T == {n - x : x \in S}
<1>0. \A x \in S : n - x \in Nat
  OBVIOUS
<1>1. T \subseteq Nat /\ T # {}
  BY <1>0
<1> HIDE DEF T
<1>2. PICK t \in T : \A u \in T : t <= u
  BY <1>1, LeastIs
<1>3. PICK x \in S : t = n - x
  BY DEF T
<1>4. \A y \in S : n - y \in T
  BY DEF T
<1>5. \A y \in S : y \in Int /\ x \in Int /\ n - x <= n - y
  BY <1>2, <1>3, <1>4
<1> QED
  BY <1>5

(* The rest of a division is the only one.                                 *)
LEMMA RestIs ==
  ASSUME NEW n \in Nat \ {0}, NEW q \in Int, NEW i \in 0 .. n - 1
  PROVE  (n * q + i) % n = i
<1>1. PICK k \in Int : k = n * q + i
  OBVIOUS
<1>2. PICK d \in Int, r \in 0 .. n - 1 : k = n * d + r /\ k % n = r
  <2>1. k % n \in 0 .. n - 1 /\ k = n * (k \div n) + (k % n) /\ k \div n \in Int
    OBVIOUS
  <2> QED
    BY <2>1
<1>3. n * (q - d) = r - i
  BY <1>1, <1>2
<1>4. ~(q - d >= 1)
  <2> SUFFICES ASSUME q - d >= 1 PROVE FALSE
    OBVIOUS
  <2>1. n * (q - d) >= n
    OBVIOUS
  <2> QED
    BY <1>3, <2>1
<1>5. ~(d - q >= 1)
  <2> SUFFICES ASSUME d - q >= 1 PROVE FALSE
    OBVIOUS
  <2>1. n * (d - q) >= n
    OBVIOUS
  <2>2. n * (d - q) = i - r
    BY <1>3
  <2> QED
    BY <2>1, <2>2
<1>6. q = d
  BY <1>4, <1>5
<1> QED
  BY <1>1, <1>2, <1>3, <1>6

(* clamp leaves the cursor on a row that can be opened if there is one.    *)
LEMMA ClampIs ==
  ASSUME NEW rows \in Rows, NEW cursor \in Int
  PROVE  /\ clamp(rows, cursor) \in Int
         /\ Loose(rows) # {} => clamp(rows, cursor) \in Loose(rows)
<1> DEFINE at == IF rows = <<>> THEN 0
                 ELSE IF cursor >= Len(rows) THEN Len(rows) - 1 ELSE IF cursor < 0 THEN 0 ELSE cursor
           below == {i \in Loose(rows) : i >= at}
<1>0. Len(rows) \in Nat /\ Loose(rows) \subseteq Nat /\ Loose(rows) \subseteq 0 .. Len(rows) /\ at \in Int
  BY DEF Loose, Rows
<1> HIDE DEF at
<1>1. clamp(rows, cursor) = IF Loose(rows) = {} THEN at
        ELSE IF below # {} THEN CHOOSE i \in below : \A j \in below : i <= j
        ELSE CHOOSE i \in Loose(rows) : \A j \in Loose(rows) : j <= i
  BY DEF clamp, Loose, at
<1>2. below \subseteq Loose(rows) /\ below \subseteq Nat
  BY <1>0
<1>3. below # {} => \E i \in below : \A j \in below : i <= j
  BY <1>2, LeastIs
<1>4. Loose(rows) # {} => \E i \in Loose(rows) : \A j \in Loose(rows) : j <= i
  BY <1>0, GreatestIs
<1> HIDE DEF below
<1>5. CASE Loose(rows) = {}
  BY <1>0, <1>1, <1>5
<1>6. CASE Loose(rows) # {} /\ below # {}
  <2>1. clamp(rows, cursor) \in below
    BY <1>1, <1>3, <1>6
  <2>2. clamp(rows, cursor) \in Loose(rows)
    BY <1>2, <2>1
  <2>3. clamp(rows, cursor) \in Nat
    BY <1>0, <2>2
  <2> QED
    BY <2>2, <2>3
<1>7. CASE Loose(rows) # {} /\ below = {}
  <2>1. clamp(rows, cursor) \in Loose(rows)
    BY <1>1, <1>4, <1>7
  <2> QED
    BY <1>0, <2>1
<1> QED
  BY <1>5, <1>6, <1>7

(* From any row, or from one before the first or after the last, the keys  *)
(* reach every row within one turn.                                        *)
LEMMA TurnReaches ==
  ASSUME NEW n \in Nat \ {0}, NEW from \in -1 .. n, NEW delta \in {-1, 1}, NEW i \in 0 .. n - 1,
         (from = -1 => delta = 1) /\ (from = n => delta = -1)
  PROVE  \E step \in 1 .. n : (from + delta * step + n * step) % n = i
<1>1. CASE delta = 1 /\ i > from
  <2> DEFINE step == i - from
  <2>1. step \in 1 .. n /\ from + delta * step + n * step = n * step + i
    BY <1>1
  <2> HIDE DEF step
  <2>2. (n * step + i) % n = i
    BY <2>1, RestIs
  <2> QED
    BY <2>1, <2>2
<1>2. CASE delta = 1 /\ i <= from
  <2> DEFINE step == i - from + n
  <2>1. step \in 1 .. n /\ from + delta * step = i + n
    BY <1>2
  <2> HIDE DEF step
  <2>2. from + delta * step + n * step = n * (step + 1) + i /\ step + 1 \in Int
    BY <2>1
  <2>3. (n * (step + 1) + i) % n = i
    BY <2>2, RestIs
  <2> QED
    BY <2>1, <2>2, <2>3
<1>3. CASE delta = -1 /\ i < from
  <2> DEFINE step == from - i
  <2>1. step \in 1 .. n /\ from + delta * step + n * step = n * step + i
    BY <1>3
  <2> HIDE DEF step
  <2>2. (n * step + i) % n = i
    BY <2>1, RestIs
  <2> QED
    BY <2>1, <2>2
<1>4. CASE delta = -1 /\ i >= from
  <2> DEFINE step == from - i + n
  <2>1. step \in 1 .. n /\ from + delta * step = i - n
    BY <1>4
  <2> HIDE DEF step
  <2>2. from + delta * step + n * step = n * (step - 1) + i /\ step - 1 \in Int
    BY <2>1
  <2>3. (n * (step - 1) + i) % n = i
    BY <2>2, RestIs
  <2> QED
    BY <2>1, <2>2, <2>3
<1> QED
  BY <1>1, <1>2, <1>3, <1>4

(* Moving the cursor of a menu skips the rows that cannot be chosen, so it *)
(* ends on one that can if there is one (menu.move).                       *)
LEMMA MoveIs ==
  ASSUME NEW list, MenuOK(list), list.rows # <<>>, NEW from \in Int, NEW delta \in {-1, 1},
         \/ from = list.cursor
         \/ from = -1 /\ delta = 1
         \/ from = Len(list.rows) /\ delta = -1
  PROVE  MenuOK(move(list, from, delta))
<1> DEFINE n == Len(list.rows)
           at(step) == (from + delta * step + n * step) % n
           found == {step \in 1 .. n : ~Static(list.rows[at(step) + 1])}
<1>0. list \in MenuRecord /\ list.rows \in Rows /\ n \in Nat \ {0}
  BY DEF MenuOK, MenuRecord, Rows
<1>1. move(list, from, delta) = IF found = {} THEN [list EXCEPT !.cursor = from]
        ELSE [list EXCEPT !.cursor = at(CHOOSE s \in found : \A t \in found : s <= t)]
  BY DEF move
<1> HIDE DEF n
<1>2. \A step \in 1 .. n : at(step) \in 0 .. n - 1
  <2> SUFFICES ASSUME NEW step \in 1 .. n PROVE at(step) \in 0 .. n - 1
    OBVIOUS
  <2>1. PICK k \in Int : k = from + delta * step + n * step
    BY <1>0
  <2>2. k % n \in 0 .. n - 1
    BY <1>0
  <2> QED
    BY <2>1, <2>2
<1>3. CASE found = {}
  <2>1. Loose(list.rows) = {}
    <3> SUFFICES ASSUME NEW i \in Loose(list.rows) PROVE FALSE
      OBVIOUS
    <3>1. i \in 0 .. n - 1 /\ ~Static(list.rows[i + 1]) /\ list.cursor \in Loose(list.rows)
      BY DEF Loose, MenuOK, n
    <3>2. list.cursor \in 0 .. n - 1
      BY <3>1 DEF Loose, n
    <3>3. from \in -1 .. n /\ (from = -1 => delta = 1) /\ (from = n => delta = -1)
      BY <1>0, <3>2 DEF n
    <3>4. \E step \in 1 .. n : (from + delta * step + n * step) % n = i
      <4>1. n \in Nat \ {0} /\ from \in -1 .. n /\ delta \in {-1, 1} /\ i \in 0 .. n - 1
        BY <1>0, <3>1, <3>3
      <4> QED
        BY <3>3, <4>1, TurnReaches, ZenonT(30)
    <3>5. PICK step \in 1 .. n : at(step) = i
      BY <3>4
    <3> HIDE DEF at
    <3> QED
      BY <1>3, <3>1, <3>5
  <2> DEFINE moved == [list EXCEPT !.cursor = from]
  <2>2. moved \in MenuRecord /\ moved.rows = list.rows
    BY <1>0 DEF MenuRecord
  <2> HIDE DEF moved
  <2>3. move(list, from, delta) = moved
    BY <1>1, <1>3 DEF moved
  <2> QED
    BY <2>1, <2>2, <2>3 DEF MenuOK
<1>4. CASE found # {}
  <2> HIDE DEF at
  <2>1. found \subseteq Nat
    OBVIOUS
  <2>2. \E s \in found : \A t \in found : s <= t
    BY <1>4, <2>1, LeastIs
  <2>3. PICK s \in found : move(list, from, delta) = [list EXCEPT !.cursor = at(s)]
    BY <1>1, <1>4, <2>2
  <2>4. at(s) \in Loose(list.rows) /\ at(s) \in Int
    BY <1>2 DEF Loose, n
  <2> DEFINE moved == [list EXCEPT !.cursor = at(s)]
  <2>5. moved \in MenuRecord /\ moved.rows = list.rows /\ moved.cursor = at(s)
    BY <1>0, <2>4 DEF MenuRecord
  <2> HIDE DEF moved
  <2>6. move(list, from, delta) = moved
    BY <2>3 DEF moved
  <2> QED
    BY <2>4, <2>5, <2>6 DEF MenuOK
<1> QED
  BY <1>3, <1>4

States == {"main", "help", "wizard", "pick", "players", "card", "settings"}
PickActions == {None, "card", "publish", "update", "delete"}
RepliesOK(set) == \A r \in set : r.kind = "loaders" => r.mc \in MinecraftVersions

(* Another screen leaves the question and the text being typed alone.      *)
LEMMA ShowIs ==
  ASSUME view \in ViewRecord, NEW state \in States, NEW content \in Contents
  PROVE  /\ Show(state, content) \in ViewRecord
         /\ Show(state, content).state = state /\ Show(state, content).content = content
         /\ Show(state, content).confirm = view.confirm /\ Show(state, content).typing = view.typing
BY DEF Show, ViewRecord, States

(* The main screen asks nothing of its content.                            *)
LEMMA MainIs ==
  ASSUME view \in ViewRecord
  PROVE  /\ Main \in ViewRecord /\ \A a : ContentOK(Main.state, Main.content, a)
<1>1. Main \in ViewRecord /\ Main.state = "main"
  <2>1. "main" \in States /\ None \in Contents
    BY DEF States, Contents
  <2> QED
    BY <2>1, ShowIs DEF Main
<1> QED
  BY <1>1 DEF ContentOK

(* A question about a build or a player is put on the main screen.         *)
LEMMA AskIs ==
  ASSUME view \in ViewRecord, NEW op \in {"delete", "ban"}, NEW name \in ConsoleBuilds \cup STRING
  PROVE  /\ Ask(op, name) \in ViewRecord /\ \A a : ContentOK(Ask(op, name).state, Ask(op, name).content, a)
<1>1. Main \in ViewRecord /\ Main.state = "main"
  <2>1. "main" \in States /\ None \in Contents
    BY DEF States, Contents
  <2> QED
    BY <2>1, ShowIs DEF Main
<1> DEFINE question == [op |-> op, name |-> name]
<1>2. question \in Confirms
  BY DEF Confirms
<1> HIDE DEF question
<1>3. PICK m \in ViewRecord : m = Main /\ m.state = "main"
  BY <1>1
<1> DEFINE v == [m EXCEPT !.confirm = question]
<1>4. v \in ViewRecord /\ v.state = "main"
  BY <1>2, <1>3 DEF ViewRecord
<1> HIDE DEF v
<1>5. Ask(op, name) = v
  BY <1>3 DEF Ask, v, question
<1> QED
  BY <1>4, <1>5 DEF ContentOK

(* A step that sends no command.                                           *)
LEMMA CalmStep ==
  ASSUME ConsoleInv, Quiet, view' \in ViewRecord, requested' \in Nat, RepliesOK(replies'),
         ContentOK(view'.state, view'.content, pickerAction'), pickerAction' \in PickActions
  PROVE  ConsoleInv' /\ SentAsShown
<1>1. executing' = executing /\ lines' = lines /\ Len(executing) \in Nat
  BY DEF Quiet, ConsoleInv
<1> QED
  BY <1>1 DEF ConsoleInv, SentAsShown, RepliesOK, PickActions

(* A step that sends the command the screen shows.                         *)
LEMMA CommandSent ==
  ASSUME ConsoleInv, NEW command \in Commands, startCommand(command), Shown(command),
         view' \in ViewRecord, requested' \in Nat, RepliesOK(replies'),
         ContentOK(view'.state, view'.content, pickerAction'), pickerAction' \in PickActions
  PROVE  ConsoleInv' /\ SentAsShown
<1>1. executing \in Seq(Commands) /\ executing' = Append(executing, command)
  BY DEF ConsoleInv, startCommand
<1>2. executing' \in Seq(Commands) /\ Last(executing') = command
  <2>1. PICK e \in Seq(Commands) : e = executing
    BY <1>1
  <2>2. /\ Append(e, command) \in Seq(Commands) /\ Len(Append(e, command)) = Len(e) + 1
        /\ Append(e, command)[Len(e) + 1] = command
    BY AppendProperties
  <2> QED
    BY <1>1, <2>1, <2>2 DEF Last
<1>3. lines' \intersect SecretCommands = {}
  BY DEF ConsoleInv, startCommand, commandLabel
<1> QED
  BY <1>2, <1>3 DEF ConsoleInv, SentAsShown, RepliesOK, PickActions

-----------------------------------------------------------------------------
(* The wizard: what each of its steps keeps.                               *)

Base(w) == w \in WizardRecord /\ \A i \in 1 .. Len(w.history) : GoesBack(w.history[i])
Chosen(w) ==
  /\ w.mc \in MinecraftVersions /\ w.index = w.mc /\ w.loader \in LoaderNames
  /\ w.loaderVersion # None => w.loaderVersion \in LoaderVersions[<<w.mc, w.loader>>]
  /\ w.recipe \notin {None, "declined"} => w.recipe \in Recipes[<<w.mc, w.loader>>]
  /\ w.recipe = "declined" => Recipes[<<w.mc, w.loader>>] # {}

(* A wizard that is right is right on the screen, whichever action the     *)
(* picker was opened for.                                                  *)
LEMMA WizardTurns ==
  ASSUME view \in ViewRecord, NEW w, WizardOK(w), Wizard(w)
  PROVE  view' \in ViewRecord /\ \A a : ContentOK(view'.state, view'.content, a)
<1>1. "wizard" \in States /\ w \in Contents
  BY DEF States, Contents, WizardOK
<1>2. view' = Show("wizard", w)
  BY DEF Wizard
<1>3. view' \in ViewRecord /\ view'.state = "wizard" /\ view'.content = w
  BY <1>1, <1>2, ShowIs
<1> QED
  BY <1>3 DEF ContentOK

(* A new wizard has chosen nothing, and its request is the newest.         *)
LEMMA NewWizardOpens ==
  ASSUME ConsoleInv, NEW name \in ConsoleBuilds \cup {None}, newWizard(name)
  PROVE  /\ view' \in ViewRecord /\ \A a : ContentOK(view'.state, view'.content, a)
         /\ requested' \in Nat /\ RepliesOK(replies')
<1> DEFINE w == NewWizard(name, requested + 1)
<1>1. w \in WizardRecord /\ w.step = "version" /\ w.history = <<>> /\ ~w.problem
  <2>1. <<>> \in Seq(KeptWizard) /\ requested + 1 \in Nat
    BY DEF ConsoleInv
  <2>2. None \in LoaderNumbers /\ None \in RecipeNames
    BY Zenon DEF LoaderNumbers, RecipeNames
  <2>3. "version" \in Steps
    BY DEF Steps
  <2> QED
    BY <2>1, <2>2, <2>3 DEF NewWizard, WizardRecord, WizardOf
<1>2. Wizard(w)
  BY DEF newWizard, Wizard
<1>3. replies' = replies \union {[kind |-> "versions", request |-> requested + 1]}
  BY DEF newWizard, Send
<1> HIDE DEF w
<1>4. WizardOK(w)
  <2>1. Len(w.history) = 0
    BY <1>1
  <2> QED
    BY <1>1, <2>1 DEF WizardOK, Consistent
<1>5. view \in ViewRecord
  BY DEF ConsoleInv
<1>6. RepliesOK(replies')
  BY <1>3 DEF ConsoleInv, RepliesOK
<1> QED
  BY <1>2, <1>4, <1>5, <1>6, WizardTurns DEF ConsoleInv, newWizard

(* The request for loaders carries the version that was chosen, and the    *)
(* wizard waits for no other reply.                                        *)
LEMMA LoadersFetched ==
  ASSUME ConsoleInv, NEW w, Base(w), w.step = "version", w.mc \in MinecraftVersions, fetchLoaders(w)
  PROVE  /\ view' \in ViewRecord /\ \A a : ContentOK(view'.state, view'.content, a)
         /\ requested' \in Nat /\ RepliesOK(replies')
<1> DEFINE v == [w EXCEPT !.loading = TRUE, !.problem = FALSE, !.request = requested + 1]
<1>1. v \in WizardRecord /\ v.step = "version" /\ v.history = w.history /\ ~v.problem
  <2>1. requested + 1 \in Nat
    BY DEF ConsoleInv
  <2> QED
    BY <2>1 DEF Base, WizardRecord, WizardOf
<1>2. Wizard(v) /\ requested' = requested + 1
  BY DEF fetchLoaders
<1>3. replies' = replies \union {[kind |-> "loaders", request |-> requested + 1, mc |-> w.mc]}
  BY DEF fetchLoaders, Send
<1> HIDE DEF v
<1>4. WizardOK(v)
  BY <1>1 DEF WizardOK, Base, Consistent
<1>5. view \in ViewRecord
  BY DEF ConsoleInv
<1>6. RepliesOK(replies')
  BY <1>3 DEF ConsoleInv, RepliesOK
<1> QED
  BY <1>2, <1>4, <1>5, <1>6, WizardTurns DEF ConsoleInv

(* Remembered is the same wizard with one more page to go back to.         *)
LEMMA RememberedIs ==
  ASSUME view.state = "wizard", WizardOK(view.content), view.content.step # "review",
         ~view.content.loading, ~view.content.problem
  PROVE  \E w : /\ Remembered = w /\ Base(w) /\ ~w.loading /\ ~w.problem
                /\ w.step = view.content.step /\ w.mc = view.content.mc /\ w.index = view.content.index
                /\ w.loader = view.content.loader /\ w.loaderVersion = view.content.loaderVersion
                /\ w.recipe = view.content.recipe /\ w.platforms = view.content.platforms
<1>1. PICK c : c = view.content
  OBVIOUS
<1>2. c \in WizardRecord /\ Consistent(c) /\ c.step # "review" /\ ~c.loading /\ ~c.problem
  BY <1>1 DEF WizardOK
<1> DEFINE k == [c EXCEPT !.history = <<>>, !.name = None, !.platforms = {},
                          !.loading = FALSE, !.request = 0, !.problem = FALSE]
<1>3. k \in KeptWizard
  BY <1>2 DEF WizardRecord, KeptWizard, WizardOf
<1>4. /\ k.step = c.step /\ k.mc = c.mc /\ k.index = c.index /\ k.loader = c.loader
      /\ k.loaderVersion = c.loaderVersion /\ k.recipe = c.recipe /\ ~k.loading /\ ~k.problem
  BY <1>2 DEF WizardRecord, WizardOf
<1>5. Kept = k
  BY <1>1 DEF Kept, wizard
<1> HIDE DEF k
<1>6. GoesBack(k)
  BY <1>2, <1>4 DEF GoesBack, Consistent
<1>7. PICK h \in Seq(KeptWizard) : h = c.history
  BY <1>2 DEF WizardRecord, WizardOf
<1> DEFINE g == Append(h, k)
<1>8. /\ g \in Seq(KeptWizard) /\ Len(g) = Len(h) + 1 /\ Len(h) \in Nat /\ g[Len(h) + 1] = k
      /\ \A i \in 1 .. Len(h) : g[i] = h[i]
  BY <1>3, AppendProperties
<1> DEFINE w == [c EXCEPT !.history = g]
<1>9. w = Remembered
  BY <1>1, <1>5, <1>7 DEF Remembered, wizard
<1> HIDE DEF g
<1>10. \A i \in 1 .. Len(g) : GoesBack(g[i])
  <2>1. \A i \in 1 .. Len(h) : GoesBack(h[i])
    BY <1>1, <1>7 DEF WizardOK
  <2> QED
    BY <1>6, <1>8, <2>1
<1>11. w \in WizardRecord /\ w.history = g
  BY <1>2, <1>8 DEF WizardRecord, WizardOf
<1>12. /\ w.step = c.step /\ w.mc = c.mc /\ w.index = c.index /\ w.loader = c.loader
       /\ w.loaderVersion = c.loaderVersion /\ w.recipe = c.recipe
       /\ w.loading = c.loading /\ w.problem = c.problem /\ w.platforms = c.platforms
  BY <1>2 DEF WizardRecord, WizardOf
<1> HIDE DEF w
<1> QED
  BY <1>1, <1>2, <1>9, <1>10, <1>11, <1>12 DEF Base

(* Another page of the wizard keeps what was chosen.                       *)
LEMMA StepTaken ==
  ASSUME NEW w, Base(w), ~w.loading, ~w.problem, NEW step \in Steps
  PROVE  \E v : /\ v = [w EXCEPT !.step = step] /\ Base(v) /\ ~v.loading /\ ~v.problem /\ v.step = step
                /\ v.mc = w.mc /\ v.index = w.index /\ v.loader = w.loader /\ v.platforms = w.platforms
                /\ v.loaderVersion = w.loaderVersion /\ v.recipe = w.recipe
<1> DEFINE v == [w EXCEPT !.step = step]
<1>1. v \in WizardRecord /\ v.history = w.history /\ v.step = step
  BY DEF Base, WizardRecord, WizardOf
<1>2. /\ v.mc = w.mc /\ v.index = w.index /\ v.loader = w.loader /\ v.platforms = w.platforms
      /\ v.loaderVersion = w.loaderVersion /\ v.recipe = w.recipe
      /\ v.loading = w.loading /\ v.problem = w.problem
  BY DEF Base, WizardRecord, WizardOf
<1>3. v = [w EXCEPT !.step = step]
  OBVIOUS
<1> HIDE DEF v
<1> QED
  BY <1>1, <1>2, <1>3 DEF Base

(* The page of the name comes after choices the server offered.            *)
LEMMA NameAsked ==
  ASSUME NEW w, Base(w), ~w.loading, ~w.problem, Chosen(w)
  PROVE  WizardOK(askName(w))
<1>1. PICK v : /\ v = [w EXCEPT !.step = "name"] /\ Base(v) /\ ~v.loading /\ ~v.problem /\ v.step = "name"
               /\ v.mc = w.mc /\ v.index = w.index /\ v.loader = w.loader /\ v.platforms = w.platforms
               /\ v.loaderVersion = w.loaderVersion /\ v.recipe = w.recipe
  BY StepTaken DEF Steps
<1>2. WizardOK(v)
  BY <1>1 DEF WizardOK, Consistent, Chosen, Base
<1> QED
  BY <1>1, <1>2 DEF askName

(* So does the page of the loader version,                                 *)
LEMMA LoaderVersionAsked ==
  ASSUME NEW w, Base(w), ~w.loading, ~w.problem, Chosen(w)
  PROVE  WizardOK(askLoaderVersion(w))
<1>1. PICK v : /\ v = [w EXCEPT !.step = "loaderVersion"] /\ Base(v) /\ ~v.loading /\ ~v.problem
               /\ v.step = "loaderVersion"
               /\ v.mc = w.mc /\ v.index = w.index /\ v.loader = w.loader /\ v.platforms = w.platforms
               /\ v.loaderVersion = w.loaderVersion /\ v.recipe = w.recipe
  BY StepTaken DEF Steps
<1>2. WizardOK(v)
  BY <1>1 DEF WizardOK, Consistent, Chosen, Base
<1>3. askLoaderVersion(w) \in {askName(w), v}
  BY <1>1 DEF askLoaderVersion
<1> QED
  BY <1>2, <1>3, NameAsked

(* and the page of the recipe.                                             *)
LEMMA RecipeAsked ==
  ASSUME NEW w, Base(w), ~w.loading, ~w.problem, Chosen(w)
  PROVE  WizardOK(askRecipe(w))
<1>1. PICK v : /\ v = [w EXCEPT !.step = "recipe"] /\ Base(v) /\ ~v.loading /\ ~v.problem /\ v.step = "recipe"
               /\ v.mc = w.mc /\ v.index = w.index /\ v.loader = w.loader /\ v.platforms = w.platforms
               /\ v.loaderVersion = w.loaderVersion /\ v.recipe = w.recipe
  BY StepTaken DEF Steps
<1>2. Recipes[<<w.index, w.loader>>] # {} => WizardOK(v)
  BY <1>1 DEF WizardOK, Consistent, Chosen, Base
<1>3. \/ Recipes[<<w.index, w.loader>>] = {} /\ askRecipe(w) = askLoaderVersion(w)
      \/ Recipes[<<w.index, w.loader>>] # {} /\ askRecipe(w) = v
  BY <1>1 DEF askRecipe
<1> QED
  BY <1>2, <1>3, LoaderVersionAsked

(* What the server offers for a version and a loader is what the wizard can*)
(* hold.                                                                   *)
LEMMA OffersTyped ==
  ASSUME NEW mc \in MinecraftVersions, NEW loader \in LoaderNames
  PROVE  /\ LoaderVersions[<<mc, loader>>] \subseteq LoaderNumbers /\ Recipes[<<mc, loader>>] \subseteq RecipeNames
         /\ None \in LoaderNumbers /\ None \in RecipeNames /\ "declined" \in RecipeNames
<1>1. <<mc, loader>> \in MinecraftVersions \X LoaderNames
  OBVIOUS
<1> QED
  BY <1>1, Zenon DEF LoaderNumbers, RecipeNames

(* What the answers of the wizard's pages lead to.                         *)
LEMMA LoaderTaken ==
  ASSUME NEW w, Base(w), ~w.loading, ~w.problem, w.mc \in MinecraftVersions, w.index = w.mc,
         NEW loader \in LoaderNames
  PROVE  WizardOK(askRecipe([w EXCEPT !.loader = loader, !.loaderVersion = None, !.recipe = None]))
<1> DEFINE v == [w EXCEPT !.loader = loader, !.loaderVersion = None, !.recipe = None]
<1>1. None \in LoaderNumbers /\ None \in RecipeNames
  BY OffersTyped
<1>2. v \in WizardRecord /\ v.history = w.history
  BY <1>1 DEF Base, WizardRecord, WizardOf
<1>3. /\ v.mc = w.mc /\ v.index = w.index /\ v.loader = loader /\ v.loaderVersion = None /\ v.recipe = None
      /\ v.loading = w.loading /\ v.problem = w.problem
  BY DEF Base, WizardRecord, WizardOf
<1> HIDE DEF v
<1>4. Base(v) /\ ~v.loading /\ ~v.problem /\ Chosen(v)
  BY <1>2, <1>3 DEF Base, Chosen, None
<1>5. WizardOK(askRecipe(v))
  BY <1>4, RecipeAsked
<1> QED
  BY <1>5 DEF v

(* A recipe from the list was offered for the version and the loader.      *)
LEMMA RecipeTaken ==
  ASSUME NEW w, Base(w), ~w.loading, ~w.problem, Chosen(w), NEW recipe \in RecipeNames,
         recipe # "declined" => recipe \in Recipes[<<w.mc, w.loader>>],
         Recipes[<<w.mc, w.loader>>] # {}
  PROVE  \E v : /\ v = [w EXCEPT !.recipe = recipe] /\ Base(v) /\ ~v.loading /\ ~v.problem /\ Chosen(v)
<1> DEFINE v == [w EXCEPT !.recipe = recipe]
<1>1. v = [w EXCEPT !.recipe = recipe]
  OBVIOUS
<1>2. v \in WizardRecord /\ v.history = w.history
  BY DEF Base, WizardRecord, WizardOf
<1>3. /\ v.mc = w.mc /\ v.index = w.index /\ v.loader = w.loader /\ v.loaderVersion = w.loaderVersion
      /\ v.recipe = recipe /\ v.loading = w.loading /\ v.problem = w.problem
  BY DEF Base, WizardRecord, WizardOf
<1> HIDE DEF v
<1>4. Base(v) /\ ~v.loading /\ ~v.problem /\ Chosen(v)
  BY <1>2, <1>3 DEF Base, Chosen
<1> QED
  BY <1>1, <1>4

(* So was a loader version.                                                *)
LEMMA VersionTaken ==
  ASSUME NEW w, Base(w), ~w.loading, ~w.problem, Chosen(w), NEW version \in LoaderVersions[<<w.mc, w.loader>>]
  PROVE  WizardOK(askName([w EXCEPT !.loaderVersion = version]))
<1> DEFINE v == [w EXCEPT !.loaderVersion = version]
<1>1. version \in LoaderNumbers
  BY OffersTyped DEF Chosen
<1>2. v \in WizardRecord /\ v.history = w.history
  BY <1>1 DEF Base, WizardRecord, WizardOf
<1>3. /\ v.mc = w.mc /\ v.index = w.index /\ v.loader = w.loader /\ v.loaderVersion = version
      /\ v.recipe = w.recipe /\ v.loading = w.loading /\ v.problem = w.problem
  BY DEF Base, WizardRecord, WizardOf
<1> HIDE DEF v
<1>4. Base(v) /\ ~v.loading /\ ~v.problem /\ Chosen(v)
  BY <1>2, <1>3 DEF Base, Chosen
<1>5. WizardOK(askName(v))
  BY <1>4, NameAsked
<1> QED
  BY <1>5 DEF v

ForVersion(w, mc) == [w EXCEPT !.mc = mc, !.loader = None, !.loaderVersion = None, !.recipe = None]

(* Another Minecraft version forgets what was chosen for the last one.     *)
LEMMA MinecraftTaken ==
  ASSUME NEW w, Base(w), w.step = "version", NEW mc \in MinecraftVersions
  PROVE  Base(ForVersion(w, mc)) /\ ForVersion(w, mc).step = "version" /\ ForVersion(w, mc).mc = mc
<1>1. None \in LoaderNumbers /\ None \in RecipeNames
  BY Zenon DEF LoaderNumbers, RecipeNames
<1>2. /\ ForVersion(w, mc) \in WizardRecord /\ ForVersion(w, mc).history = w.history
      /\ ForVersion(w, mc).step = "version" /\ ForVersion(w, mc).mc = mc
  BY <1>1 DEF Base, WizardRecord, WizardOf, ForVersion
<1> QED
  BY <1>2 DEF Base

(* Only the name or the platforms change.                                  *)
LEMMA NameTyped ==
  ASSUME NEW w, WizardOK(w), w.step # "review", NEW name \in ConsoleBuilds \cup {None},
         NEW platforms \in SUBSET GamePlatforms
  PROVE  WizardOK([w EXCEPT !.name = name]) /\ WizardOK([w EXCEPT !.platforms = platforms])
<1> DEFINE v == [w EXCEPT !.name = name]
           u == [w EXCEPT !.platforms = platforms]
<1>0. w \in WizardRecord
  BY DEF WizardOK
<1>1. v \in WizardRecord /\ v.history = w.history /\ u \in WizardRecord /\ u.history = w.history
  BY <1>0 DEF WizardRecord, WizardOf
<1>2. /\ v.step = w.step /\ v.mc = w.mc /\ v.index = w.index /\ v.loader = w.loader
      /\ v.loaderVersion = w.loaderVersion /\ v.recipe = w.recipe
      /\ v.loading = w.loading /\ v.problem = w.problem
  BY <1>0 DEF WizardRecord, WizardOf
<1>3. /\ u.step = w.step /\ u.mc = w.mc /\ u.index = w.index /\ u.loader = w.loader
      /\ u.loaderVersion = w.loaderVersion /\ u.recipe = w.recipe
      /\ u.loading = w.loading /\ u.problem = w.problem
  BY <1>0 DEF WizardRecord, WizardOf
<1> HIDE DEF v, u
<1>4. WizardOK(v)
  BY <1>1, <1>2 DEF WizardOK, Consistent
<1>5. WizardOK(u)
  BY <1>1, <1>3 DEF WizardOK, Consistent
<1> QED
  BY <1>4, <1>5 DEF v, u

(* The pages of platforms and of the review change no choice; the review is*)
(* reached with a platform.                                                *)
LEMMA PageTurned ==
  ASSUME NEW w, Base(w), ~w.loading, ~w.problem, Chosen(w),
         NEW step \in {"platforms", "review"}, step = "review" => w.platforms # {}
  PROVE  WizardOK([w EXCEPT !.step = step])
<1>1. PICK v : /\ v = [w EXCEPT !.step = step] /\ Base(v) /\ ~v.loading /\ ~v.problem /\ v.step = step
               /\ v.mc = w.mc /\ v.index = w.index /\ v.loader = w.loader /\ v.platforms = w.platforms
               /\ v.loaderVersion = w.loaderVersion /\ v.recipe = w.recipe
  <2>1. step \in Steps
    BY DEF Steps
  <2> QED
    BY <2>1, StepTaken
<1>2. WizardOK(v)
  BY <1>1 DEF WizardOK, Consistent, Chosen, Base
<1> QED
  BY <1>1, <1>2

(* Esc: the page before, with the name and the platforms of this one.      *)
LEMMA BackIs ==
  ASSUME view.state = "wizard", WizardOK(view.content), view.content.history # <<>>
  PROVE  WizardOK(back)
<1>1. PICK c : c = view.content /\ WizardOK(c) /\ c.history # <<>>
  OBVIOUS
<1>2. c \in WizardRecord
  BY <1>1 DEF WizardOK
<1>3. PICK h \in Seq(KeptWizard) : h = c.history /\ h # <<>>
  BY <1>1, <1>2 DEF WizardRecord, WizardOf
<1>4. Len(h) \in Nat \ {0} /\ \A i \in 1 .. Len(h) : GoesBack(h[i]) /\ h[i] \in KeptWizard
  BY <1>1, <1>3 DEF WizardOK
<1> DEFINE front == SubSeq(h, 1, Len(h) - 1)
<1>5. /\ front \in Seq(KeptWizard) /\ Len(front) = Len(h) - 1
      /\ \A i \in 1 .. Len(front) : front[i] = h[i]
  <2>1. PICK n \in Nat : n = Len(h) - 1
    BY <1>4
  <2>2. \A i \in 1 .. n : h[i] \in KeptWizard
    BY <1>4, <2>1
  <2>3. /\ SubSeq(h, 1, n) \in Seq(KeptWizard)
        /\ Len(SubSeq(h, 1, n)) = IF 1 <= n THEN n - 1 + 1 ELSE 0
        /\ \A i \in 1 .. n - 1 + 1 : SubSeq(h, 1, n)[i] = h[1 + i - 1]
    BY <2>2, SubSeqProperties
  <2>4. front = SubSeq(h, 1, n)
    BY <2>1
  <2> HIDE DEF front
  <2> QED
    BY <2>1, <2>3, <2>4
<1>6. PICK k \in KeptWizard : k = h[Len(h)] /\ GoesBack(k)
  BY <1>4
<1>7. back = [k EXCEPT !.history = front, !.name = c.name, !.platforms = c.platforms]
  BY <1>1, <1>3, <1>6 DEF back, wizard, Last, Front
<1> HIDE DEF front
<1> DEFINE v == [k EXCEPT !.history = front, !.name = c.name, !.platforms = c.platforms]
<1>8. c.name \in ConsoleBuilds \cup {None} /\ c.platforms \in SUBSET GamePlatforms
  BY <1>2 DEF WizardRecord, WizardOf
<1>9. v \in WizardRecord /\ v.history = front
  BY <1>5, <1>8 DEF WizardRecord, KeptWizard, WizardOf
<1>10. /\ v.step = k.step /\ v.mc = k.mc /\ v.index = k.index /\ v.loader = k.loader
       /\ v.loaderVersion = k.loaderVersion /\ v.recipe = k.recipe
       /\ v.loading = k.loading /\ v.problem = k.problem
  BY DEF KeptWizard, WizardOf
<1> HIDE DEF v
<1>11. \A i \in 1 .. Len(front) : GoesBack(front[i])
  BY <1>4, <1>5
<1>12. WizardOK(v)
  BY <1>11, <1>6, <1>9, <1>10 DEF WizardOK, GoesBack, Consistent
<1> QED
  BY <1>7, <1>12 DEF v

(* A reply that is waited for: an error, or the lists it brings.           *)
LEMMA ReplyTaken ==
  ASSUME NEW w, WizardOK(w), w.loading, NEW mc \in MinecraftVersions \cup {None}
  PROVE  /\ WizardOK([w EXCEPT !.loading = FALSE, !.problem = TRUE])
         /\ WizardOK([w EXCEPT !.loading = FALSE, !.step = "version", !.index = w.index])
         /\ mc = w.mc /\ mc \in MinecraftVersions =>
              WizardOK([w EXCEPT !.loading = FALSE, !.step = "loader", !.index = mc])
<1> DEFINE v == [w EXCEPT !.loading = FALSE, !.problem = TRUE]
           u == [w EXCEPT !.loading = FALSE, !.step = "version", !.index = w.index]
           t == [w EXCEPT !.loading = FALSE, !.step = "loader", !.index = mc]
<1>0. w \in WizardRecord /\ "version" \in Steps /\ "loader" \in Steps /\ w.step = "version"
  BY DEF WizardOK, Steps
<1>1. /\ v \in WizardRecord /\ v.history = w.history /\ v.step = w.step /\ ~v.loading
  BY <1>0 DEF WizardRecord, WizardOf
<1>2. u \in WizardRecord /\ u.history = w.history /\ u.step = "version" /\ ~u.loading
  BY <1>0 DEF WizardRecord, WizardOf
<1>3. /\ t \in WizardRecord /\ t.history = w.history /\ t.step = "loader" /\ t.index = mc /\ t.mc = w.mc
      /\ ~t.loading /\ t.problem = w.problem
  BY <1>0 DEF WizardRecord, WizardOf
<1> HIDE DEF v, u, t
<1>4. WizardOK(v)
  BY <1>0, <1>1 DEF WizardOK, Consistent
<1>5. WizardOK(u)
  BY <1>2 DEF WizardOK, Consistent
<1>6. mc = w.mc /\ mc \in MinecraftVersions => WizardOK(t)
  BY <1>3 DEF WizardOK, Consistent
<1> QED
  BY <1>4, <1>5, <1>6 DEF v, u, t

-----------------------------------------------------------------------------
(* The steps of the console, one lemma per screen.                         *)

(* Enter in the wizard, on each of its pages (wizard.advance).             *)
LEMMA AdvanceKeeps ==
  ASSUME ConsoleInv, view.state = "wizard", ~view.content.loading, ~view.content.problem, advance
  PROVE  /\ view' \in ViewRecord /\ \A a : ContentOK(view'.state, view'.content, a)
         /\ requested' \in Nat /\ RepliesOK(replies')
<1>1. PICK c : c = view.content /\ WizardOK(c) /\ wizard = c
  BY DEF ConsoleInv, ContentOK, wizard
<1>2. view \in ViewRecord /\ requested \in Nat /\ RepliesOK(replies)
  BY DEF ConsoleInv, RepliesOK
<1>3. c.step # "review" =>
        \E w : /\ Remembered = w /\ Base(w) /\ ~w.loading /\ ~w.problem
               /\ w.step = c.step /\ w.mc = c.mc /\ w.index = c.index
               /\ w.loader = c.loader /\ w.loaderVersion = c.loaderVersion
               /\ w.recipe = c.recipe /\ w.platforms = c.platforms
  BY <1>1, RememberedIs
<1>4. CASE /\ c.step = "version"
           /\ \E mc \in MinecraftVersions :
                fetchLoaders([Remembered EXCEPT !.mc = mc, !.loader = None, !.loaderVersion = None, !.recipe = None])
  <2>1. PICK w : Remembered = w /\ Base(w) /\ w.step = "version"
    BY <1>3, <1>4
  <2>2. PICK mc \in MinecraftVersions : fetchLoaders(ForVersion(w, mc))
    BY <1>4, <2>1 DEF ForVersion
  <2>3. Base(ForVersion(w, mc)) /\ ForVersion(w, mc).step = "version" /\ ForVersion(w, mc).mc = mc
    BY <2>1, <2>2, MinecraftTaken
  <2>4. PICK v : v = ForVersion(w, mc)
    OBVIOUS
  <2> QED
    BY <2>2, <2>3, <2>4, LoadersFetched
<1>5. ASSUME UNCHANGED <<requested, replies>>, NEW v, WizardOK(v), Wizard(v)
      PROVE  /\ view' \in ViewRecord /\ \A a : ContentOK(view'.state, view'.content, a)
             /\ requested' \in Nat /\ RepliesOK(replies')
  BY <1>2, <1>5, WizardTurns
<1>6. CASE /\ UNCHANGED <<requested, replies>> /\ c.step = "loader"
           /\ \E loader \in LoaderNames :
                Wizard(askRecipe([Remembered EXCEPT !.loader = loader, !.loaderVersion = None, !.recipe = None]))
  <2>1. PICK w : /\ Remembered = w /\ Base(w) /\ ~w.loading /\ ~w.problem
                 /\ w.mc = c.mc /\ w.index = c.index
    BY <1>3, <1>6
  <2>2. w.mc \in MinecraftVersions /\ w.index = w.mc
    BY <1>1, <1>6, <2>1 DEF WizardOK, Consistent
  <2>3. PICK loader \in LoaderNames :
          Wizard(askRecipe([w EXCEPT !.loader = loader, !.loaderVersion = None, !.recipe = None]))
    BY <1>6, <2>1
  <2> DEFINE v == askRecipe([w EXCEPT !.loader = loader, !.loaderVersion = None, !.recipe = None])
  <2>4. WizardOK(v)
    BY <2>1, <2>2, LoaderTaken
  <2>5. Wizard(v)
    BY <2>3
  <2> HIDE DEF v
  <2> QED
    BY <1>5, <1>6, <2>4, <2>5
<1>7. ASSUME c.step \in {"recipe", "loaderVersion", "name", "platforms"}
      PROVE  \E w : /\ Remembered = w /\ Base(w) /\ ~w.loading /\ ~w.problem /\ Chosen(w)
                    /\ w.mc = c.mc /\ w.index = c.index /\ w.loader = c.loader /\ c.index = c.mc
                    /\ c.step = "recipe" => Recipes[<<w.mc, w.loader>>] # {}
  <2>1. PICK w : /\ Remembered = w /\ Base(w) /\ ~w.loading /\ ~w.problem
                 /\ w.step = c.step /\ w.mc = c.mc /\ w.index = c.index
                 /\ w.loader = c.loader /\ w.loaderVersion = c.loaderVersion
                 /\ w.recipe = c.recipe
    BY <1>3, <1>7
  <2>2. Chosen(w) /\ c.index = c.mc /\ (c.step = "recipe" => Recipes[<<w.mc, w.loader>>] # {})
    BY <1>1, <1>7, <2>1 DEF WizardOK, Consistent, Chosen
  <2> QED
    BY <2>1, <2>2
<1>8. CASE /\ UNCHANGED <<requested, replies>> /\ c.step = "recipe"
           /\ \/ Wizard(askLoaderVersion([Remembered EXCEPT !.recipe = "declined"]))
              \/ \E r \in Recipes[<<c.index, c.loader>>] : Wizard(askName([Remembered EXCEPT !.recipe = r]))
  <2>1. PICK w : /\ Remembered = w /\ Base(w) /\ ~w.loading /\ ~w.problem /\ Chosen(w)
                 /\ w.mc = c.mc /\ w.index = c.index /\ w.loader = c.loader /\ c.index = c.mc
                 /\ Recipes[<<w.mc, w.loader>>] # {}
    BY <1>7, <1>8
  <2>2. "declined" \in RecipeNames /\ Recipes[<<w.mc, w.loader>>] \subseteq RecipeNames
    BY <2>1, OffersTyped DEF Chosen
  <2>3. CASE Wizard(askLoaderVersion([w EXCEPT !.recipe = "declined"]))
    <3>1. PICK v : v = [w EXCEPT !.recipe = "declined"] /\ Base(v) /\ ~v.loading /\ ~v.problem /\ Chosen(v)
      BY <2>1, <2>2, RecipeTaken
    <3>2. WizardOK(askLoaderVersion(v)) /\ Wizard(askLoaderVersion(v))
      BY <2>3, <3>1, LoaderVersionAsked
    <3> QED
      BY <1>5, <1>8, <3>2
  <2>4. ASSUME NEW r \in Recipes[<<c.index, c.loader>>], Wizard(askName([w EXCEPT !.recipe = r]))
        PROVE  /\ view' \in ViewRecord /\ \A a : ContentOK(view'.state, view'.content, a)
               /\ requested' \in Nat /\ RepliesOK(replies')
    <3>1. r \in Recipes[<<w.mc, w.loader>>] /\ r \in RecipeNames
      BY <2>1, <2>2, <2>4
    <3>2. PICK v : v = [w EXCEPT !.recipe = r] /\ Base(v) /\ ~v.loading /\ ~v.problem /\ Chosen(v)
      BY <2>1, <3>1, RecipeTaken
    <3>3. WizardOK(askName(v)) /\ Wizard(askName(v))
      BY <2>4, <3>2, NameAsked
    <3> QED
      BY <1>5, <1>8, <3>3
  <2> QED
    BY <1>8, <2>1, <2>3, <2>4
<1>9. CASE /\ UNCHANGED <<requested, replies>> /\ c.step = "loaderVersion"
           /\ \E v \in LoaderVersions[<<c.index, c.loader>>] :
                Wizard(askName([Remembered EXCEPT !.loaderVersion = v]))
  <2>1. PICK w : /\ Remembered = w /\ Base(w) /\ ~w.loading /\ ~w.problem /\ Chosen(w)
                 /\ w.mc = c.mc /\ w.index = c.index /\ w.loader = c.loader /\ c.index = c.mc
    BY <1>7, <1>9
  <2>2. PICK version \in LoaderVersions[<<w.mc, w.loader>>] : Wizard(askName([w EXCEPT !.loaderVersion = version]))
    BY <1>9, <2>1
  <2> DEFINE v == askName([w EXCEPT !.loaderVersion = version])
  <2>3. WizardOK(v) /\ Wizard(v)
    BY <2>1, <2>2, VersionTaken
  <2> HIDE DEF v
  <2> QED
    BY <1>5, <1>9, <2>3
<1>10. CASE /\ UNCHANGED <<requested, replies>> /\ c.step = "name"
            /\ \/ Wizard([Remembered EXCEPT !.step = "platforms"])
               \/ \E b \in ConsoleBuilds : Wizard([c EXCEPT !.name = b])
  <2>1. PICK w : Remembered = w /\ Base(w) /\ ~w.loading /\ ~w.problem /\ Chosen(w)
    BY <1>7, <1>10
  <2>2. CASE Wizard([w EXCEPT !.step = "platforms"])
    <3> DEFINE v == [w EXCEPT !.step = "platforms"]
    <3>1. WizardOK(v) /\ Wizard(v)
      BY <2>1, <2>2, PageTurned
    <3> HIDE DEF v
    <3> QED
      BY <1>5, <1>10, <3>1
  <2>3. ASSUME NEW b \in ConsoleBuilds, Wizard([c EXCEPT !.name = b])
        PROVE  /\ view' \in ViewRecord /\ \A a : ContentOK(view'.state, view'.content, a)
               /\ requested' \in Nat /\ RepliesOK(replies')
    <3> DEFINE v == [c EXCEPT !.name = b]
    <3>1. WizardOK(v) /\ Wizard(v)
      BY <1>1, <1>10, <2>3, NameTyped
    <3> HIDE DEF v
    <3> QED
      BY <1>5, <1>10, <3>1
  <2> QED
    BY <1>10, <2>1, <2>2, <2>3
<1> QED
  BY <1>1, <1>4, <1>6, <1>8, <1>9, <1>10 DEF advance

(* The page of platforms.                                                  *)
LEMMA PlatformsKeep ==
  ASSUME ConsoleInv, view.state = "wizard", ~view.content.loading, ~view.content.problem, updatePlatforms
  PROVE  /\ view' \in ViewRecord /\ \A a : ContentOK(view'.state, view'.content, a)
         /\ requested' \in Nat /\ RepliesOK(replies')
<1>1. PICK c : c = view.content /\ WizardOK(c) /\ wizard = c
  BY DEF ConsoleInv, ContentOK, wizard
<1>2. /\ view \in ViewRecord /\ requested' \in Nat /\ RepliesOK(replies') /\ c.step = "platforms"
      /\ c.platforms \in SUBSET GamePlatforms
  BY <1>1 DEF ConsoleInv, RepliesOK, updatePlatforms, WizardOK, WizardRecord, WizardOf
<1>3. CASE \E p \in GamePlatforms : Wizard([c EXCEPT !.platforms = (@ \ {p}) \union ({p} \ @)])
  <2>1. PICK p \in GamePlatforms : Wizard([c EXCEPT !.platforms = (c.platforms \ {p}) \union ({p} \ c.platforms)])
    BY <1>3
  <2>2. PICK set \in SUBSET GamePlatforms : set = (c.platforms \ {p}) \union ({p} \ c.platforms)
    BY <1>2
  <2> DEFINE v == [c EXCEPT !.platforms = set]
  <2>3. Wizard(v)
    BY <2>1, <2>2
  <2>4. WizardOK(v)
    BY <1>1, <1>2, NameTyped
  <2> HIDE DEF v
  <2> QED
    BY <1>2, <2>3, <2>4, WizardTurns
<1>4. CASE c.platforms # {} /\ Wizard([Remembered EXCEPT !.step = "review"])
  <2>1. PICK w : /\ Remembered = w /\ Base(w) /\ ~w.loading /\ ~w.problem
                 /\ w.step = c.step /\ w.mc = c.mc /\ w.index = c.index
                 /\ w.loader = c.loader /\ w.loaderVersion = c.loaderVersion
                 /\ w.recipe = c.recipe /\ w.platforms = c.platforms
    BY <1>1, <1>2, RememberedIs
  <2>2. Chosen(w)
    BY <1>1, <1>2, <2>1 DEF WizardOK, Consistent, Chosen
  <2> DEFINE v == [w EXCEPT !.step = "review"]
  <2>3. WizardOK(v) /\ Wizard(v)
    BY <1>4, <2>1, <2>2, PageTurned
  <2> HIDE DEF v
  <2> QED
    BY <1>2, <2>3, WizardTurns
<1> QED
  BY <1>1, <1>3, <1>4 DEF updatePlatforms

(* The line that leaves the review is one the server offers.               *)
LEMMA ReviewedIs ==
  ASSUME ConsoleInv, view.state = "wizard", view.content.step = "review"
  PROVE  buildArguments \in Commands /\ Shown(buildArguments)
<1>1. PICK c : c = view.content /\ WizardOK(c) /\ wizard = c
  BY DEF ConsoleInv, ContentOK, wizard
<1>2. /\ c \in WizardRecord /\ c.mc \in MinecraftVersions /\ c.loader \in LoaderNames
      /\ c.loaderVersion # None => c.loaderVersion \in LoaderVersions[<<c.mc, c.loader>>]
      /\ c.recipe \notin {None, "declined"} => c.recipe \in Recipes[<<c.mc, c.loader>>]
      /\ c.recipe = "declined" => Recipes[<<c.mc, c.loader>>] # {}
      /\ c.platforms # {}
  BY <1>1 DEF WizardOK, Consistent
<1> DEFINE b == [op |-> "install", name |-> c.name, mc |-> c.mc, loader |-> c.loader,
                 loaderVersion |-> c.loaderVersion, recipe |-> c.recipe, platforms |-> c.platforms]
<1>3. b = buildArguments
  BY <1>1 DEF buildArguments
<1>4. b \in Commands
  <2>1. b \in [op : {"install"}, name : ConsoleBuilds \cup {None}, mc : MinecraftVersions \cup {None},
               loader : LoaderNames \cup {None}, loaderVersion : LoaderNumbers, recipe : RecipeNames,
               platforms : SUBSET GamePlatforms]
    BY <1>2 DEF WizardRecord, WizardOf
  <2> HIDE DEF b
  <2> QED
    BY <2>1 DEF Commands
<1>5. /\ b.op = "install" /\ b.mc = c.mc /\ b.loader = c.loader /\ b.loaderVersion = c.loaderVersion
      /\ b.recipe = c.recipe /\ b.platforms = c.platforms
  OBVIOUS
<1> HIDE DEF b
<1>6. <<c.mc, c.loader>> \in DOMAIN LoaderVersions
  BY <1>2, ConsoleAssumption
<1>7. Offered(b)
  BY <1>2, <1>5, <1>6 DEF Offered
<1>8. Shown(b)
  BY <1>1, <1>5, <1>7 DEF Shown
<1> QED
  BY <1>3, <1>4, <1>8

(* Every key in the wizard: Escape, the typed name, Enter and the review,  *)
(* whose request is what the review shows.                                 *)
LEMMA WizardKeeps ==
  ASSUME ConsoleInv, updateWizard
  PROVE  ConsoleInv' /\ SentAsShown
<1>0. /\ view \in ViewRecord /\ view.state = "wizard" /\ pickerAction' = pickerAction /\ pickerAction' \in PickActions
      /\ requested \in Nat /\ RepliesOK(replies)
  BY DEF updateWizard, ConsoleInv, RepliesOK, PickActions
<1>1. PICK c : c = view.content /\ WizardOK(c) /\ wizard = c
  BY <1>0 DEF ConsoleInv, ContentOK, wizard
<1>2. CASE /\ view' = IF c.history = <<>> THEN Main ELSE Show("wizard", back)
           /\ Quiet /\ UNCHANGED <<requested, replies>>
  <2>1. view' \in ViewRecord /\ \A a : ContentOK(view'.state, view'.content, a)
    <3>1. CASE c.history = <<>>
      BY <1>0, <1>2, <3>1, MainIs
    <3>2. CASE c.history # <<>>
      <4>1. WizardOK(back)
        BY <1>0, <1>1, <3>2, BackIs
      <4>2. Wizard(back)
        BY <1>2, <3>2 DEF Wizard
      <4> QED
        BY <1>0, <4>1, <4>2, WizardTurns
    <3> QED
      BY <3>1, <3>2
  <2> QED
    BY <1>0, <1>2, <2>1, CalmStep
<1>3. CASE /\ c.problem /\ Quiet
           /\ IF c.mc = None THEN newWizard(c.name) ELSE fetchLoaders(c)
  <2>1. /\ c \in WizardRecord /\ c.name \in ConsoleBuilds \cup {None} /\ c.mc \in MinecraftVersions \cup {None}
        /\ c.step = "version" /\ Base(c)
    BY <1>1, <1>3 DEF WizardOK, WizardRecord, WizardOf, Base
  <2>2. /\ view' \in ViewRecord /\ \A a : ContentOK(view'.state, view'.content, a)
        /\ requested' \in Nat /\ RepliesOK(replies')
    <3>1. CASE c.mc = None
      BY <1>3, <2>1, <3>1, NewWizardOpens
    <3>2. CASE c.mc # None
      BY <1>3, <2>1, <3>2, LoadersFetched
    <3> QED
      BY <3>1, <3>2
  <2> QED
    BY <1>0, <1>3, <2>2, CalmStep
<1>4. CASE ~c.loading /\ ~c.problem /\ (advance \/ updatePlatforms) /\ Quiet
  <2>1. /\ view' \in ViewRecord /\ \A a : ContentOK(view'.state, view'.content, a)
        /\ requested' \in Nat /\ RepliesOK(replies')
    BY <1>0, <1>1, <1>4, AdvanceKeeps, PlatformsKeep
  <2> QED
    BY <1>0, <1>4, <2>1, CalmStep
<1>5. CASE c.step = "review" /\ view' = Main /\ startCommand(buildArguments) /\ UNCHANGED <<requested, replies>>
  <2>1. buildArguments \in Commands /\ Shown(buildArguments)
    BY <1>0, <1>1, <1>5, ReviewedIs
  <2>2. view' \in ViewRecord /\ \A a : ContentOK(view'.state, view'.content, a)
    BY <1>0, <1>5, MainIs
  <2> QED
    BY <1>0, <1>5, <2>1, <2>2, CommandSent
<1> QED
  BY <1>1, <1>2, <1>3, <1>4, <1>5 DEF updateWizard

(* A reply for the wizard: one that is not for its latest request changes  *)
(* nothing.                                                                *)
LEMMA WizardMsgKeeps ==
  ASSUME ConsoleInv, wizardMsg
  PROVE  ConsoleInv' /\ SentAsShown
<1>0. /\ view \in ViewRecord /\ pickerAction' = pickerAction /\ pickerAction' \in PickActions
      /\ requested \in Nat /\ requested' = requested /\ RepliesOK(replies) /\ Quiet
  BY DEF wizardMsg, ConsoleInv, RepliesOK, PickActions
<1>1. PICK reply \in replies :
        /\ reply.kind \in {"versions", "loaders"} /\ replies' = replies \ {reply}
        /\ IF ~ Waited(reply) THEN UNCHANGED view
           ELSE \/ Wizard([wizard EXCEPT !.loading = FALSE, !.problem = TRUE])
                \/ Wizard([wizard EXCEPT !.loading = FALSE,
                              !.step = IF reply.kind = "loaders" THEN "loader" ELSE "version",
                              !.index = IF reply.kind = "loaders" THEN reply.mc ELSE @])
  BY DEF wizardMsg
<1>2. RepliesOK(replies')
  BY <1>0, <1>1 DEF RepliesOK
<1>3. view' \in ViewRecord /\ ContentOK(view'.state, view'.content, pickerAction')
  <2>1. CASE UNCHANGED view
    BY <1>0, <2>1 DEF ConsoleInv
  <2>2. CASE Waited(reply)
    <3>1. PICK c : c = view.content /\ wizard = c /\ WizardOK(c) /\ c.loading
      BY <2>2 DEF ConsoleInv, ContentOK, Waited, wizard
    <3>2. CASE Wizard([c EXCEPT !.loading = FALSE, !.problem = TRUE])
      <4> DEFINE v == [c EXCEPT !.loading = FALSE, !.problem = TRUE]
      <4>1. WizardOK(v)
        BY <3>1, ReplyTaken
      <4>2. Wizard(v)
        BY <3>2
      <4> HIDE DEF v
      <4> QED
        BY <1>0, <4>1, <4>2, WizardTurns
    <3>3. CASE /\ reply.kind = "loaders"
               /\ Wizard([c EXCEPT !.loading = FALSE, !.step = "loader", !.index = reply.mc])
      <4> DEFINE v == [c EXCEPT !.loading = FALSE, !.step = "loader", !.index = reply.mc]
      <4>1. reply.mc = c.mc /\ reply.mc \in MinecraftVersions
        BY <1>0, <2>2, <3>1, <3>3 DEF Waited, RepliesOK
      <4>2. WizardOK(v)
        BY <3>1, <4>1, ReplyTaken
      <4>3. Wizard(v)
        BY <3>3
      <4> HIDE DEF v
      <4> QED
        BY <1>0, <4>2, <4>3, WizardTurns
    <3>4. CASE Wizard([c EXCEPT !.loading = FALSE, !.step = "version", !.index = c.index])
      <4> DEFINE v == [c EXCEPT !.loading = FALSE, !.step = "version", !.index = c.index]
      <4>1. WizardOK(v)
        BY <3>1, ReplyTaken
      <4>2. Wizard(v)
        BY <3>4
      <4> HIDE DEF v
      <4> QED
        BY <1>0, <4>1, <4>2, WizardTurns
    <3> QED
      BY <1>1, <2>2, <3>1, <3>2, <3>3, <3>4
  <2> QED
    BY <1>1, <2>1, <2>2
<1> QED
  BY <1>0, <1>2, <1>3, CalmStep

(* Every key of the main screen, with its questions and its command line.  *)
LEMMA MainKeeps ==
  ASSUME ConsoleInv, updateMain
  PROVE  ConsoleInv' /\ SentAsShown
<1>0. /\ view \in ViewRecord /\ view.state = "main" /\ pickerAction \in PickActions
      /\ requested \in Nat /\ RepliesOK(replies)
  BY DEF updateMain, ConsoleInv, RepliesOK, PickActions
<1>1. ASSUME NEW confirm \in Confirms, NEW typing \in BOOLEAN
      PROVE  /\ [view EXCEPT !.confirm = confirm] \in ViewRecord /\ [view EXCEPT !.typing = typing] \in ViewRecord
             /\ [view EXCEPT !.confirm = confirm].state = "main" /\ [view EXCEPT !.typing = typing].state = "main"
  BY <1>0 DEF ViewRecord
<1>2. \A v, a : v.state = "main" => ContentOK(v.state, v.content, a)
  BY DEF ContentOK
<1>3. CASE /\ view.confirm # NoConfirm /\ view' = [view EXCEPT !.confirm = NoConfirm]
           /\ startCommand(view.confirm) \/ Quiet
           /\ UNCHANGED <<pickerAction, requested, replies>>
  <2>1. NoConfirm \in Confirms
    BY DEF Confirms
  <2>2. view' \in ViewRecord /\ view'.state = "main"
    BY <1>1, <1>3, <2>1
  <2>3. ContentOK(view'.state, view'.content, pickerAction')
    BY <1>2, <2>2
  <2>4. view.confirm \in Commands /\ Shown(view.confirm)
    <3>1. view.confirm \in Confirms
      BY <1>0 DEF ViewRecord
    <3>2. view.confirm \in [op : {"delete", "ban"}, name : ConsoleBuilds \cup STRING]
      BY <1>3, <3>1 DEF Confirms
    <3>3. view.confirm.op \in {"delete", "ban"}
      BY <3>2
    <3> QED
      BY <1>0, <3>2, <3>3 DEF Commands, Shown
  <2>5. requested' \in Nat /\ RepliesOK(replies') /\ pickerAction' \in PickActions
    BY <1>0, <1>3
  <2>6. CASE Quiet
    BY <2>2, <2>3, <2>5, <2>6, CalmStep
  <2>7. CASE startCommand(view.confirm)
    BY <2>2, <2>3, <2>4, <2>5, <2>7, CommandSent
  <2> QED
    BY <1>3, <2>6, <2>7
<1>4. CASE /\ view.typing /\ view' = [view EXCEPT !.typing = FALSE]
           /\ \/ \E line \in SecretCommands \union OpenCommands : startCommand([op |-> "typed", line |-> line])
              \/ Quiet
           /\ UNCHANGED <<pickerAction, requested, replies>>
  <2>2. view' \in ViewRecord /\ view'.state = "main"
    BY <1>0, <1>4 DEF ViewRecord
  <2>3. ContentOK(view'.state, view'.content, pickerAction')
    BY <1>2, <2>2
  <2>5. requested' \in Nat /\ RepliesOK(replies') /\ pickerAction' \in PickActions
    BY <1>0, <1>4
  <2>6. CASE Quiet
    BY <2>2, <2>3, <2>5, <2>6, CalmStep
  <2>7. ASSUME NEW line \in SecretCommands \union OpenCommands, startCommand([op |-> "typed", line |-> line])
        PROVE  ConsoleInv' /\ SentAsShown
    <3> DEFINE command == [op |-> "typed", line |-> line]
    <3>1. command \in [op : {"typed"}, line : SecretCommands \cup OpenCommands] /\ command.op = "typed"
      OBVIOUS
    <3>2. startCommand(command)
      BY <2>7
    <3> HIDE DEF command
    <3>3. command \in Commands /\ Shown(command)
      BY <1>4, <3>1 DEF Commands, Shown
    <3> QED
      BY <2>2, <2>3, <2>5, <3>2, <3>3, CommandSent
  <2> QED
    BY <1>4, <2>6, <2>7
<1>5. CASE Keys /\ Quiet
  <2> DEFINE Goal == /\ view' \in ViewRecord /\ ContentOK(view'.state, view'.content, pickerAction')
                     /\ requested' \in Nat /\ RepliesOK(replies') /\ pickerAction' \in PickActions
  <2>1. ASSUME view' \in {[view EXCEPT !.typing = TRUE], Show("help", None), Show("settings", None)},
               UNCHANGED <<pickerAction, requested, replies>>
        PROVE  Goal
    <3>1. None \in Contents /\ "help" \in States /\ "settings" \in States
      BY DEF Contents, States
    <3>2. /\ Show("help", None) \in ViewRecord /\ Show("settings", None) \in ViewRecord
          /\ Show("help", None).state = "help" /\ Show("settings", None).state = "settings"
          /\ Show("settings", None).content = None
      BY <1>0, <3>1, ShowIs
    <3>3. ContentOK(Show("help", None).state, Show("help", None).content, pickerAction)
      BY <3>2 DEF ContentOK
    <3>4. ContentOK(Show("settings", None).state, Show("settings", None).content, pickerAction)
      BY <3>2 DEF ContentOK
    <3>5. CASE view' = [view EXCEPT !.typing = TRUE]
      <4>1. view' \in ViewRecord /\ view'.state = "main"
        BY <1>0, <3>5 DEF ViewRecord
      <4> QED
        BY <1>0, <1>2, <2>1, <4>1
    <3> QED
      BY <1>0, <2>1, <3>2, <3>3, <3>4, <3>5
  <2>2. ASSUME newWizard(None), UNCHANGED pickerAction PROVE Goal
    BY <1>0, <2>2, NewWizardOpens
  <2>3. ASSUME pickerAction' \in {"card", "publish", "update", "delete"}, fetchBuilds, UNCHANGED <<view, requested>>
        PROVE  Goal
    <3>1. RepliesOK(replies')
      BY <1>0, <2>3 DEF fetchBuilds, Send, RepliesOK
    <3> QED
      BY <1>0, <1>2, <2>3, <3>1 DEF PickActions
  <2>4. ASSUME view' = Show("players", [rows |-> <<>>, cursor |-> 0]), fetchPlayers,
               UNCHANGED <<pickerAction, requested>>
        PROVE  Goal
    <3> DEFINE list == [rows |-> <<>>, cursor |-> 0]
    <3>1. list \in MenuRecord /\ list.rows = <<>>
      BY DEF MenuRecord, Rows
    <3>2. view' = Show("players", list)
      BY <2>4
    <3> HIDE DEF list
    <3>3. MenuOK(list)
      BY <3>1 DEF MenuOK, Loose
    <3>4. list \in Contents /\ "players" \in States
      BY <3>1 DEF Contents, States
    <3>5. view' \in ViewRecord /\ view'.state = "players" /\ view'.content = list
      BY <1>0, <3>2, <3>4, ShowIs
    <3>6. ContentOK(view'.state, view'.content, pickerAction')
      BY <3>3, <3>5 DEF ContentOK
    <3>7. RepliesOK(replies')
      BY <1>0, <2>4 DEF fetchPlayers, Send, RepliesOK
    <3> QED
      BY <1>0, <2>4, <3>5, <3>6, <3>7
  <2>5. Goal
    BY <1>5, <2>1, <2>2, <2>3, <2>4 DEF Keys
  <2> QED
    BY <1>5, <2>5, CalmStep
<1> QED
  BY <1>3, <1>4, <1>5 DEF updateMain

(* The list of builds to pick one from.                                    *)
LEMMA PickKeeps ==
  ASSUME ConsoleInv, updateBuildPick
  PROVE  ConsoleInv' /\ SentAsShown
<1>0. /\ view \in ViewRecord /\ view.state = "pick" /\ pickerAction' = pickerAction /\ pickerAction' \in PickActions
      /\ requested \in Nat /\ RepliesOK(replies)
      /\ view.content \in PickRecord /\ view.content.title = pickerAction
  BY DEF updateBuildPick, ConsoleInv, ContentOK, RepliesOK, PickActions
<1>1. view.content.items \subseteq ConsoleBuilds
  BY <1>0 DEF PickRecord
<1>2. CASE view' = Main /\ Quiet /\ UNCHANGED <<requested, replies>>
  BY <1>0, <1>2, MainIs, CalmStep
<1>3. ASSUME NEW b \in view.content.items, view' = Show("card", b), fetchPlayers, Quiet, UNCHANGED requested
      PROVE  ConsoleInv' /\ SentAsShown
  <2>1. b \in Contents /\ "card" \in States /\ b \in ConsoleBuilds
    BY <1>1, <1>3 DEF Contents, States
  <2>2. view' \in ViewRecord /\ view'.state = "card" /\ view'.content = b
    BY <1>0, <1>3, <2>1, ShowIs
  <2>3. ContentOK(view'.state, view'.content, pickerAction')
    BY <2>1, <2>2 DEF ContentOK
  <2>4. RepliesOK(replies')
    BY <1>0, <1>3 DEF fetchPlayers, Send, RepliesOK
  <2> QED
    BY <1>0, <1>3, <2>2, <2>3, <2>4, CalmStep
<1>4. ASSUME NEW b \in view.content.items, pickerAction = "publish", view' = Main,
             startCommand([op |-> "publish", name |-> b]), UNCHANGED <<requested, replies>>
      PROVE  ConsoleInv' /\ SentAsShown
  <2> DEFINE command == [op |-> "publish", name |-> b]
  <2>1. command \in [op : {"publish"}, name : ConsoleBuilds] /\ command.op = "publish" /\ command.name = b
    BY <1>1
  <2>2. startCommand(command)
    BY <1>4
  <2> HIDE DEF command
  <2>3. command \in Commands /\ Shown(command)
    BY <1>0, <1>4, <2>1 DEF Commands, Shown, picker
  <2>4. view' \in ViewRecord /\ ContentOK(view'.state, view'.content, pickerAction')
    BY <1>0, <1>4, MainIs
  <2> QED
    BY <1>0, <1>4, <2>2, <2>3, <2>4, CommandSent
<1>5. ASSUME NEW b \in view.content.items, view' = Ask("delete", b), Quiet, UNCHANGED <<requested, replies>>
      PROVE  ConsoleInv' /\ SentAsShown
  <2>1. "delete" \in {"delete", "ban"} /\ b \in ConsoleBuilds \cup STRING
    BY <1>1
  <2>2. view' \in ViewRecord /\ ContentOK(view'.state, view'.content, pickerAction')
    BY <1>0, <1>5, <2>1, AskIs
  <2> QED
    BY <1>0, <1>5, <2>2, CalmStep
<1>6. ASSUME NEW b \in view.content.items, newWizard(b), Quiet
      PROVE  ConsoleInv' /\ SentAsShown
  <2>1. b \in ConsoleBuilds \cup {None}
    BY <1>1
  <2>2. /\ view' \in ViewRecord /\ \A a : ContentOK(view'.state, view'.content, a)
        /\ requested' \in Nat /\ RepliesOK(replies')
    BY <1>6, <2>1, NewWizardOpens
  <2> QED
    BY <1>0, <1>6, <2>2, CalmStep
<1> QED
  BY <1>2, <1>3, <1>4, <1>5, <1>6 DEF updateBuildPick, picker

(* The reply with the builds.                                              *)
LEMMA BuildsKeep ==
  ASSUME ConsoleInv, onBuilds
  PROVE  ConsoleInv' /\ SentAsShown
<1>0. /\ view \in ViewRecord /\ pickerAction' = pickerAction /\ pickerAction \in PickActions
      /\ requested' \in Nat /\ RepliesOK(replies') /\ Quiet
      /\ ContentOK(view.state, view.content, pickerAction)
  BY DEF onBuilds, ConsoleInv, RepliesOK, PickActions
<1>1. CASE \E builds \in SUBSET ConsoleBuilds :
             view' = IF builds = {} THEN Main
                     ELSE Show("pick", [title |-> pickerAction, items |-> builds])
  <2>1. PICK builds \in SUBSET ConsoleBuilds :
             view' = IF builds = {} THEN Main
                     ELSE Show("pick", [title |-> pickerAction, items |-> builds])
    BY <1>1
  <2>2. CASE view' = Main
    BY <1>0, <2>2, MainIs, CalmStep
  <2>3. CASE view' = Show("pick", [title |-> pickerAction, items |-> builds])
    <3> DEFINE content == [title |-> pickerAction, items |-> builds]
    <3>1. content \in PickRecord /\ content.title = pickerAction
      BY <1>0 DEF PickRecord, PickActions
    <3>2. view' = Show("pick", content)
      BY <2>3
    <3> HIDE DEF content
    <3>3. content \in Contents /\ "pick" \in States
      BY <3>1 DEF Contents, States
    <3>4. view' \in ViewRecord /\ view'.state = "pick" /\ view'.content = content
      BY <1>0, <3>2, <3>3, ShowIs
    <3>5. ContentOK(view'.state, view'.content, pickerAction')
      BY <1>0, <3>1, <3>4 DEF ContentOK
    <3> QED
      BY <1>0, <3>4, <3>5, CalmStep
  <2> QED
    BY <2>1, <2>2, <2>3
<1>2. CASE view' = view
  BY <1>0, <1>2, CalmStep
<1>3. CASE view' = Main
  BY <1>0, <1>3, MainIs, CalmStep
<1> QED
  BY <1>1, <1>2, <1>3 DEF onBuilds

(* The list of players, its keys and the reply that replaces it.           *)
LEMMA PlayersKeep ==
  ASSUME ConsoleInv, updatePlayers \/ playersMsg
  PROVE  ConsoleInv' /\ SentAsShown
<1>0. /\ view \in ViewRecord /\ pickerAction' = pickerAction /\ pickerAction \in PickActions
      /\ requested' \in Nat /\ RepliesOK(replies') /\ Quiet
      /\ ContentOK(view.state, view.content, pickerAction)
  <2>1. replies' \subseteq replies \union {[kind |-> "players"]}
    BY DEF updatePlayers, playersMsg, fetchPlayers, Send
  <2>2. RepliesOK(replies')
    BY <2>1 DEF ConsoleInv, RepliesOK
  <2> QED
    BY <2>2 DEF updatePlayers, playersMsg, ConsoleInv, PickActions
<1>1. CASE view' = view
  BY <1>0, <1>1, CalmStep
<1>2. CASE view' = Main
  BY <1>0, <1>2, MainIs, CalmStep
<1>3. ASSUME NEW list, MenuOK(list), view' = Show("players", list)
      PROVE  ConsoleInv' /\ SentAsShown
  <2>1. list \in Contents /\ "players" \in States
    BY <1>3 DEF MenuOK, Contents, States
  <2>2. view' \in ViewRecord /\ view'.state = "players" /\ view'.content = list
    BY <1>0, <1>3, <2>1, ShowIs
  <2>3. ContentOK(view'.state, view'.content, pickerAction')
    BY <1>3, <2>2 DEF ContentOK
  <2> QED
    BY <1>0, <2>2, <2>3, CalmStep
<1>4. view.state = "players" => MenuOK(view.content)
  BY <1>0 DEF ContentOK
<1>5. ASSUME view.state = "players", NEW rows \in PlayerRows, view' = Show("players", setItems(menu, rows))
      PROVE  ConsoleInv' /\ SentAsShown
  <2>1. PICK list : list = view.content /\ list \in MenuRecord
    BY <1>4, <1>5 DEF MenuOK
  <2>2. rows \in Rows /\ list.cursor \in Int
    BY <2>1, ConsoleAssumption DEF Rows, MenuRecord
  <2>3. PICK cursor : cursor = clamp(rows, list.cursor)
    OBVIOUS
  <2>4. cursor \in Int /\ (Loose(rows) # {} => cursor \in Loose(rows))
    BY <2>2, <2>3, ClampIs
  <2> DEFINE new == [rows |-> rows, cursor |-> cursor]
  <2>5. view' = Show("players", new)
    BY <1>5, <2>1, <2>3 DEF setItems, menu
  <2>6. new \in MenuRecord /\ new.rows = rows /\ new.cursor = cursor
    BY <2>2, <2>4 DEF MenuRecord
  <2> HIDE DEF new
  <2>7. MenuOK(new)
    BY <2>4, <2>6 DEF MenuOK
  <2> QED
    BY <1>3, <2>5, <2>7
<1>6. ASSUME view.state = "players", menu.rows # <<>>,
             NEW moved \in {move(menu, menu.cursor, -1), move(menu, menu.cursor, 1),
                            move(menu, -1, 1), move(menu, Len(menu.rows), -1)},
             view' = Show("players", moved)
      PROVE  ConsoleInv' /\ SentAsShown
  <2>1. PICK list : list = menu /\ MenuOK(list) /\ list.rows # <<>>
    BY <1>4, <1>6 DEF menu
  <2>2. list.cursor \in Int /\ Len(list.rows) \in Int /\ -1 \in {-1, 1} /\ 1 \in {-1, 1} /\ -1 \in Int
    BY <2>1 DEF MenuOK, MenuRecord, Rows
  <2>3. MenuOK(moved)
    <3>1. MenuOK(move(list, list.cursor, -1))
      BY <2>1, <2>2, MoveIs
    <3>2. MenuOK(move(list, list.cursor, 1))
      BY <2>1, <2>2, MoveIs
    <3>3. MenuOK(move(list, -1, 1))
      BY <2>1, <2>2, MoveIs
    <3>4. MenuOK(move(list, Len(list.rows), -1))
      BY <2>1, <2>2, MoveIs
    <3> QED
      BY <1>6, <2>1, <3>1, <3>2, <3>3, <3>4
  <2> QED
    BY <1>3, <1>6, <2>3
<1>7. ASSUME view.state = "players", Current(menu) \notin {None, "build"}, view' = Ask("ban", Current(menu))
      PROVE  ConsoleInv' /\ SentAsShown
  <2>1. PICK list : list = menu /\ list \in MenuRecord
    BY <1>4, <1>7 DEF MenuOK, menu
  <2>2. Current(list) \in STRING
    <3>1. PICK rows \in Seq(STRING \ {None}) : rows = list.rows
      BY <2>1 DEF MenuRecord, Rows
    <3>2. list.cursor \in 0 .. Len(rows) - 1 => rows[list.cursor + 1] \in STRING
      BY <3>1
    <3>3. Current(list) # None
      BY <1>7, <2>1
    <3> QED
      BY <3>1, <3>2, <3>3 DEF Current
  <2>3. "ban" \in {"delete", "ban"} /\ Current(menu) \in ConsoleBuilds \cup STRING
    BY <2>1, <2>2
  <2>4. view' \in ViewRecord /\ ContentOK(view'.state, view'.content, pickerAction')
    BY <1>0, <1>7, <2>3, AskIs
  <2> QED
    BY <1>0, <2>4, CalmStep
<1>8. CASE updatePlayers
  BY <1>1, <1>2, <1>6, <1>7, <1>8 DEF updatePlayers
<1>9. CASE playersMsg
  BY <1>1, <1>5, <1>9 DEF playersMsg
<1> QED
  BY <1>8, <1>9

(* The card of a player.                                                   *)
LEMMA CardKeeps ==
  ASSUME ConsoleInv, updateCard
  PROVE  ConsoleInv' /\ SentAsShown
<1>0. /\ view \in ViewRecord /\ view.state = "card" /\ pickerAction' = pickerAction /\ pickerAction' \in PickActions
      /\ requested \in Nat /\ RepliesOK(replies)
  BY DEF updateCard, ConsoleInv, RepliesOK, PickActions
<1>1. PICK b \in ConsoleBuilds : b = view.content /\ build = b
  BY <1>0 DEF ConsoleInv, ContentOK, build
<1>2. CASE view' = Show("settings", b) /\ Quiet /\ UNCHANGED <<requested, replies>>
  <2>1. b \in Contents /\ "settings" \in States
    BY DEF Contents, States
  <2>2. view' \in ViewRecord /\ view'.state = "settings" /\ view'.content = b
    BY <1>0, <1>2, <2>1, ShowIs
  <2>3. ContentOK(view'.state, view'.content, pickerAction')
    BY <2>2 DEF ContentOK
  <2> QED
    BY <1>0, <1>2, <2>2, <2>3, CalmStep
<1>3. CASE view' = Main /\ Quiet /\ UNCHANGED <<requested, replies>>
  BY <1>0, <1>3, MainIs, CalmStep
<1>4. CASE view' = Ask("delete", b) /\ Quiet /\ UNCHANGED <<requested, replies>>
  <2>1. "delete" \in {"delete", "ban"} /\ b \in ConsoleBuilds \cup STRING
    OBVIOUS
  <2>2. view' \in ViewRecord /\ ContentOK(view'.state, view'.content, pickerAction')
    BY <1>0, <1>4, <2>1, AskIs
  <2> QED
    BY <1>0, <1>4, <2>2, CalmStep
<1>5. CASE view' = Main /\ startCommand([op |-> "publish", name |-> b]) /\ UNCHANGED <<requested, replies>>
  <2> DEFINE command == [op |-> "publish", name |-> b]
  <2>1. command \in [op : {"publish"}, name : ConsoleBuilds] /\ command.op = "publish" /\ command.name = b
    OBVIOUS
  <2>2. startCommand(command)
    BY <1>5
  <2> HIDE DEF command
  <2>3. command \in Commands /\ Shown(command)
    BY <1>0, <1>1, <2>1 DEF Commands, Shown
  <2>4. view' \in ViewRecord /\ ContentOK(view'.state, view'.content, pickerAction')
    BY <1>0, <1>5, MainIs
  <2> QED
    BY <1>0, <1>5, <2>2, <2>3, <2>4, CommandSent
<1>6. CASE newWizard(b) /\ Quiet
  <2>1. /\ view' \in ViewRecord /\ \A a : ContentOK(view'.state, view'.content, a)
        /\ requested' \in Nat /\ RepliesOK(replies')
    BY <1>6, NewWizardOpens
  <2> QED
    BY <1>0, <1>6, <2>1, CalmStep
<1> QED
  BY <1>1, <1>2, <1>3, <1>4, <1>5, <1>6 DEF updateCard

(* The screens of settings and of help.                                    *)
LEMMA SettingsScreenKeeps ==
  ASSUME ConsoleInv, updateSettings \/ updateHelp
  PROVE  ConsoleInv' /\ SentAsShown
<1>0. /\ view \in ViewRecord /\ pickerAction' = pickerAction /\ pickerAction \in PickActions
      /\ requested' \in Nat /\ RepliesOK(replies') /\ Quiet
      /\ ContentOK(view.state, view.content, pickerAction)
  <2>1. replies' \subseteq replies \union {[kind |-> "builds"]}
    BY DEF updateSettings, updateHelp, fetchBuilds, Send
  <2>2. RepliesOK(replies')
    BY <2>1 DEF ConsoleInv, RepliesOK
  <2> QED
    BY <2>2 DEF updateSettings, updateHelp, ConsoleInv, PickActions
<1>1. CASE view' = view
  BY <1>0, <1>1, CalmStep
<1>2. CASE view' = Main
  BY <1>0, <1>2, MainIs, CalmStep
<1>3. ASSUME view.state = "settings", view' = Show(IF build = None THEN "main" ELSE "card", build)
      PROVE  ConsoleInv' /\ SentAsShown
  <2>1. PICK b \in ConsoleBuilds \cup {None} : b = view.content /\ build = b
    BY <1>0, <1>3 DEF ContentOK, build
  <2>2. PICK state \in {"main", "card"} : state = (IF b = None THEN "main" ELSE "card")
    OBVIOUS
  <2>3. b \in Contents /\ state \in States
    BY DEF Contents, States
  <2>4. view' \in ViewRecord /\ view'.state = state /\ view'.content = b
    BY <1>0, <1>3, <2>1, <2>2, <2>3, ShowIs
  <2>5. ContentOK(view'.state, view'.content, pickerAction')
    BY <2>1, <2>2, <2>4 DEF ContentOK
  <2> QED
    BY <1>0, <2>4, <2>5, CalmStep
<1> QED
  BY <1>1, <1>2, <1>3 DEF updateSettings, updateHelp

(* A command that ended, and the list of commands.                         *)
LEMMA AnswersKeep ==
  ASSUME ConsoleInv, execDone \/ commandsMsg
  PROVE  ConsoleInv' /\ SentAsShown
<1>1. CASE execDone
  <2>1. PICK i \in DOMAIN executing : executing' = RemoveAt(executing, i)
    BY <1>1 DEF execDone
  <2>2. PICK e \in Seq(Commands) : e = executing
    BY DEF ConsoleInv
  <2>3. Len(e) \in Nat /\ i \in 1 .. Len(e)
    BY <2>1, <2>2
  <2>4. RemoveAt(e, i) \in Seq(Commands) /\ Len(RemoveAt(e, i)) = Len(e) - 1
    BY <2>3, RemovedIs
  <2>5. executing' \in Seq(Commands) /\ ~(Len(executing') > Len(executing))
    BY <2>1, <2>2, <2>3, <2>4
  <2> QED
    BY <1>1, <2>5 DEF execDone, ConsoleInv, SentAsShown
<1>2. CASE commandsMsg
  <2>1. /\ view' = view /\ pickerAction' = pickerAction /\ requested' = requested /\ Quiet
        /\ replies' \subseteq replies
    BY <1>2 DEF commandsMsg
  <2> QED
    BY <2>1, CalmStep DEF ConsoleInv, RepliesOK, PickActions
<1> QED
  BY <1>1, <1>2

(* A cursor on a row that can be chosen names a player.                    *)
LEMMA CursorIs == ConsoleInv => CursorOnPlayer
<1> SUFFICES ASSUME ConsoleInv, view.state = "players", NEW i \in DOMAIN menu.rows, ~Static(menu.rows[i])
             PROVE  Current(menu) \notin {None, "build"}
  BY DEF CursorOnPlayer
<1>1. PICK list : list = menu /\ list \in MenuRecord /\ MenuOK(list)
  BY DEF ConsoleInv, ContentOK, MenuOK, menu
<1>2. PICK rows \in Seq(STRING \ {None}) : rows = list.rows
  BY <1>1 DEF MenuRecord, Rows
<1>3. i \in 1 .. Len(rows) /\ Len(rows) \in Nat
  BY <1>1, <1>2
<1>4. i - 1 \in Loose(rows)
  BY <1>1, <1>2, <1>3 DEF Loose
<1>5. list.cursor \in Loose(rows)
  BY <1>1, <1>2, <1>4 DEF MenuOK
<1>6. list.cursor \in 0 .. Len(rows) - 1 /\ ~Static(rows[list.cursor + 1])
  BY <1>5 DEF Loose
<1>7. rows[list.cursor + 1] # None
  BY <1>3, <1>6
<1> QED
  BY <1>1, <1>2, <1>6, <1>7 DEF Current, Static

(* In every step of the console, whatever replies come late and in         *)
(* whatever order: a command is sent only as the screen in front of the    *)
(* user asked for it, with what the server offers for the Minecraft        *)
(* version in the same line; no line with secrets enters the history; and  *)
(* the cursor of the players rests on a player (tui.go, wizard.go,         *)
(* menu.go).                                                               *)
THEOREM ConsoleStaysFaithful == ConsoleSpec => ConsoleFaithful
<1>1. ConsoleInit => ConsoleInv
  <2> SUFFICES ASSUME ConsoleInit PROVE ConsoleInv
    OBVIOUS
  <2>1. None \in Contents /\ NoConfirm \in Confirms
    BY DEF Contents, Confirms
  <2>2. view \in ViewRecord /\ view.state = "main"
    BY <2>1 DEF ConsoleInit, ViewRecord
  <2> QED
    BY <2>2 DEF ConsoleInit, ConsoleInv, ContentOK
<1>2. ConsoleInv /\ [ConsoleNext]_consoleVars => ConsoleInv'
  <2> SUFFICES ASSUME ConsoleInv, [ConsoleNext]_consoleVars PROVE ConsoleInv'
    OBVIOUS
  <2>1. CASE UNCHANGED consoleVars
    BY <2>1 DEF consoleVars, ConsoleInv
  <2> QED
    BY <2>1, MainKeeps, PickKeeps, WizardKeeps, WizardMsgKeeps, BuildsKeep, PlayersKeep, CardKeeps,
       SettingsScreenKeeps, AnswersKeep DEF ConsoleNext
<1>3. ConsoleInv /\ ConsoleInv' /\ [ConsoleNext]_consoleVars =>
        [SentAsShown /\ SecretsNotRemembered' /\ CursorOnPlayer']_consoleVars
  <2> SUFFICES ASSUME ConsoleInv, ConsoleInv', ConsoleNext
               PROVE  SentAsShown /\ SecretsNotRemembered' /\ CursorOnPlayer'
    OBVIOUS
  <2>1. SentAsShown
    BY MainKeeps, PickKeeps, WizardKeeps, WizardMsgKeeps, BuildsKeep, PlayersKeep, CardKeeps,
       SettingsScreenKeeps, AnswersKeep DEF ConsoleNext
  <2>2. SecretsNotRemembered'
    BY DEF ConsoleInv, SecretsNotRemembered
  <2>3. CursorOnPlayer'
    BY CursorIs, PTL
  <2> QED
    BY <2>1, <2>2, <2>3
<1> QED
  BY <1>1, <1>2, <1>3, PTL DEF ConsoleSpec, ConsoleFaithful

----------------------------------------------------------------------------
(* Settings. *)

(* An entry under its key: its secret is the one of the adapter chosen, or *)
(* was left behind under the default.                                      *)
EntrySet == [adapter : Adapters \cup {Unset}, secret : WithSecret \cup {Unset}]
GoodEntry(k, n) ==
  /\ n \in EntrySet
  /\ n.secret \in {Unset, stringAt(n, k)} \/ stringAt(n, k) = Default[k]
Docs == {d \in UNION {[S -> EntrySet] : S \in SUBSET Blocks} : \A k \in DOMAIN d : GoodEntry(k, d[k])}
Outcome == [ok : BOOLEAN, doc : Docs]

Edits == [op : {"adapter"}, at : Blocks, adapter : Adapters]
         \cup [op : {"clear", "add", "remove"}, at : Blocks]
         \cup [op : {"secret"}, at : Blocks, secret : WithSecret \cup {Unset}]
         \cup [op : {"edit"}, at : Blocks, adapter : Adapters \cup {Unset}, masked : BOOLEAN]
Patch == [revision : Docs, changes : Seq(Edits)]
ScreenRecord == [state : {"away", "loading", "shown", "saving"}, patch : SUBSET Patch,
                 next : SUBSET Patch, page : Docs]
SaveRecord == [pc : {"written", "checked"}, doc : Docs, revision : Docs, by : Editors \cup {"console"}]

(* What is on the screen is what the patch makes of its revision, so that  *)
(* a secret is typed for the adapter that is shown; and a patch whose      *)
(* preview is awaited makes nothing of it that could not be shown.         *)
ScreenOK(s) ==
  /\ s \in ScreenRecord
  /\ \A p \in s.patch : ApplyChanges(p.revision, p.changes) = Accepted(s.page)
  /\ \A p \in s.next : ApplyChanges(p.revision, p.changes) \in Outcome

SettingsInv ==
  /\ document \in Docs
  /\ saving = NoSave \/ saving \in SaveRecord
  /\ DOMAIN screen = Editors /\ screen = [e \in Editors |-> screen[e]]
  /\ \A e \in Editors : ScreenOK(screen[e])

-----------------------------------------------------------------------------
(* ApplyChanges: nothing to do, and one change more.                       *)

IsRun(f, doc, changes, k) ==
  /\ f = [n \in 0 .. k |-> f[n]]
  /\ f[0] = Accepted(doc)
  /\ \A n \in 1 .. k : f[n] = carryOn(f[n - 1], changes[n])

(* The documents after each of the first k changes exist, as a function.   *)
LEMMA RunsExist ==
  ASSUME NEW doc, NEW changes, NEW k \in Nat
  PROVE  \E f : IsRun(f, doc, changes, k)
<1> DEFINE T == {n \in Nat : ~\E f : IsRun(f, doc, changes, n)}
<1> SUFFICES ASSUME k \in T PROVE FALSE
  OBVIOUS
<1>1. T \subseteq Nat /\ T # {}
  OBVIOUS
<1>2. PICK m \in T : \A n \in T : m <= n
  BY <1>1, LeastIs
<1>3. m # 0
  <2> SUFFICES ASSUME m = 0 PROVE FALSE
    OBVIOUS
  <2> DEFINE f == [n \in 0 .. 0 |-> Accepted(doc)]
  <2>1. IsRun(f, doc, changes, 0)
    BY DEF IsRun
  <2> QED
    BY <1>2, <2>1
<1>4. m \in Nat /\ m - 1 \in Nat /\ m - 1 \notin T
  BY <1>1, <1>2, <1>3
<1>5. PICK f : IsRun(f, doc, changes, m - 1)
  BY <1>4
<1> DEFINE g == [n \in 0 .. m |-> IF n = m THEN carryOn(f[m - 1], changes[m]) ELSE f[n]]
<1>6. g = [n \in 0 .. m |-> g[n]]
  OBVIOUS
<1>7. g[0] = Accepted(doc)
  BY <1>3, <1>4, <1>5 DEF IsRun
<1>8. ASSUME NEW n \in 1 .. m PROVE g[n] = carryOn(g[n - 1], changes[n])
  <2>1. n - 1 \in 0 .. m /\ n \in 0 .. m /\ n - 1 # m /\ g[n - 1] = f[n - 1]
    BY <1>4
  <2>2. CASE n = m
    BY <2>1, <2>2
  <2>3. CASE n # m
    <3>1. n \in 1 .. m - 1 /\ g[n] = f[n]
      BY <1>4, <2>1, <2>3
    <3> QED
      BY <1>5, <2>1, <3>1 DEF IsRun
  <2> QED
    BY <2>2, <2>3
<1> HIDE DEF g
<1>9. IsRun(g, doc, changes, m)
  BY <1>6, <1>7, <1>8 DEF IsRun
<1> QED
  BY <1>2, <1>9

(* They depend on those changes alone.                                     *)
LEMMA RunsAgree ==
  ASSUME NEW doc, NEW changes, NEW k \in Nat, NEW f, NEW g, NEW more, NEW j \in Nat, k <= j,
         IsRun(f, doc, changes, k), IsRun(g, doc, more, j), \A n \in 1 .. k : changes[n] = more[n]
  PROVE  f[k] = g[k]
<1> DEFINE T == {n \in 0 .. k : f[n] # g[n]}
<1> SUFFICES ASSUME T # {} PROVE FALSE
  OBVIOUS
<1>1. T \subseteq Nat
  OBVIOUS
<1>2. PICK m \in T : \A n \in T : m <= n
  BY <1>1, LeastIs
<1>3. m \in 0 .. k /\ f[m] # g[m]
  BY <1>2
<1>4. m # 0
  BY <1>3 DEF IsRun
<1>5. m \in 1 .. k /\ m \in 1 .. j /\ m - 1 \in 0 .. k
  BY <1>3, <1>4
<1>6. f[m - 1] = g[m - 1]
  BY <1>2, <1>5
<1>7. f[m] = carryOn(f[m - 1], changes[m]) /\ g[m] = carryOn(g[m - 1], more[m]) /\ changes[m] = more[m]
  BY <1>5 DEF IsRun
<1> QED
  BY <1>3, <1>6, <1>7

(* ApplyChanges is the last of them.                                       *)
LEMMA ChangesRun ==
  ASSUME NEW doc, NEW changes, Len(changes) \in Nat
  PROVE  \E f : IsRun(f, doc, changes, Len(changes)) /\ ApplyChanges(doc, changes) = f[Len(changes)]
<1> DEFINE Is(f) == f = [n \in 0 .. Len(changes) |->
                           IF n = 0 THEN Accepted(doc) ELSE carryOn(f[n - 1], changes[n])]
           run == CHOOSE f : Is(f)
<1>1. ApplyChanges(doc, changes) = run[Len(changes)]
  BY Zenon DEF ApplyChanges
<1>2. PICK f : IsRun(f, doc, changes, Len(changes))
  BY RunsExist
<1>3. Is(f)
  <2>1. \A n \in 0 .. Len(changes) :
          f[n] = IF n = 0 THEN Accepted(doc) ELSE carryOn(f[n - 1], changes[n])
    BY <1>2 DEF IsRun
  <2>2. f = [n \in 0 .. Len(changes) |-> f[n]]
    BY <1>2 DEF IsRun
  <2> QED
    BY <2>1, <2>2
<1>4. Is(run)
  BY <1>3, Zenon
<1> HIDE DEF run
<1>5. IsRun(run, doc, changes, Len(changes))
  <2>1. \A n \in 0 .. Len(changes) :
          run[n] = IF n = 0 THEN Accepted(doc) ELSE carryOn(run[n - 1], changes[n])
    BY <1>4
  <2>2. DOMAIN run = 0 .. Len(changes) /\ run = [n \in 0 .. Len(changes) |-> run[n]]
    BY <1>4
  <2>3. run[0] = Accepted(doc)
    BY <2>1
  <2>4. \A n \in 1 .. Len(changes) : run[n] = carryOn(run[n - 1], changes[n])
    BY <2>1
  <2> QED
    BY <2>2, <2>3, <2>4 DEF IsRun
<1> QED
  BY <1>1, <1>5

(* No change leaves the document as it is.                                 *)
LEMMA NoChanges == ASSUME NEW doc PROVE ApplyChanges(doc, <<>>) = Accepted(doc)
<1>1. Len(<<>>) = 0
  OBVIOUS
<1>2. PICK c : c = <<>> /\ Len(c) = 0
  BY <1>1
<1>3. PICK f : IsRun(f, doc, c, Len(c)) /\ ApplyChanges(doc, c) = f[Len(c)]
  BY <1>2, ChangesRun
<1> QED
  BY <1>2, <1>3 DEF IsRun

(* One change more is applied to what the others left.                     *)
LEMMA OneChangeMore ==
  ASSUME NEW doc, NEW S, NEW changes \in Seq(S), NEW change \in S
  PROVE  ApplyChanges(doc, Append(changes, change)) = carryOn(ApplyChanges(doc, changes), change)
<1>1. PICK more : more = Append(changes, change)
  OBVIOUS
<1>2. /\ Len(changes) \in Nat /\ Len(more) = Len(changes) + 1 /\ more[Len(changes) + 1] = change
      /\ \A n \in 1 .. Len(changes) : more[n] = changes[n]
  BY <1>1, AppendProperties
<1>3. PICK k \in Nat : k = Len(changes)
  BY <1>2
<1>4. PICK f : IsRun(f, doc, changes, k) /\ ApplyChanges(doc, changes) = f[k]
  BY <1>2, <1>3, ChangesRun
<1>5. PICK g : IsRun(g, doc, more, k + 1) /\ ApplyChanges(doc, more) = g[k + 1]
  <2>1. Len(more) \in Nat /\ Len(more) = k + 1
    BY <1>2, <1>3
  <2> QED
    BY <2>1, ChangesRun
<1>6. f[k] = g[k]
  <2>1. k + 1 \in Nat /\ k <= k + 1 /\ \A n \in 1 .. k : changes[n] = more[n]
    BY <1>2, <1>3
  <2> QED
    BY <1>4, <1>5, <2>1, RunsAgree
<1>7. g[k + 1] = carryOn(g[k], more[k + 1])
  <2>1. PICK n \in Nat : n = k + 1 /\ n - 1 = k /\ n \in 1 .. k + 1
    OBVIOUS
  <2>2. g[n] = carryOn(g[n - 1], more[n])
    BY <1>5, <2>1 DEF IsRun
  <2> QED
    BY <2>1, <2>2
<1> QED
  BY <1>1, <1>2, <1>3, <1>4, <1>5, <1>6, <1>7

-----------------------------------------------------------------------------
(* One change leaves every secret where it belongs.                        *)

(* The documents, by their keys.                                           *)
LEMMA DocsAre ==
  /\ \A d \in Docs : d = [k \in DOMAIN d |-> d[k]] /\ DOMAIN d \subseteq Blocks
  /\ \A d \in Docs : \A k \in DOMAIN d : GoodEntry(k, d[k])
  /\ \A d : d = [k \in DOMAIN d |-> d[k]] /\ DOMAIN d \subseteq Blocks /\ (\A k \in DOMAIN d : GoodEntry(k, d[k]))
            => d \in Docs
<1>1. ASSUME NEW d \in Docs
      PROVE  d = [k \in DOMAIN d |-> d[k]] /\ DOMAIN d \subseteq Blocks /\ \A k \in DOMAIN d : GoodEntry(k, d[k])
  <2>1. PICK S \in SUBSET Blocks : d \in [S -> EntrySet]
    BY DEF Docs
  <2> QED
    BY <2>1 DEF Docs
<1>2. ASSUME NEW d, d = [k \in DOMAIN d |-> d[k]], DOMAIN d \subseteq Blocks, \A k \in DOMAIN d : GoodEntry(k, d[k])
      PROVE  d \in Docs
  <2>1. d \in [DOMAIN d -> EntrySet]
    BY <1>2 DEF GoodEntry
  <2>2. d \in UNION {[S -> EntrySet] : S \in SUBSET Blocks}
    BY <1>2, <2>1
  <2> QED
    BY <1>2, <2>2 DEF Docs
<1> QED
  BY <1>1, <1>2

(* The empty document.                                                     *)
LEMMA NoBlocks == <<>> \in Docs
<1>0. <<>> \in Seq({}) /\ Len(<<>>) = 0
  OBVIOUS
<1>1. DOMAIN <<>> = {}
  BY <1>0
<1>2. <<>> = [k \in {} |-> <<>>[k]]
  BY <1>1, SMT
<1>3. PICK d : d = <<>>
  OBVIOUS
<1>4. DOMAIN d = {} /\ d = [k \in DOMAIN d |-> d[k]]
  BY <1>1, <1>2, <1>3, Zenon
<1> QED
  BY <1>3, <1>4, DocsAre

(* A change that was refused has no document, and one that was accepted has*)
(* one.                                                                    *)
LEMMA OutcomesAre ==
  /\ Refused \in Outcome /\ ~Refused.ok
  /\ \A d \in Docs : Accepted(d) \in Outcome /\ Accepted(d).ok /\ Accepted(d).doc = d
BY NoBlocks DEF Refused, Accepted, Outcome

(* What makes a good entry, and what a good entry consists of.             *)
LEMMA EntryIs ==
  ASSUME NEW k, NEW adapter \in Adapters \cup {Unset}, NEW secret \in WithSecret \cup {Unset}, NEW chosen,
         chosen = (IF adapter = Unset THEN Default[k] ELSE adapter),
         secret \in {Unset, chosen} \/ chosen = Default[k]
  PROVE  GoodEntry(k, Entry(adapter, secret))
<1>1. PICK n : n = Entry(adapter, secret)
  OBVIOUS
<1>2. n \in EntrySet /\ n.adapter = adapter /\ n.secret = secret
  BY <1>1 DEF Entry, EntrySet
<1> QED
  BY <1>1, <1>2 DEF GoodEntry, stringAt

(* And back: a good entry is an adapter and a secret.                      *)
LEMMA EntryHas ==
  ASSUME NEW doc \in Docs, NEW k \in Blocks
  PROVE  LET n == At(doc, k) IN
         /\ n.adapter \in Adapters \cup {Unset} /\ n.secret \in WithSecret \cup {Unset}
         /\ ChosenAt(doc, k) = (IF n.adapter = Unset THEN Default[k] ELSE n.adapter)
         /\ n.secret \in {Unset, ChosenAt(doc, k)} \/ ChosenAt(doc, k) = Default[k]
<1>1. PICK n : n = At(doc, k)
  OBVIOUS
<1>2. GoodEntry(k, n)
  <2>1. CASE k \in DOMAIN doc
    BY <1>1, <2>1, DocsAre DEF At
  <2>2. CASE k \notin DOMAIN doc
    <3>1. n = Entry(Unset, Unset)
      BY <1>1, <2>2 DEF At
    <3> QED
      BY <3>1, EntryIs
  <2> QED
    BY <2>1, <2>2
<1>3. ChosenAt(doc, k) = stringAt(n, k)
  BY <1>1 DEF ChosenAt
<1>4. n \in EntrySet
  BY <1>2 DEF GoodEntry
<1>5. n.adapter \in Adapters \cup {Unset} /\ n.secret \in WithSecret \cup {Unset}
  BY <1>4 DEF EntrySet
<1>6. stringAt(n, k) = (IF n.adapter = Unset THEN Default[k] ELSE n.adapter)
  BY DEF stringAt
<1> QED
  BY <1>1, <1>2, <1>3, <1>5, <1>6 DEF GoodEntry

(* An entry is replaced by a good one, or dropped.                         *)
LEMMA PutIs ==
  ASSUME NEW doc \in Docs, NEW k \in Blocks, NEW entry, GoodEntry(k, entry)
  PROVE  put(doc, k, entry) \in Docs
<1>1. PICK d : d = put(doc, k, entry)
  OBVIOUS
<1>2. d = [j \in DOMAIN doc \cup {k} |-> IF j = k THEN entry ELSE doc[j]]
  BY <1>1 DEF put
<1>3. DOMAIN doc \subseteq Blocks /\ \A j \in DOMAIN doc : GoodEntry(j, doc[j])
  BY DocsAre
<1>4. d = [j \in DOMAIN d |-> d[j]] /\ DOMAIN d \subseteq Blocks /\ \A j \in DOMAIN d : GoodEntry(j, d[j])
  BY <1>2, <1>3
<1> QED
  BY <1>1, <1>4, DocsAre

(* What is left of a document without one of its blocks.                   *)
LEMMA DropIs ==
  ASSUME NEW doc \in Docs, NEW k
  PROVE  drop(doc, k) \in Docs
<1>1. PICK d : d = drop(doc, k)
  OBVIOUS
<1>2. d = [j \in DOMAIN doc \ {k} |-> doc[j]]
  BY <1>1 DEF drop, Restrict
<1>3. DOMAIN doc \subseteq Blocks /\ \A j \in DOMAIN doc : GoodEntry(j, doc[j])
  BY DocsAre
<1>4. d = [j \in DOMAIN d |-> d[j]] /\ DOMAIN d \subseteq Blocks /\ \A j \in DOMAIN d : GoodEntry(j, d[j])
  BY <1>2, <1>3
<1> QED
  BY <1>1, <1>4, DocsAre

(* Whatever a page offers leaves only good entries (setAdapter,            *)
(* clearAdapter, editRedacted).                                            *)
LEMMA ChangedIs ==
  ASSUME NEW doc \in Docs, NEW change \in PageOffers(doc)
  PROVE  change \in Edits /\ Change(doc, change) \in Outcome
<1> USE SettingsAssumption
<1>0. PICK c : c = change
  OBVIOUS
<1>1. \/ c \in [op : {"adapter"}, at : Blocks, adapter : Adapters]
      \/ c \in [op : {"clear", "add", "remove"}, at : Blocks]
      \/ c \in [op : {"secret"}, at : Blocks, secret : WithSecret \cup {Unset}] /\ Meant(doc, c)
      \/ c \in [op : {"edit"}, at : Blocks, adapter : Adapters \cup {Unset}, masked : BOOLEAN]
  <2>1. DOMAIN doc \subseteq Blocks /\ Entries \subseteq Blocks
    BY DocsAre DEF Entries
  <2> QED
    BY <1>0, <2>1 DEF PageOffers, Changes
<1>2. c \in Edits
  BY <1>1 DEF Edits
<1>3. c.at \in Blocks
  BY <1>1
<1>4. PICK k \in Blocks : k = c.at
  BY <1>3
<1>5. PICK was : was = At(doc, k)
  OBVIOUS
<1>6. PICK chosen : chosen = ChosenAt(doc, k)
  OBVIOUS
<1>7. /\ was.adapter \in Adapters \cup {Unset} /\ was.secret \in WithSecret \cup {Unset}
      /\ chosen = (IF was.adapter = Unset THEN Default[k] ELSE was.adapter)
      /\ was.secret \in {Unset, chosen} \/ chosen = Default[k]
  BY <1>5, <1>6, EntryHas
<1>8. ASSUME NEW adapter \in Adapters \cup {Unset}, NEW secret \in WithSecret \cup {Unset}, NEW now,
             now = (IF adapter = Unset THEN Default[k] ELSE adapter), secret \in {Unset, now} \/ now = Default[k]
      PROVE  Accepted(put(doc, k, Entry(adapter, secret))) \in Outcome
  <2>1. GoodEntry(k, Entry(adapter, secret))
    BY <1>8, EntryIs
  <2>2. put(doc, k, Entry(adapter, secret)) \in Docs
    BY <2>1, PutIs
  <2> QED
    BY <2>2, OutcomesAre
<1>9. Accepted(doc) \in Outcome /\ Refused \in Outcome /\ Accepted(drop(doc, k)) \in Outcome
  BY OutcomesAre, DropIs
<1>10. Unset \notin Adapters
  BY DEF SettingsAssumption
<1>11. CASE c \in [op : {"adapter"}, at : Blocks, adapter : Adapters]
  <2>1. PICK a \in Adapters : a = c.adapter
    BY <1>11
  <2>2. PICK secret : secret = (IF chosen = a THEN was.secret ELSE Unset)
    OBVIOUS
  <2>3. Change(doc, c) = Accepted(put(doc, k, Entry(a, secret)))
    BY <1>4, <1>5, <1>6, <1>11, <2>1, <2>2 DEF Change, setAdapter
  <2>4. a # Unset /\ secret \in WithSecret \cup {Unset} /\ (secret \in {Unset, a} \/ a = Default[k])
    BY <1>7, <1>10, <2>2
  <2>5. Accepted(put(doc, k, Entry(a, secret))) \in Outcome
    BY <1>8, <2>4
  <2> QED
    BY <1>0, <1>2, <2>3, <2>5
<1>12. CASE c \in [op : {"clear", "add", "remove"}, at : Blocks]
  <2>1. Accepted(put(doc, k, Entry(Unset, was.secret))) \in Outcome /\ Accepted(put(doc, k, Entry(Unset, Unset))) \in Outcome
    BY <1>7, <1>8
  <2>2. c.op \in {"clear", "add", "remove"}
    BY <1>12
  <2>3. \/ Change(doc, c) = Accepted(put(doc, k, Entry(Unset, was.secret)))
        \/ Change(doc, c) = Accepted(put(doc, k, Entry(Unset, Unset)))
        \/ Change(doc, c) = Accepted(doc) \/ Change(doc, c) = Refused \/ Change(doc, c) = Accepted(drop(doc, k))
    BY <1>4, <1>5, <2>2 DEF Change, clearAdapter, AddEntry, RemoveEntry
  <2> QED
    BY <1>0, <1>2, <1>9, <2>1, <2>3
<1>13. CASE c \in [op : {"secret"}, at : Blocks, secret : WithSecret \cup {Unset}] /\ Meant(doc, c)
  <2>1. PICK secret \in WithSecret \cup {Unset} : secret = c.secret
    BY <1>13
  <2>2. secret \in {Unset, chosen}
    BY <1>4, <1>6, <1>13, <2>1 DEF Meant
  <2>3. Accepted(put(doc, k, Entry(was.adapter, secret))) \in Outcome
    BY <1>7, <1>8, <2>2
  <2>4. \/ Change(doc, c) = Refused \/ Change(doc, c) = Accepted(doc)
        \/ Change(doc, c) = Accepted(put(doc, k, Entry(was.adapter, secret)))
    BY <1>4, <1>5, <1>6, <1>13, <2>1 DEF Change, setSecret
  <2> QED
    BY <1>0, <1>2, <1>9, <2>3, <2>4
<1>14. CASE c \in [op : {"edit"}, at : Blocks, adapter : Adapters \cup {Unset}, masked : BOOLEAN]
  <2>1. PICK a \in Adapters \cup {Unset} : a = c.adapter
    BY <1>14
  <2>2. PICK secret : secret = (IF c.masked THEN was.secret ELSE Unset)
    OBVIOUS
  <2>3. CASE c.masked /\ (was.adapter # a \/ was.secret = Unset)
    <3>1. Change(doc, c) = Refused
      BY <1>4, <1>5, <1>14, <2>1, <2>3 DEF Change, editRedacted
    <3> QED
      BY <1>0, <1>2, <1>9, <3>1
  <2>4. CASE ~(c.masked /\ (was.adapter # a \/ was.secret = Unset))
    <3>1. Change(doc, c) = Accepted(put(doc, k, Entry(a, secret)))
      BY <1>4, <1>5, <1>14, <2>1, <2>2, <2>4 DEF Change, editRedacted
    <3>2. PICK now : now = (IF a = Unset THEN Default[k] ELSE a)
      OBVIOUS
    <3>3. secret \in WithSecret \cup {Unset} /\ (secret \in {Unset, now} \/ now = Default[k])
      BY <1>7, <2>2, <2>4, <3>2
    <3> QED
      BY <1>0, <1>2, <1>8, <3>1, <3>2, <3>3
  <2> QED
    BY <2>3, <2>4
<1> QED
  BY <1>1, <1>11, <1>12, <1>13, <1>14

(* A patch one change longer still makes something that can be shown.      *)
LEMMA StagedIs ==
  ASSUME NEW s, ScreenOK(s), NEW p \in s.patch, NEW change \in PageOffers(s.page), NEW q,
         q = [p EXCEPT !.changes = Append(p.changes, change)]
  PROVE  q \in Patch /\ ApplyChanges(q.revision, q.changes) \in Outcome
<1>1. /\ s.page \in Docs /\ p \in Patch /\ ApplyChanges(p.revision, p.changes) = Accepted(s.page)
      /\ p.changes \in Seq(Edits)
  BY DEF ScreenOK, ScreenRecord, Patch
<1>2. change \in Edits /\ Change(s.page, change) \in Outcome
  BY <1>1, ChangedIs
<1>3. PICK longer \in Seq(Edits) : longer = Append(p.changes, change)
  BY <1>1, <1>2, AppendProperties
<1>4. q \in Patch /\ q.revision = p.revision /\ q.changes = longer
  BY <1>1, <1>3 DEF Patch
<1>5. ApplyChanges(p.revision, longer) = carryOn(Accepted(s.page), change)
  BY <1>1, <1>2, <1>3, OneChangeMore
<1>6. carryOn(Accepted(s.page), change) = Change(s.page, change)
  BY <1>1, OutcomesAre DEF carryOn
<1> QED
  BY <1>2, <1>4, <1>5, <1>6

(* A step that changes at most one screen.                                 *)
LEMMA ScreenStep ==
  ASSUME SettingsInv, NEW e \in Editors, NEW s, ScreenOK(s), screen' = [screen EXCEPT ![e] = s],
         document' \in Docs, saving' = NoSave \/ saving' \in SaveRecord
  PROVE  SettingsInv'
<1>1. /\ DOMAIN screen' = Editors /\ screen' = [d \in Editors |-> screen'[d]]
      /\ screen'[e] = s /\ \A d \in Editors : d # e => screen'[d] = screen[d]
  BY DEF SettingsInv
<1>2. \A d \in Editors : ScreenOK(screen'[d])
  BY <1>1 DEF SettingsInv
<1> QED
  BY <1>1, <1>2 DEF SettingsInv

(* A step of the store alone.                                              *)
LEMMA ScreensStay ==
  ASSUME SettingsInv, UNCHANGED screen, document' \in Docs, saving' = NoSave \/ saving' \in SaveRecord
  PROVE  SettingsInv'
BY DEF SettingsInv

(* What a screen has staged is still good in another state, and so is      *)
(* nothing.                                                                *)
LEMMA StateTurns ==
  ASSUME NEW s, ScreenOK(s), NEW state \in {"away", "loading", "shown", "saving"}
  PROVE  /\ ScreenOK([s EXCEPT !.state = state])
         /\ ScreenOK([s EXCEPT !.state = state, !.next = {}])
         /\ ScreenOK([Away EXCEPT !.state = state])
<1> DEFINE a == [s EXCEPT !.state = state]
           b == [s EXCEPT !.state = state, !.next = {}]
           d == [Away EXCEPT !.state = state]
<1>0. s \in ScreenRecord /\ <<>> \in Docs
  BY NoBlocks DEF ScreenOK
<1>1. a \in ScreenRecord /\ a.patch = s.patch /\ a.next = s.next /\ a.page = s.page
  BY <1>0 DEF ScreenRecord
<1>2. b \in ScreenRecord /\ b.patch = s.patch /\ b.next = {} /\ b.page = s.page
  BY <1>0 DEF ScreenRecord
<1>4. d \in ScreenRecord /\ d.patch = {} /\ d.next = {}
  BY <1>0 DEF ScreenRecord, Away
<1> HIDE DEF a, b, d
<1>5. ScreenOK(a) /\ ScreenOK(b) /\ ScreenOK(d)
  BY <1>1, <1>2, <1>4 DEF ScreenOK
<1> QED
  BY <1>5 DEF a, b, d

(* A patch is applied to the revision it was made for, or refused.         *)
LEMMA PatchApplied ==
  ASSUME SettingsInv, NEW p, ApplyPatch(document, p).ok
  PROVE  p.revision = document /\ ApplyPatch(document, p) = ApplyChanges(p.revision, p.changes)
BY OutcomesAre DEF ApplyPatch

(* What the store is about to write has good entries only.                 *)
LEMMA OpenKeeps ==
  ASSUME SettingsInv, NEW result \in Outcome, NEW by \in Editors \cup {"console"}, SettingsOpen(result, by)
  PROVE  saving' \in SaveRecord
<1>1. result.doc \in Docs /\ document \in Docs
  BY DEF Outcome, SettingsInv
<1> QED
  BY <1>1 DEF SettingsOpen, SaveRecord

(* The three ends of a write.                                              *)
LEMMA SaveKeeps ==
  ASSUME SettingsInv, SaveCheck \/ SaveRename \/ SaveFails
  PROVE  SettingsInv'
<1>1. saving # NoSave
  <2>1. CASE SaveFails
    BY <2>1 DEF SaveFails
  <2>2. NoSave.pc # "written" /\ NoSave.pc # "checked"
    BY DEF NoSave
  <2>3. CASE SaveCheck \/ SaveRename
    BY <2>2, <2>3 DEF SaveCheck, SaveRename
  <2> QED
    BY <2>1, <2>3
<1>2. saving \in SaveRecord /\ document \in Docs /\ saving.doc \in Docs
  BY <1>1 DEF SettingsInv, SaveRecord
<1>3. CASE SaveCheck
  <2>1. saving' \in SaveRecord
    BY <1>2, <1>3 DEF SaveCheck, SaveRecord
  <2> QED
    BY <1>2, <1>3, <2>1, ScreensStay DEF SaveCheck
<1>4. ASSUME NEW ok \in BOOLEAN, Answer(ok), document' \in Docs, saving' = NoSave
      PROVE  SettingsInv'
  <2>1. CASE saving.by \notin Editors
    BY <1>4, <2>1, ScreensStay DEF Answer
  <2>2. CASE saving.by \in Editors
    <3>1. PICK e \in Editors : e = saving.by /\ ScreenOK(screen[e])
      BY <2>2 DEF SettingsInv
    <3>2. screen' = [screen EXCEPT ![e] =
             IF ok THEN [Away EXCEPT !.state = "loading"]
                   ELSE [screen[e] EXCEPT !.state = "shown"]]
      BY <1>4, <2>2, <3>1 DEF Answer, SettingsAnswered
    <3>3. PICK s : s = (IF ok THEN [Away EXCEPT !.state = "loading"]
                              ELSE [screen[e] EXCEPT !.state = "shown"])
      OBVIOUS
    <3>4. "loading" \in {"away", "loading", "shown", "saving"} /\ "shown" \in {"away", "loading", "shown", "saving"}
      OBVIOUS
    <3>5. ScreenOK([Away EXCEPT !.state = "loading"])
      BY <3>1, <3>4, StateTurns
    <3>6. ScreenOK([screen[e] EXCEPT !.state = "shown"])
      BY <3>1, <3>4, StateTurns
    <3>7. ScreenOK(s)
      BY <3>3, <3>5, <3>6
    <3>8. screen' = [screen EXCEPT ![e] = s]
      BY <3>2, <3>3
    <3> QED
      BY <1>4, <3>7, <3>8, ScreenStep
  <2> QED
    BY <2>1, <2>2
<1>5. CASE SaveRename
  BY <1>2, <1>4, <1>5 DEF SaveRename
<1>6. CASE SaveFails
  BY <1>2, <1>4, <1>6 DEF SaveFails
<1> QED
  BY <1>3, <1>5, <1>6

(* A command of the console.                                               *)
LEMMA CommandKeeps ==
  ASSUME SettingsInv, NEW change \in Changes(document), settingsCommand(change)
  PROVE  SettingsInv'
<1>1. change \in PageOffers(document) /\ document \in Docs
  BY DEF settingsCommand, PageOffers, SettingsInv
<1>2. Change(document, change) \in Outcome
  BY <1>1, ChangedIs
<1>3. saving' \in SaveRecord
  BY <1>2, OpenKeeps DEF settingsCommand
<1> QED
  BY <1>1, <1>3, ScreensStay DEF settingsCommand

(* The file is edited by hand: an entry is removed, or gets another        *)
(* adapter.                                                                *)
LEMMA HandKeeps ==
  ASSUME SettingsInv, NEW doc \in ByHand, HandEdit(doc)
  PROVE  SettingsInv'
<1>1. document \in Docs
  BY DEF SettingsInv
<1>2. \A k \in DOMAIN document : drop(document, k) \in Docs
  BY <1>1, DropIs
<1>3. ASSUME NEW c \in Changes(document), c.op = "adapter" PROVE Change(document, c).doc \in Docs
  <2>1. c \in PageOffers(document)
    BY <1>3 DEF PageOffers, Meant
  <2>2. Change(document, c) \in Outcome
    BY <1>1, <2>1, ChangedIs
  <2> QED
    BY <2>2 DEF Outcome
<1>4. doc \in Docs
  BY <1>2, <1>3 DEF ByHand
<1> QED
  BY <1>4, ScreensStay DEF HandEdit, SettingsInv

(* The page that is loaded has masks for the secrets of the document it    *)
(* shows.                                                                  *)
LEMMA PreviewKeeps ==
  ASSUME SettingsInv, NEW e \in Editors, onSettingsPreview(e)
  PROVE  SettingsInv'
<1>0. /\ ScreenOK(screen[e]) /\ document \in Docs /\ document' = document
      /\ saving' = saving /\ (saving = NoSave \/ saving \in SaveRecord)
  BY DEF SettingsInv, onSettingsPreview
<1>1. PICK old : old = screen[e] /\ ScreenOK(old) /\ old \in ScreenRecord
  BY <1>0 DEF ScreenOK
<1>2. PICK patch : patch = (IF old.next = {} THEN [revision |-> document, changes |-> <<>>]
                            ELSE CHOOSE p \in old.next : TRUE)
  OBVIOUS
<1>3. PICK result : result = ApplyPatch(document, patch)
  OBVIOUS
<1>4. screen' = [screen EXCEPT ![e] =
         IF result.ok THEN [state |-> "shown", patch |-> {patch}, next |-> {}, page |-> result.doc]
                      ELSE [old EXCEPT !.state = "shown", !.next = {}]]
  BY <1>1, <1>2, <1>3 DEF onSettingsPreview
<1>5. CASE result.ok
  <2>1. result = ApplyChanges(patch.revision, patch.changes) /\ patch.revision = document
    BY <1>3, <1>5, PatchApplied
  <2>2. patch \in Patch /\ result \in Outcome
    <3>1. CASE old.next = {}
      <4>1. <<>> \in Seq(Edits)
        OBVIOUS
      <4>2. /\ [revision |-> document, changes |-> <<>>] \in Patch
            /\ [revision |-> document, changes |-> <<>>].changes = <<>>
        BY <1>0, <4>1 DEF Patch
      <4>3. patch \in Patch /\ patch.changes = <<>>
        BY <1>2, <3>1, <4>2
      <4>4. result = Accepted(document)
        BY <2>1, <4>3, NoChanges
      <4> QED
        BY <1>0, <4>3, <4>4, OutcomesAre
    <3>2. CASE old.next # {}
      <4>1. patch \in old.next
        BY <1>2, <3>2
      <4> QED
        BY <1>1, <2>1, <4>1 DEF ScreenOK, ScreenRecord
    <3> QED
      BY <3>1, <3>2
  <2>3. result.doc \in Docs /\ result = Accepted(result.doc)
    BY <1>5, <2>2 DEF Outcome, Accepted
  <2> DEFINE s == [state |-> "shown", patch |-> {patch}, next |-> {}, page |-> result.doc]
  <2>4. s \in ScreenRecord /\ s.patch = {patch} /\ s.next = {} /\ s.page = result.doc
    BY <2>2, <2>3 DEF ScreenRecord
  <2>5. screen' = [screen EXCEPT ![e] = s]
    BY <1>4, <1>5
  <2> HIDE DEF s
  <2>6. ScreenOK(s)
    BY <2>1, <2>3, <2>4 DEF ScreenOK
  <2> QED
    BY <1>0, <2>5, <2>6, ScreenStep
<1>6. CASE ~result.ok
  <2> DEFINE s == [old EXCEPT !.state = "shown", !.next = {}]
  <2>1. "shown" \in {"away", "loading", "shown", "saving"}
    OBVIOUS
  <2>2. ScreenOK(s)
    BY <1>1, <2>1, StateTurns
  <2>3. screen' = [screen EXCEPT ![e] = s]
    BY <1>4, <1>6
  <2> HIDE DEF s
  <2> QED
    BY <1>0, <2>2, <2>3, ScreenStep
<1> QED
  BY <1>5, <1>6

(* A change is staged against the page, after those staged before.         *)
LEMMA StageKeeps ==
  ASSUME SettingsInv, NEW e \in Editors, NEW change \in PageOffers(screen[e].page), stageChange(e, change)
  PROVE  SettingsInv'
<1>0. /\ ScreenOK(screen[e]) /\ document \in Docs /\ document' = document
      /\ saving' = saving /\ (saving = NoSave \/ saving \in SaveRecord)
  BY DEF SettingsInv, stageChange
<1>1. PICK old : old = screen[e] /\ ScreenOK(old) /\ old \in ScreenRecord /\ change \in PageOffers(old.page)
  BY <1>0 DEF ScreenOK
<1>2. PICK p \in old.patch :
        screen' = [screen EXCEPT ![e].state = "loading",
                                 ![e].next = {[p EXCEPT !.changes = Append(@, change)]}]
  BY <1>1 DEF stageChange
<1>3. PICK q : q = [p EXCEPT !.changes = Append(p.changes, change)]
  OBVIOUS
<1>4. q \in Patch /\ ApplyChanges(q.revision, q.changes) \in Outcome
  BY <1>1, <1>3, StagedIs
<1> DEFINE s == [old EXCEPT !.state = "loading", !.next = {q}]
<1>5. screen' = [screen EXCEPT ![e] = s]
  BY <1>1, <1>2, <1>3 DEF SettingsInv
<1>6. s \in ScreenRecord /\ s.patch = old.patch /\ s.next = {q} /\ s.page = old.page
  BY <1>1, <1>4 DEF ScreenRecord
<1> HIDE DEF s
<1>7. ScreenOK(s)
  BY <1>1, <1>4, <1>6 DEF ScreenOK
<1> QED
  BY <1>0, <1>5, <1>7, ScreenStep

(* The screen is opened, discarded or saved.                               *)
LEMMA EditorKeeps ==
  ASSUME SettingsInv, NEW e \in Editors, NEW leave \in BOOLEAN,
         enterSettings(e) \/ updateSettingsReview(e) \/ discard(e, leave)
  PROVE  SettingsInv'
<1>0. /\ ScreenOK(screen[e]) /\ document \in Docs /\ document' = document
      /\ (saving = NoSave \/ saving \in SaveRecord)
  BY DEF SettingsInv, enterSettings, updateSettingsReview, discard
<1>2. PICK old : old = screen[e] /\ ScreenOK(old) /\ old \in ScreenRecord
  BY <1>0 DEF ScreenOK
<1>3. ASSUME NEW state \in {"away", "loading", "shown", "saving"}
      PROVE  /\ ScreenOK([old EXCEPT !.state = state])
             /\ ScreenOK([Away EXCEPT !.state = state])
  BY <1>2, StateTurns
<1>4. CASE enterSettings(e)
  <2> DEFINE s == [Away EXCEPT !.state = "loading"]
  <2>1. ScreenOK(s)
    BY <1>3
  <2>2. screen' = [screen EXCEPT ![e] = s] /\ saving' = saving
    BY <1>4 DEF enterSettings
  <2> HIDE DEF s
  <2> QED
    BY <1>0, <2>1, <2>2, ScreenStep
<1>5. CASE discard(e, leave)
  <2>1. ScreenOK(Away)
    <3>1. <<>> \in Docs
      BY NoBlocks
    <3>2. Away \in ScreenRecord /\ Away.patch = {} /\ Away.next = {}
      BY <3>1 DEF Away, ScreenRecord
    <3> QED
      BY <3>2 DEF ScreenOK
  <2>2. ScreenOK([Away EXCEPT !.state = "loading"])
    BY <1>3
  <2>3. PICK s : s = (IF leave THEN Away ELSE [Away EXCEPT !.state = "loading"])
    OBVIOUS
  <2>4. ScreenOK(s)
    BY <2>1, <2>2, <2>3
  <2>5. screen' = [screen EXCEPT ![e] = s] /\ saving' = saving
    BY <1>2, <1>5, <2>3 DEF discard
  <2> QED
    BY <1>0, <2>4, <2>5, ScreenStep
<1>6. CASE updateSettingsReview(e)
  <2>1. PICK p \in old.patch : SettingsOpen(ApplyPatch(document, p), e)
    BY <1>2, <1>6 DEF updateSettingsReview
  <2>2. ApplyPatch(document, p).ok
    BY <2>1 DEF SettingsOpen
  <2>3. ApplyPatch(document, p) = Accepted(old.page) /\ old.page \in Docs
    BY <1>2, <2>1, <2>2, PatchApplied DEF ScreenOK, ScreenRecord
  <2>4. PICK result \in Outcome : result = ApplyPatch(document, p)
    BY <2>3, OutcomesAre
  <2>5. saving' \in SaveRecord
    BY <2>1, <2>4, OpenKeeps
  <2> DEFINE s == [old EXCEPT !.state = "saving"]
  <2>6. ScreenOK(s)
    BY <1>3
  <2>7. screen' = [screen EXCEPT ![e] = s]
    BY <1>2, <1>6 DEF updateSettingsReview, SettingsInv
  <2> HIDE DEF s
  <2> QED
    BY <1>0, <2>5, <2>6, <2>7, ScreenStep
<1> QED
  BY <1>4, <1>5, <1>6

(* The server restarts.                                                    *)
LEMMA RestartsKeep ==
  ASSUME SettingsInv, Restart \/ Boot
  PROVE  SettingsInv'
<1>1. CASE Restart
  BY <1>1, ScreensStay DEF Restart, SettingsInv
<1>2. CASE Boot
  <2>1. /\ screen' = [e \in Editors |-> IF screen[e].state = "saving" THEN [screen[e] EXCEPT !.state = "shown"]
                                                                    ELSE screen[e]]
        /\ document' = document /\ saving' = NoSave
    BY <1>2 DEF Boot
  <2>2. ASSUME NEW e \in Editors PROVE ScreenOK(screen'[e])
    <3>1. PICK old : old = screen[e] /\ ScreenOK(old)
      BY DEF SettingsInv
    <3>2. ScreenOK([old EXCEPT !.state = "shown"])
      BY <3>1, StateTurns
    <3>3. screen'[e] = old \/ screen'[e] = [old EXCEPT !.state = "shown"]
      BY <2>1, <3>1
    <3> QED
      BY <3>1, <3>2, <3>3
  <2>3. DOMAIN screen' = Editors /\ screen' = [e \in Editors |-> screen'[e]]
    BY <2>1
  <2> QED
    BY <2>1, <2>2, <2>3 DEF SettingsInv
<1> QED
  BY <1>1, <1>2

(* For any number of editors, blocks, adapters, defaults and staged        *)
(* changes: a secret in the settings file belongs to the adapter it was    *)
(* typed for, or was left behind under the default by clearing the         *)
(* discriminator, whatever is moved, edited by hand or replaced between    *)
(* the page that was shown and the patch that is saved                     *)
(* (settings/patch.go, view.go, tui/settings.go).                          *)
THEOREM SecretsAlwaysStay == SettingsSpec => []SecretsStay
<1>1. SettingsInit => SettingsInv
  <2> SUFFICES ASSUME SettingsInit PROVE SettingsInv
    OBVIOUS
  <2>1. document \in Docs
    <3>1. CASE document = <<>>
      BY <3>1, NoBlocks
    <3>2. ASSUME NEW k \in Blocks, NEW a \in WithSecret, document = [j \in {k} |-> Entry(a, a)]
          PROVE  document \in Docs
      <4>1. a \in Adapters /\ a # Unset
        BY SettingsAssumption DEF SettingsAssumption
      <4>2. GoodEntry(k, Entry(a, a))
        BY <4>1, EntryIs
      <4>3. PICK n : n = Entry(a, a)
        OBVIOUS
      <4>4. /\ document = [j \in DOMAIN document |-> document[j]] /\ DOMAIN document \subseteq Blocks
            /\ \A j \in DOMAIN document : GoodEntry(j, document[j])
        BY <3>2, <4>2, <4>3
      <4> QED
        BY <4>4, DocsAre
    <3> QED
      BY <3>1, <3>2 DEF SettingsInit
  <2>2. ScreenOK(Away)
    <3>1. <<>> \in Docs
      BY NoBlocks
    <3>2. Away \in ScreenRecord /\ Away.patch = {} /\ Away.next = {}
      BY <3>1 DEF Away, ScreenRecord
    <3> QED
      BY <3>2 DEF ScreenOK
  <2> QED
    BY <2>1, <2>2 DEF SettingsInit, SettingsInv
<1>2. SettingsInv /\ [SettingsNext]_settingsVars => SettingsInv'
  <2> SUFFICES ASSUME SettingsInv, [SettingsNext]_settingsVars PROVE SettingsInv'
    OBVIOUS
  <2>1. CASE UNCHANGED settingsVars
    BY <2>1 DEF settingsVars, SettingsInv
  <2>2. \A e \in Editors : enterSettings(e) \/ updateSettingsReview(e) => SettingsInv'
    <3>1. TRUE \in BOOLEAN
      OBVIOUS
    <3> QED
      BY <3>1, EditorKeeps
  <2> QED
    BY <2>1, <2>2, SaveKeeps, RestartsKeep, CommandKeeps, HandKeeps, PreviewKeeps, StageKeeps, EditorKeeps
       DEF SettingsNext
<1>3. SettingsInv => SecretsStay
  <2> SUFFICES ASSUME SettingsInv, NEW k \in DOMAIN document
               PROVE  document[k].secret \in {Unset, ChosenAt(document, k)} \/ ChosenAt(document, k) = Default[k]
    BY DEF SecretsStay
  <2>1. GoodEntry(k, document[k])
    BY DocsAre DEF SettingsInv
  <2>2. ChosenAt(document, k) = stringAt(document[k], k)
    BY DEF ChosenAt, At
  <2> QED
    BY <2>1, <2>2 DEF GoodEntry
<1> QED
  BY <1>1, <1>2, <1>3, PTL DEF SettingsSpec

=============================================================================
