----------------------------- MODULE AccessRules -----------------------------
(***************************************************************************)
(* Who may have a build: access.Controller and its sources, and the        *)
(* handlers of the launcher API that ask it.  One build under one rule,    *)
(* whose list is a file or a remote list or a remote check of one player.  *)
(* The file source answers under its lock from a roster it re-reads; the   *)
(* HTTP source shares one fetch between all calls that need the same key.  *)
(***************************************************************************)
EXTENDS Integers, FiniteSets, TLC

CONSTANTS AccessPlayers, AccessCalls,
          Rules,            \* the configurations looked at, a subset of Rule
          CacheTTL, ErrorTTL, FileStatInterval,
          FetchTime,        \* the client's timeout
          MaxCachedEntries,
          MaxEdits,         \* bound: changes of the list
          MaxAccessClock    \* bound: ticks

ASSUME AccessAssumption ==
    /\ {CacheTTL, ErrorTTL, FileStatInterval, FetchTime, MaxCachedEntries, MaxEdits, MaxAccessClock} \subseteq Nat \ {0}
    /\ IsFiniteSet(AccessPlayers) /\ IsFiniteSet(AccessCalls)

VARIABLES rule,      \* the rule and its source, as configured
          list,      \* what the operator keeps: members, and whether it can be read
          roster,    \* fileSource: roster, stamp, checked
          current,   \* httpSource.entries: an entry is settled, or fetched by a call
          asking,    \* what each call has yet to do
          answer,    \* the answer given in the last step
          clock,
          entitled,  \* history: when a player was last on the list, and it readable
          seen       \* history: when the list was last readable, when last not, and when
                     \* the file source last answered with the file readable all along

accessVars == <<rule, list, roster, current, asking, answer, clock, entitled, seen>>

Rule == [source : {"file", "list", "check"}, failOpen : BOOLEAN, hidden : BOOLEAN,
         publicObjects : BOOLEAN]
ASSUME RulesAssumption == Rules \subseteq Rule

Handler == {"list", "manifest", "object"}
TokenState == {"absent", "valid", "stale", "unknown"}
Everyone == "everyone"
CacheKeys == AccessPlayers \union {Everyone}
NoRoster == [members |-> {}, stamp |-> -1, checked |-> -1]
NotAsking == [pc |-> "idle"]
Nobody == "nobody"
Unsettled == [by |-> Nobody, fetched |-> 0, error |-> FALSE, members |-> {}]
NoEntry == [by |-> "no entry"]
NoAnswer == [reply |-> "none", handler |-> "list", player |-> Nobody]

ASSUME NobodyAssumption == Nobody \notin AccessPlayers \union AccessCalls

----------------------------------------------------------------------------
(* Decisions. *)

(* A rule that matches decides; nobody else than a named player is asked   *)
(* about, and an error closes the build.                                   *)
Decide(known, allowed, error) == known /\ allowed /\ ~error

(* The answers of the three handlers to a decision.                        *)
ListProfiles(allowed) == IF allowed THEN "open" ELSE IF rule.hidden THEN "absent" ELSE "locked"
GetManifest(allowed) == IF allowed THEN "open" ELSE IF rule.hidden THEN "absent" ELSE "denied"
allowedObject(allowed) == IF allowed THEN "open" ELSE "absent"
Reply(handler, allowed) == CASE handler = "list" -> ListProfiles(allowed)
                             [] handler = "manifest" -> GetManifest(allowed)
                             [] handler = "object" -> allowedObject(allowed)

Guarded == ~rule.publicObjects

(* A call ends with the answer of one of the handlers that came to ask;    *)
(* every other step leaves no answer behind.                               *)
Answered(handler, player, allowed) ==
    answer' = [reply |-> Reply(handler, allowed), handler |-> handler, player |-> player]
Silent == answer' = NoAnswer
Decides(c, allowed, error) ==
    /\ \E handler \in Handler : Answered(handler, asking[c].player, Decide(TRUE, allowed, error))
    /\ asking' = [asking EXCEPT ![c] = NotAsking]

(* A request whose token is valid (Session) has the source asked.          *)
Request(c, player) ==
    /\ asking[c] = NotAsking
    /\ asking' = [asking EXCEPT ![c] = [pc |-> "ask", player |-> player, from |-> 0,
                                             on |-> Nobody, result |-> Unsettled]]
    /\ Silent
    /\ UNCHANGED <<rule, list, roster, current, clock>>

(* Without one: files nobody guards are served, a stale or unchecked token *)
(* is sent to sign in except by the list, and nobody's name is on a list.  *)
RequestUnnamed(handler, state) ==
    /\ state # "valid"
    /\ IF handler = "object" /\ ~Guarded THEN Answered(handler, Nobody, TRUE)
       ELSE IF handler # "list" /\ state \in {"stale", "unknown"}
            THEN answer' = [reply |-> "signin", handler |-> handler, player |-> Nobody]
            ELSE Answered(handler, Nobody, Decide(FALSE, TRUE, FALSE))
    /\ UNCHANGED <<rule, list, roster, current, asking, clock>>

----------------------------------------------------------------------------
(* fileSource. *)

Recent == roster.stamp >= 0 /\ clock - roster.checked < FileStatInterval

(* load: a roster looked at a moment ago is used as it is; a file that is  *)
(* gone or unchanged keeps the roster, one that cannot be parsed is an     *)
(* error now and leaves the old roster for the next calls.                 *)
fileLoad(c) ==
    /\ asking[c].pc = "ask" /\ rule.source = "file"
    /\ \/ /\ Recent
          /\ Decides(c, asking[c].player \in roster.members, FALSE)
          /\ UNCHANGED roster
       \/ /\ ~Recent
          /\ LET looked == [roster EXCEPT !.checked = clock]
                 had == roster.stamp >= 0
                 kept == had /\ (list.state = "gone" \/ (list.state = "ok" /\ list.stamp = roster.stamp))
             IN  IF kept THEN /\ roster' = looked
                              /\ Decides(c, asking[c].player \in roster.members, FALSE)
                 ELSE IF list.state = "ok"
                      THEN /\ roster' = [looked EXCEPT !.members = list.members, !.stamp = list.stamp]
                           /\ Decides(c, asking[c].player \in list.members, FALSE)
                      ELSE /\ roster' = looked
                           /\ Decides(c, FALSE, TRUE)
    /\ UNCHANGED <<rule, list, current, clock>>

----------------------------------------------------------------------------
(* httpSource. *)

Key(player) == IF rule.source = "check" THEN player ELSE Everyone

liveTooLong(key) == clock - current[key].fetched <=
             IF current[key].error /\ ErrorTTL < CacheTTL THEN ErrorTTL ELSE CacheTTL
live(key) == clock - current[key].fetched <
             IF current[key].error /\ ErrorTTL < CacheTTL THEN ErrorTTL ELSE CacheTTL

Stored == {key \in CacheKeys : current[key] # NoEntry}
Settled(key) == current[key].by = Nobody
Usable(key) == key \in Stored /\ (Settled(key) => live(key))

(* evictLocked: entries somebody still waits for are never dropped.        *)
Evicted ==
    LET stale == {key \in Stored : Settled(key) /\ ~live(key)}
        left == Stored \ stale
        gone == IF Cardinality(left) < MaxCachedEntries THEN stale
                ELSE stale \union {key \in left : Settled(key)}
    IN  [key \in CacheKeys |-> IF key \in gone THEN NoEntry ELSE current[key]]

(* The entry of a key: a live one, or one being fetched, whose call is     *)
(* joined; otherwise the call puts a new entry there and fetches.          *)
entryFor(c) ==
    /\ asking[c].pc = "ask" /\ rule.source # "file"
    /\ LET key == Key(asking[c].player)
           room == IF Cardinality(Stored) < MaxCachedEntries THEN current ELSE Evicted
       IN  IF ~Usable(key)
           THEN /\ asking' = [asking EXCEPT ![c].pc = "fetch", ![c].from = clock]
                /\ current' = [room EXCEPT ![key] = [Unsettled EXCEPT !.by = c]]
           ELSE /\ asking' = [asking EXCEPT ![c] =
                      IF Settled(key) THEN [@ EXCEPT !.pc = "ready", !.result = current[key]]
                                      ELSE [@ EXCEPT !.pc = "wait", !.on = current[key].by]]
                /\ UNCHANGED current
    /\ Silent
    /\ UNCHANGED <<rule, list, roster, clock>>

(* The service answers with what is on the list at that moment; an answer  *)
(* that cannot be parsed, another status or a timeout is an error.         *)
fetch(c) ==
    /\ asking[c].pc = "fetch"
    /\ LET members == IF rule.source = "check" THEN list.members \cap {asking[c].player} ELSE list.members
           result == [Unsettled EXCEPT !.members = IF list.state = "ok" THEN members ELSE {},
                                       !.error = list.state # "ok"]
       IN  asking' = [asking EXCEPT ![c].pc = "fill", ![c].result = result]
    /\ Silent
    /\ UNCHANGED <<rule, list, roster, current, clock>>

(* fill: closing ready hands the result to every call that waits for this  *)
(* fetch; the entry keeps it if it is still in the map.                    *)
fill(c) ==
    /\ asking[c].pc = "fill"
    /\ LET result == [asking[c].result EXCEPT !.fetched = clock]
           done == {d \in AccessCalls : d = c \/ (asking[d].pc = "wait" /\ asking[d].on = c)}
       IN  /\ asking' = [d \in AccessCalls |-> IF d \in done
                           THEN [asking[d] EXCEPT !.pc = "ready", !.from = 0, !.on = Nobody, !.result = result]
                           ELSE asking[d]]
           /\ current' = [key \in CacheKeys |-> IF current[key].by = c THEN result ELSE current[key]]
    /\ Silent
    /\ UNCHANGED <<rule, list, roster, clock>>

(* The wait ends with the entry, or with the caller's context, which       *)
(* closes the build even under failOpen.                                   *)
Allows(c) ==
    /\ \/ /\ asking[c].pc = "ready"
          /\ IF asking[c].result.error
             THEN Decides(c, rule.failOpen, ~rule.failOpen)
             ELSE Decides(c, asking[c].player \in asking[c].result.members, FALSE)
       \/ /\ asking[c].pc \in {"wait", "ready"}
          /\ Decides(c, rule.failOpen, TRUE)
    /\ UNCHANGED <<rule, list, roster, current, clock>>

----------------------------------------------------------------------------
(* The operator: `access reload`, and the list itself. *)

Reload ==
    /\ roster' = NoRoster
    /\ current' = [k \in CacheKeys |-> NoEntry]
    /\ Silent
    /\ UNCHANGED <<rule, list, asking, clock>>

(* The list is edited, or becomes unreadable: a file is gone or cannot be  *)
(* parsed, a service fails; that leaves open who is on it.                 *)
EditList(members, state) ==
    /\ list.stamp < MaxEdits
    /\ state = "gone" => rule.source = "file"
    /\ list' = [members |-> IF state = "ok" THEN members ELSE list.members,
                state |-> state, stamp |-> list.stamp + 1]
    /\ Silent
    /\ UNCHANGED <<rule, roster, current, asking, clock>>

(* Time passes; a fetch ends in time, and whoever can go on does so.       *)
AccessTick ==
    /\ clock < MaxAccessClock
    /\ \A c \in AccessCalls :
          /\ asking[c].pc \in {"fetch", "fill"} => clock < asking[c].from + FetchTime
          /\ asking[c].pc # "ready"
    /\ clock' = clock + 1
    /\ Silent
    /\ UNCHANGED <<rule, list, roster, current, asking>>

AccessStep ==
    \/ \E c \in AccessCalls :
        \/ \E player \in AccessPlayers : Request(c, player)
        \/ fileLoad(c) \/ entryFor(c) \/ fetch(c) \/ fill(c) \/ Allows(c)
    \/ \E handler \in Handler, state \in TokenState : RequestUnnamed(handler, state)
    \/ Reload
    \/ \E members \in SUBSET AccessPlayers, state \in {"ok", "gone", "broken"} : EditList(members, state)
    \/ AccessTick

Readable == list.state = "ok"
Entitled(player) == Readable /\ player \in list.members

(* How old an answer may be, by the code's own intervals; the file has     *)
(* been readable for at least that long.                                   *)
Lag == IF rule.source = "file" THEN FileStatInterval - 1 ELSE CacheTTL - 1 + FetchTime
Steady == Readable /\ clock > seen.bad + Lag

AccessNext ==
    /\ AccessStep
    /\ entitled' = [p \in AccessPlayers |-> IF Entitled(p) THEN clock ELSE entitled[p]]
    /\ seen' = [ok |-> IF Readable THEN clock ELSE seen.ok,
                bad |-> IF Readable THEN seen.bad ELSE clock,
                asked |-> IF rule.source = "file" /\ Steady /\ answer'.player # Nobody
                          THEN clock ELSE seen.asked]

AccessInit ==
    /\ rule \in Rules
    /\ list = [members |-> AccessPlayers, state |-> "ok", stamp |-> 0]
    /\ roster = NoRoster
    /\ current = [k \in CacheKeys |-> NoEntry]
    /\ asking = [c \in AccessCalls |-> NotAsking]
    /\ answer = NoAnswer
    /\ clock = 0
    /\ entitled = [p \in AccessPlayers |-> 0]
    /\ seen = [ok |-> 0, bad |-> -FileStatInterval, asked |-> 0]

AccessSpec == AccessInit /\ [][AccessNext]_accessVars

----------------------------------------------------------------------------
(* Properties. *)

(* The moment an answer stands for: now; or, when the list file has not    *)
(* been readable all through the last interval, when the source last       *)
(* answered while it was.                                                  *)
AsOf == IF rule.source = "file" /\ ~Steady THEN seen.asked ELSE clock

(* A guarded build is open only to a player who was on the list at most    *)
(* the cache's lifetime (and one fetch) ago (access.go:180, http.go:125,   *)
(* file.go:44): whoever is removed loses it, whatever fetches, reloads,    *)
(* evictions and outages overlap.  A list file that cannot be read freezes *)
(* what the source last went by and opens the build to nobody else         *)
(* (file.go:54).  failOpen and publicObjects say so themselves.            *)
RemovedLosesAccess ==
    answer.reply = "open" =>
        \/ rule.failOpen
        \/ rule.publicObjects /\ answer.handler = "object"
        \/ answer.player # Nobody /\ AsOf <= entitled[answer.player] + Lag

(* docs/builds/access.mdx:109 says that a list file which cannot be read   *)
(* closes the build for everybody.  load keeps answering from the roster   *)
(* it had when the file is gone (file.go:56), and after an error within    *)
(* the interval (file.go:48).                                              *)
UnreadableCloses ==
    rule.source = "file" /\ answer.player # Nobody /\ answer.reply = "open" =>
        clock <= seen.ok + Lag

=============================================================================
