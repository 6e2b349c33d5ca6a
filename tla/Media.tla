-------------------------------- MODULE Media --------------------------------
(***************************************************************************)
(* Pictures and news from other sites.  skin.Mirror fetches the picture    *)
(* behind a player's skin URL and serves it under the name of its hash;    *)
(* news.httpSource asks the site for its news once for all callers.        *)
(* Pictures and editions of the news are numbers, 0 is none.               *)
(***************************************************************************)
EXTENDS Integers, Sequences, SequencesExt, FiniteSets, FiniteSetsExt

CONSTANTS MediaCalls,      \* API calls
          URLs, Pictures,
          Bytes,           \* size of a picture: [Pictures -> Nat]
          MirrorTotal, MirrorURLs,  \* mirrorTotalCap, mirrorURLCap
          MirrorTTL, NewsTTL, AnswerTime,  \* the client's timeout
          MaxMediaClock, MaxChanges, MaxOutages

ASSUME MediaAssumption == /\ {MirrorTotal, MirrorURLs, MirrorTTL, NewsTTL, AnswerTime, MaxMediaClock} \subseteq Nat
                          /\ Pictures # {} /\ 0 \notin Pictures /\ \A p \in Pictures : Bytes[p] \in Nat

VARIABLES picture,    \* the site: what is behind a URL, and since when
          names, kept, order, bytes,  \* Mirror
          looking,    \* call -> where it is in Mirror.mirrored
          edition,    \* the site: the latest news
          items, fetched, asking,     \* httpSource
          newsCall,   \* call -> where it is in httpSource.Items
          mediaClock, outages, changes, failedAt

mirrorVars == <<picture, names, kept, order, bytes, looking>>
newsVars == <<edition, items, fetched, asking, newsCall>>
mediaVars == <<mirrorVars, newsVars, mediaClock, outages, changes, failedAt>>

NoPicture == 0
Resting == [pc |-> "idle"]
NeverAsked == [name |-> NoPicture, fetched |-> -1]

----------------------------------------------------------------------------
(* The site *)

ChangePicture(u) ==
    /\ changes < MaxChanges /\ changes' = changes + 1
    /\ \E p \in Pictures \union {NoPicture} :
         p # picture[u].now /\ picture' = [picture EXCEPT ![u] = [now |-> p, since |-> mediaClock]]
    /\ UNCHANGED <<names, kept, order, bytes, looking, newsVars, mediaClock, outages, failedAt>>

----------------------------------------------------------------------------
(* Mirror *)

(* remembered: a name whose picture is no longer held is asked for again.  *)
remembered(u) ==
    /\ names[u] # NeverAsked /\ mediaClock - names[u].fetched <= MirrorTTL
    /\ names[u].name = NoPicture \/ names[u].name \in kept

lastKnown(u) == IF names[u].name \in kept THEN names[u].name ELSE NoPicture

(* A call for a name that is remembered is answered with it and changes    *)
(* nothing.                                                                *)
Look(c, u) ==
    /\ looking[c] = Resting /\ ~ remembered(u)
    /\ looking' = [looking EXCEPT ![c] = [pc |-> "fetch", url |-> u, began |-> mediaClock]]
    /\ UNCHANGED <<picture, names, kept, order, bytes, newsVars, mediaClock, outages, changes, failedAt>>

(* keep: what is held is not counted again; the oldest go until the rest   *)
(* fits.                                                                   *)
TotalBytes(sequence) ==
    LET upTo[n \in 0..Len(sequence)] == IF n = 0 THEN 0 ELSE upTo[n - 1] + Bytes[sequence[n]]
    IN  upTo[Len(sequence)]
Dropped(sequence) ==
    CHOOSE n \in 0..(Len(sequence) - 1) :
        /\ n = Len(sequence) - 1 \/ TotalBytes(SubSeq(sequence, n + 1, Len(sequence))) <= MirrorTotal
        /\ \A m \in 0..(n - 1) : TotalBytes(SubSeq(sequence, m + 1, Len(sequence))) > MirrorTotal
KeepNew(p) ==
    LET longer == Append(order, p) IN
    /\ order' = SubSeq(longer, Dropped(longer) + 1, Len(longer))
    /\ kept' = (kept \union {p}) \ Range(SubSeq(longer, 1, Dropped(longer)))
    /\ bytes' = bytes + Bytes[p] - TotalBytes(SubSeq(longer, 1, Dropped(longer)))
keep(p) == IF p \in kept THEN UNCHANGED <<kept, order, bytes>> ELSE KeepNew(p)

(* fetch: a picture, an answer without one, or no answer.                  *)
Fetch(c) ==
    /\ looking[c].pc = "fetch"
    /\ LET u == looking[c].url
           Got(p) == looking' = [looking EXCEPT ![c] = [pc |-> "remember", url |-> u, found |-> p,
                                                        began |-> looking[c].began]]
       IN  \/ picture[u].now # NoPicture /\ keep(picture[u].now) /\ Got(picture[u].now)
              /\ UNCHANGED <<outages, failedAt>>
           \/ picture[u].now = NoPicture /\ Got(NoPicture) /\ UNCHANGED <<kept, order, bytes, outages, failedAt>>
           \/ /\ outages < MaxOutages /\ outages' = outages + 1 /\ failedAt' = mediaClock
              /\ Got(lastKnown(u)) /\ UNCHANGED <<kept, order, bytes>>
    /\ UNCHANGED <<picture, names, newsVars, mediaClock, changes>>

(* remember: a full table is emptied first; the call is answered with what *)
(* it found.                                                               *)
RememberForever(c) ==
    /\ looking[c].pc = "remember"
    /\ LET u == looking[c].url IN
       /\ names' = IF names[u] # NeverAsked THEN [names EXCEPT ![u].fetched = mediaClock]
                   ELSE [names EXCEPT ![u] = [name |-> looking[c].found, fetched |-> mediaClock]]
    /\ looking' = [looking EXCEPT ![c] = Resting]
    /\ UNCHANGED <<picture, kept, order, bytes, newsVars, mediaClock, outages, changes, failedAt>>
Remember(c) ==
    /\ looking[c].pc = "remember"
    /\ LET u == looking[c].url
           full == Cardinality({v \in URLs : names[v] # NeverAsked}) > MirrorURLs
           known == IF full THEN [v \in URLs |-> NeverAsked] ELSE names
       IN  /\ names' = [known EXCEPT ![u] = [name |-> looking[c].found, fetched |-> mediaClock]]
           /\ looking' = [looking EXCEPT ![c] = Resting]
    /\ UNCHANGED <<picture, kept, order, bytes, newsVars, mediaClock, outages, changes, failedAt>>

----------------------------------------------------------------------------
(* News *)

Announce ==
    /\ changes < MaxChanges /\ changes' = changes + 1
    /\ edition' = edition + 1
    /\ UNCHANGED <<mirrorVars, items, fetched, asking, newsCall, mediaClock, outages, failedAt>>

(* Items, first half: news that are fresh, or those there are while        *)
(* another call asks; otherwise this call asks.                            *)
OthersAsk == asking

Items(c) ==
    /\ newsCall[c] = Resting
    /\ ~ (items >= 0 /\ mediaClock - fetched < NewsTTL) /\ ~ OthersAsk
    /\ asking' = TRUE /\ fetched' = mediaClock
    /\ newsCall' = [newsCall EXCEPT ![c] = [pc |-> "ask", began |-> mediaClock]]
    /\ UNCHANGED <<mirrorVars, edition, items, mediaClock, outages, changes, failedAt>>

(* ask: the site answers, does not, or the launcher that asked went away.  *)
AskNews(c) ==
    /\ newsCall[c].pc = "ask"
    /\ \/ /\ newsCall' = [newsCall EXCEPT ![c] = [pc |-> "store", got |-> edition, began |-> newsCall[c].began]]
          /\ UNCHANGED outages
       \/ /\ outages < MaxOutages /\ outages' = outages + 1
          /\ newsCall' = [newsCall EXCEPT ![c] = [pc |-> "store", got |-> -1, began |-> newsCall[c].began]]
    /\ UNCHANGED <<mirrorVars, edition, items, fetched, asking, mediaClock, changes, failedAt>>

(* Second half: an error leaves the old news, or an empty list for the     *)
(* whole NewsTTL.  The call that asked returns the error, and Latest then  *)
(* answers that call alone with no news (news.go:115).                     *)
Store(c) ==
    /\ newsCall[c].pc = "store"
    /\ asking' = FALSE
    /\ items' = IF newsCall[c].got >= 0 THEN newsCall[c].got ELSE Max({items, 0})
    /\ newsCall' = [newsCall EXCEPT ![c] = Resting]
    /\ UNCHANGED <<mirrorVars, edition, fetched, mediaClock, outages, changes, failedAt>>

----------------------------------------------------------------------------
(* A request ends within the client's timeout.                             *)
InTime(call) == call # Resting => mediaClock - call.began < AnswerTime

MediaTick ==
    /\ mediaClock < MaxMediaClock /\ mediaClock' = mediaClock + 1
    /\ \A c \in MediaCalls : InTime(looking[c]) /\ InTime(newsCall[c])
    /\ UNCHANGED <<mirrorVars, newsVars, outages, changes, failedAt>>

MediaInit ==
    /\ picture = [u \in URLs |-> [now |-> CHOOSE p \in Pictures : TRUE, since |-> 0]]
    /\ names = [u \in URLs |-> NeverAsked]
    /\ kept = {} /\ order = <<>> /\ bytes = 0
    /\ looking = [c \in MediaCalls |-> Resting]
    /\ edition = 0 /\ items = -1 /\ fetched = 0 /\ asking = FALSE
    /\ newsCall = [c \in MediaCalls |-> Resting]
    /\ mediaClock = 0 /\ outages = 0 /\ changes = 0 /\ failedAt = -1

(* Pictures and news have nothing in common but the clock.                 *)
MirrorNext ==
    \/ \E u \in URLs : ChangePicture(u) \/ \E c \in MediaCalls : Look(c, u)
    \/ \E c \in MediaCalls : Fetch(c) \/ Remember(c)
    \/ MediaTick
NewsNext ==
    \/ Announce
    \/ \E c \in MediaCalls : Items(c) \/ AskNews(c) \/ Store(c)
    \/ MediaTick

MediaSpec == MediaInit /\ [][MirrorNext \/ NewsNext]_mediaVars

----------------------------------------------------------------------------
(* Properties *)

(* The picture a player is shown is the one behind the URL, or was until   *)
(* at most MirrorTTL and one slow answer ago, however calls for the same   *)
(* URL overtake each other and the table is emptied in between; only a     *)
(* site that did not answer prolongs that (Mirror.mirrored, remember).     *)
ShownFresh ==
    LET Fresh(u, shown) ==
          \/ shown = picture[u].now
          \/ mediaClock - Max({picture[u].since, failedAt}) <= MirrorTTL + AnswerTime
    IN  /\ \A u \in URLs : remembered(u) => Fresh(u, names[u].name)
        /\ \A c \in MediaCalls : looking[c].pc = "remember" => Fresh(looking[c].url, looking[c].found)

(* What the mirror holds in memory is what it counts, each picture once    *)
(* and at most MirrorTotal, or one picture, although calls fetch the same  *)
(* picture at the same time (Mirror.keep).                                 *)
MirrorBounded ==
    /\ kept = Range(order) /\ Len(order) = Cardinality(kept)
    /\ bytes = TotalBytes(order)
    /\ bytes <= MirrorTotal \/ Len(order) = 1

(* The news kept for the launchers never go back to an older edition,      *)
(* whichever answers come late (httpSource.Items).                         *)
NewsNeverBack == items' >= items

(* In every step: a picture shown is not staler than the mirror allows,    *)
(* the mirror stays within its memory, and the news never go back, however *)
(* the calls overlap.                                                      *)
MediaHonest == [][ShownFresh' /\ MirrorBounded' /\ NewsNeverBack]_mediaVars
=============================================================================
