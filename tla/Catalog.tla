------------------------------- MODULE Catalog -------------------------------
(***************************************************************************)
(* What players are served: the snapshot that server/internal/catalog      *)
(* keeps of the published builds.  Requests share one snapshot; the first  *)
(* to find it older than rescanInterval scans the folder under c.rescan,   *)
(* file by file and without any lock against publish, rollback and delete. *)
(* A scan lists the folder, reads each pointer, verifies each release it   *)
(* names, compares the stamp of what it saw with the snapshot's, and only  *)
(* if they differ reads the manifests again (collect).                     *)
(*                                                                         *)
(* ReleaseStore has the writers in full and shows that a pointer names     *)
(* complete releases only.  Here a publish is its commit; delete is still  *)
(* taken file by file.  The identifier of a release stands for its         *)
(* manifests; Flat for the manifests of the old format next to the folder. *)
(***************************************************************************)
EXTENDS Naturals, Sequences

CONSTANTS Builds, Ids,
          Flat,        \* manifests of the old format
          None,        \* the absent value
          Requests,    \* API calls in flight
          MaxChanges,  \* bound: publishes, rollbacks and deletes
          MaxAway,     \* bound: times the folder is unreachable
          MaxCrashes   \* bound: restarts of the daemon

ASSUME Sentinels == /\ Flat \notin Ids /\ None \notin Ids \cup {Flat}
                    /\ None \notin Builds
                    /\ {MaxChanges, MaxAway, MaxCrashes} \subseteq Nat

VARIABLES
  pointer,   \* build -> current release and history, <<>> without a pointer
  release,   \* build -> id -> the release directory
  flat,      \* builds with manifests of the old format
  writer,    \* build -> what the command that holds its lock does next
  away,      \* the folder is unreachable
  current,   \* c.current, the snapshot served
  fresh,     \* c.checked is less than rescanInterval ago
  scan,      \* request -> its call of snapshot()
  held,      \* build -> manifests launchers have fetched
  version,   \* ghost: build -> changes of its pointer
  changes, aways, crashes

diskVars == <<pointer, release, flat, version, changes>>
bounds == <<aways, crashes>>
vars == <<pointer, release, flat, writer, away, current, fresh, scan, held,
          version, changes, aways, crashes>>

Contents == Ids \cup {Flat}
RangeOf(s) == {s[i] : i \in DOMAIN s}
Nothing == [b \in Builds |-> <<>>]
Empty == [stamp |-> Nothing, shown |-> [b \in Builds |-> None],
          owned |-> [b \in Builds |-> {}], version |-> [b \in Builds |-> 0]]

Idle == [at |-> "idle", todo |-> {}, listed |-> {}, build |-> None,
         stamp |-> Nothing, version |-> [b \in Builds |-> 0],
         answer |-> Empty]

\* Everything the pointer names is on disk.
Whole(b) == \A id \in RangeOf(pointer[b]) : release[b][id] = "complete"

\* What players should be shown.
Published(b) == IF pointer[b] # <<>> THEN Head(pointer[b])
                ELSE IF b \in flat THEN Flat ELSE None

Init ==
  /\ pointer = [b \in Builds |-> <<>>]
  /\ release = [b \in Builds |-> [id \in Ids |-> "unused"]]
  /\ flat \in SUBSET Builds
  /\ writer = [b \in Builds |-> "none"]
  /\ away = FALSE
  /\ current = None
  /\ fresh = FALSE
  /\ scan = [s \in Requests |-> Idle]
  /\ held = [b \in Builds |-> {}]
  /\ version = [b \in Builds |-> 0]
  /\ changes = 0 /\ aways = 0 /\ crashes = 0

-----------------------------------------------------------------------------
(* The commands, one at a time for each build. *)

readVars == <<away, current, fresh, scan, held>>

Change(b) ==
  /\ changes < MaxChanges
  /\ changes' = changes + 1
  /\ version' = [version EXCEPT ![b] = @ + 1]

\* The first publication after one of the old format keeps that as a release.
Publish(b, id) ==
  /\ writer[b] = "none" /\ ~away
  /\ release[b][id] = "unused"
  /\ \/ /\ pointer[b] # <<>> \/ b \notin flat
        /\ pointer' = [pointer EXCEPT ![b] = <<id>> \o @]
        /\ release' = [release EXCEPT ![b][id] = "complete"]
     \/ /\ pointer[b] = <<>> /\ b \in flat
        /\ \E old \in Ids \ {id} :
             /\ release[b][old] = "unused"
             /\ pointer' = [pointer EXCEPT ![b] = <<id, old>>]
             /\ release' = [release EXCEPT ![b][id] = "complete",
                                           ![b][old] = "complete"]
  /\ writer' = [writer EXCEPT ![b] = "refresh"]
  /\ Change(b)
  /\ UNCHANGED <<flat, readVars, bounds>>

\* The history with id, which occurs in it once, as its current release.
MovedToFront(s, id) ==
  LET k == CHOOSE k \in DOMAIN s : s[k] = id
  IN  [i \in DOMAIN s |-> IF i = 1 THEN id ELSE IF i <= k THEN s[i - 1] ELSE s[i]]

Rollback(b, id) ==
  /\ writer[b] = "none" /\ ~away
  /\ pointer[b] # <<>>
  /\ id \in RangeOf(Tail(pointer[b]))
  /\ release[b][id] \in {"complete", "torn"}
  /\ pointer' = [pointer EXCEPT ![b] = MovedToFront(@, id)]
  /\ writer' = [writer EXCEPT ![b] = "refresh"]
  /\ Change(b)
  /\ UNCHANGED <<release, flat, readVars, bounds>>

Refresh(b) ==
  /\ writer[b] = "refresh"
  /\ writer' = [writer EXCEPT ![b] = "none"]
  /\ fresh' = FALSE
  /\ UNCHANGED <<diskVars, away, current, scan, held, bounds>>

\* delete: RemoveAll takes the entries in any order, then the flat manifests.
\* A build without a release has a folder if it was installed.
DeleteStart(b) ==
  /\ writer[b] = "none" /\ ~away
  /\ changes < MaxChanges
  /\ writer' = [writer EXCEPT ![b] = "remove"]
  /\ UNCHANGED <<diskVars, readVars, bounds>>

RemoveRelease(b, id) ==
  /\ writer[b] = "remove" /\ ~away
  /\ \/ release[b][id] = "complete" /\ release' = [release EXCEPT ![b][id] = "torn"]
     \/ release[b][id] = "torn" /\ release' = [release EXCEPT ![b][id] = "gone"]
  /\ UNCHANGED <<pointer, flat, writer, version, changes, readVars, bounds>>

RemovePointer(b) ==
  /\ writer[b] = "remove" /\ ~away
  /\ pointer[b] # <<>>
  /\ pointer' = [pointer EXCEPT ![b] = <<>>]
  /\ Change(b)
  /\ UNCHANGED <<release, flat, writer, readVars, bounds>>

\* A flat manifest that cannot be removed is reported, and stays.
FlatRemoved(b) ==
  /\ writer[b] = "remove" /\ ~away
  /\ pointer[b] = <<>>
  /\ \A id \in Ids : release[b][id] \in {"unused", "gone"}
  /\ \/ b \in flat /\ flat' = flat \ {b} /\ Change(b)
     \/ UNCHANGED <<flat, version, changes>>
  /\ writer' = [writer EXCEPT ![b] = "refresh"]
  /\ UNCHANGED <<pointer, release, readVars, bounds>>

\* An error: a delete stops where it is; a publish whose directory could not
\* be synced ends without calling Refresh.
Fail(b) ==
  /\ writer[b] # "none"
  /\ writer' = [writer EXCEPT ![b] = "none"]
  /\ UNCHANGED <<diskVars, readVars, bounds>>
-----------------------------------------------------------------------------
(***************************************************************************)
(* snapshot(), the start of List, Get, Owners, Summaries, Details, Check.  *)
(***************************************************************************)
commandVars == <<diskVars, writer>>

Goto(s, c) == scan' = [scan EXCEPT ![s] = c]
Return(s, snap) == Goto(s, [Idle EXCEPT !.at = "answer", !.answer = snap])

Ready == fresh /\ current # None

Enter(s) ==
  /\ scan[s].at = "idle"
  /\ IF Ready THEN Return(s, current)
              ELSE Goto(s, [Idle EXCEPT !.at = "lock"])
  /\ UNCHANGED <<commandVars, away, current, fresh, held, bounds>>

\* c.rescan is free.
RescanUnlocked(s) == TRUE
RescanFree(s) == \A t \in Requests :
                   scan[t].at \notin {"list", "index", "verify", "collect"}

Lock(s) ==
  /\ scan[s].at = "lock"
  /\ RescanFree(s)
  /\ IF Ready THEN Return(s, current)
              ELSE Goto(s, [scan[s] EXCEPT !.at = "list"])
  /\ UNCHANGED <<commandVars, away, current, fresh, held, bounds>>

\* os.ReadDir: a build without a pointer may have a folder or not.
ListFolder(s) ==
  /\ scan[s].at = "list" /\ ~away
  /\ \E found \in SUBSET Builds :
       /\ {b \in Builds : pointer[b] # <<>>} \subseteq found
       /\ Goto(s, [scan[s] EXCEPT !.at = "index", !.todo = found,
                                  !.listed = flat, !.version = version])
  /\ UNCHANGED <<commandVars, away, current, fresh, held, bounds>>

ReadPointer(s, b) ==
  /\ scan[s].at = "index" /\ ~away
  /\ b \in scan[s].todo
  /\ Goto(s, [scan[s] EXCEPT
       !.todo = @ \ {b}, !.version[b] = version[b],
       !.at = IF pointer[b] = <<>> THEN "index" ELSE "verify",
       !.build = IF pointer[b] = <<>> THEN None ELSE b,
       !.stamp[b] = pointer[b]])
  /\ UNCHANGED <<commandVars, away, current, fresh, held, bounds>>

\* A torn release whose inventory is gone may still verify.
Verifies(s, states) ==
  LET b == scan[s].build
  IN  \A id \in RangeOf(scan[s].stamp[b]) : release[b][id] \in states

VerifyReleases(s) ==
  /\ scan[s].at = "verify" /\ ~away
  /\ Verifies(s, {"complete", "torn"})
  /\ Goto(s, [scan[s] EXCEPT !.at = "index", !.build = None])
  /\ UNCHANGED <<commandVars, away, current, fresh, held, bounds>>

IndexError(s) ==
  \/ away /\ scan[s].at \in {"list", "verify"}
  \/ away /\ scan[s].at = "index" /\ scan[s].todo # {}
  \/ scan[s].at = "verify" /\ ~Verifies(s, {"complete"})

\* Any error of index() keeps the snapshot and leaves checked alone.
IndexFailedEmptied(s) ==
  /\ IndexError(s)
  /\ Return(s, Empty)
  /\ current' = Empty
  /\ UNCHANGED <<commandVars, away, fresh, held, bounds>>

IndexFailed(s) ==
  /\ IndexError(s)
  /\ Return(s, IF current = None THEN Empty ELSE current)
  /\ UNCHANGED <<commandVars, away, current, fresh, held, bounds>>

\* Flat manifests count for builds without a pointer only.
FullStamp(s) ==
  [b \in Builds |->
     IF scan[s].stamp[b] # <<>> \/ b \notin scan[s].listed THEN scan[s].stamp[b]
     ELSE IF b \in flat THEN <<Flat>> ELSE <<None>>]

SameReleases(old, new) == \A b \in Builds : RangeOf(old[b]) = RangeOf(new[b])
SameStamp(old, new) == old = new

IndexDone(s) ==
  /\ scan[s].at = "index" /\ scan[s].todo = {} /\ ~away
  /\ IF current # None /\ SameStamp(current.stamp, FullStamp(s))
     THEN Return(s, current) /\ fresh' = TRUE
     ELSE /\ Goto(s, [scan[s] EXCEPT !.at = "collect", !.stamp = FullStamp(s)])
          /\ UNCHANGED fresh
  /\ UNCHANGED <<commandVars, away, current, held, bounds>>

\* collect leaves out, without an error, every manifest it cannot read.
Readable(b, c, torn) ==
  /\ ~away
  /\ c # None
  /\ IF c = Flat THEN b \in flat
     ELSE release[b][c] \in (IF torn THEN {"complete", "torn"} ELSE {"complete"})

OwnedCurrent(stamp, torn) ==
  [b \in Builds |->
     IF stamp[b] # <<>> /\ Readable(b, Head(stamp[b]), torn)
     THEN {Head(stamp[b])} ELSE {}]

Owned(stamp, torn) ==
  [b \in Builds |->
     IF stamp[b] # <<>> /\ Readable(b, Head(stamp[b]), torn)
     THEN {c \in RangeOf(stamp[b]) : Readable(b, c, torn)} ELSE {}]

collect(s, torn) ==
  LET stamp == scan[s].stamp IN
  [stamp |-> stamp,
   shown |-> [b \in Builds |->
                IF stamp[b] # <<>> /\ Readable(b, Head(stamp[b]), torn)
                THEN Head(stamp[b]) ELSE None],
   owned |-> Owned(stamp, torn),
   version |-> scan[s].version]

Collect(s) ==
  /\ scan[s].at = "collect"
  /\ \E torn \in BOOLEAN : /\ current' = collect(s, torn)
                           /\ Return(s, collect(s, torn))
  /\ fresh' = TRUE
  /\ UNCHANGED <<commandVars, away, held, bounds>>

\* The call answers: GetManifest hands a manifest to a launcher.
GetManifest(s, b) ==
  /\ scan[s].at = "answer"
  /\ LET m == scan[s].answer.shown[b]
     IN  held' = IF m = None THEN held ELSE [held EXCEPT ![b] = @ \cup {m}]
  /\ Goto(s, Idle)
  /\ UNCHANGED <<commandVars, away, current, fresh, bounds>>

-----------------------------------------------------------------------------
\* rescanInterval has passed.
TimePasses == /\ fresh /\ fresh' = FALSE
              /\ UNCHANGED <<commandVars, away, current, scan, held, bounds>>

GoAway == /\ ~away /\ aways < MaxAway
          /\ away' = TRUE /\ aways' = aways + 1
          /\ UNCHANGED <<commandVars, current, fresh, scan, held, crashes>>

ComeBack == /\ away /\ away' = FALSE
            /\ UNCHANGED <<commandVars, current, fresh, scan, held, bounds>>

Crash ==
  /\ crashes < MaxCrashes /\ crashes' = crashes + 1
  /\ writer' = [b \in Builds |-> "none"]
  /\ current' = None /\ fresh' = FALSE
  /\ scan' = [s \in Requests |-> Idle]
  /\ UNCHANGED <<diskVars, away, held, aways>>

-----------------------------------------------------------------------------
CommandNext(b) == \/ \E id \in Ids : \/ Publish(b, id) \/ Rollback(b, id)
                                     \/ RemoveRelease(b, id)
                  \/ Refresh(b) \/ DeleteStart(b) \/ RemovePointer(b)
                  \/ FlatRemoved(b) \/ Fail(b)

ScanNext(s) == \/ Enter(s) \/ Lock(s) \/ ListFolder(s) \/ VerifyReleases(s)
               \/ \E b \in Builds : ReadPointer(s, b)
               \/ IndexFailed(s) \/ IndexDone(s) \/ Collect(s)
               \/ \E b \in Builds : GetManifest(s, b)

Next == \/ \E b \in Builds : CommandNext(b)
        \/ \E s \in Requests : ScanNext(s)
        \/ TimePasses \/ GoAway \/ ComeBack \/ Crash

Spec == Init /\ [][Next]_vars

(***************************************************************************)
(* Launchers keep asking, a call runs to its end, time passes, and the     *)
(* folder comes back.  Nothing is assumed of the commands.                 *)
(***************************************************************************)
FairSpec == /\ Spec
            /\ WF_vars(TimePasses) /\ WF_vars(ComeBack)
            /\ \A s \in Requests : WF_vars(ScanNext(s))

-----------------------------------------------------------------------------

(***************************************************************************)
(* A launcher may finish the download it began: as long as a publication   *)
(* it fetched is in the history, the snapshot still names the build as an  *)
(* owner of that publication's objects (allowedObject), however many       *)
(* publishes and rollbacks came in between, the folder being reachable.    *)
(***************************************************************************)
HolderCanDownload ==
  \A b \in Builds : current # None /\ Whole(b) /\ aways = 0 =>
    \A id \in held[b] \cap RangeOf(pointer[b]) : id \in current.owned[b]

(***************************************************************************)
(* Players never go back in time: of two scans the later one wins, so that *)
(* a new snapshot is never older for any build than the one it replaces.   *)
(***************************************************************************)
NeverOlder ==
  [][current # None /\ current' # None =>
       \A b \in Builds : current'.version[b] >= current.version[b]]_vars

\* A build served whose publication is whole on disk is still served.
Kept(b) == current.shown[b] \in RangeOf(pointer[b]) /\ Whole(b)
             => current'.shown[b] # None

(***************************************************************************)
(* A build that is served stays served while its publication is whole on   *)
(* disk, whatever happens to other builds and whichever scans fail on      *)
(* them, as long as the folder is reachable.                               *)
(***************************************************************************)
KeptWhileReachable ==
  [][current # None /\ current' # None /\ aways = 0
       => \A b \in Builds : Kept(b)]_vars

(***************************************************************************)
(* The same though the folder is unreachable for a while: index() then     *)
(* fails and snapshot() goes on with what it has.                          *)
(***************************************************************************)
KeptUnlessDeleted ==
  [][current # None /\ current' # None => \A b \in Builds : Kept(b)]_vars

(***************************************************************************)
(* Players get to see the last publication of every build, also of one     *)
(* whose command was cut short before it called Refresh, once no           *)
(* half-deleted build is in the way and if the folder was never            *)
(* unreachable (KeptUnlessDeleted says what an outage may do).             *)
(***************************************************************************)
Converges ==
  <>[](aways = 0 /\ \A b \in Builds : Whole(b))
    => <>[](current # None /\ \A b \in Builds : current.shown[b] = Published(b))

=============================================================================
