---------------------------- MODULE ReleaseStore ----------------------------
(***************************************************************************)
(* The publications of a Laminara server on disk and the commands that     *)
(* change them: install, publish, build-apply (after PlanBuild),           *)
(* build-rollback and delete of server/internal/buildsvc, over the files   *)
(* server/internal/catalog keeps for a build:                              *)
(*                                                                         *)
(*   <build>/.laminara/current.json        the pointer (ReleasePointer)    *)
(*   <build>/.laminara/releases/<id>/      one directory per publication   *)
(*   <build>/.laminara/workspaces/<id>/    trees moved in by build-apply   *)
(*   <build>/                              the tree edited by hand         *)
(*   <build>[.<platform>].manifest         publication of the old format   *)
(*                                                                         *)
(* Commands run on Workers (the job manager and the console start them),   *)
(* each as the sequence of file operations the code performs; the daemon   *)
(* may stop between any two of them, and any of them may fail.  A file     *)
(* tree is one of Contents, and so is the set of signed manifests built    *)
(* from it.  Platforms are not told apart here.                            *)
(***************************************************************************)
EXTENDS Naturals, Sequences

CONSTANTS Builds,      \* names of builds
          Ids,         \* identifiers rand.Text() returns for releases
          Workspaces,  \* identifiers rand.Text() returns for workspaces
          Contents,    \* file trees, and the manifests built from them
          Inputs,      \* digests of build descriptions given to build-apply
          Workers,     \* goroutines that run commands
          None         \* the absent value

ASSUME NoneIsNoValue ==
  None \notin Builds \cup Ids \cup Workspaces \cup Contents \cup Inputs

VARIABLES
  pointer,   \* build -> what current.json holds, NoPointer without the file
  releases,  \* build -> id -> the release directory
  legacy,    \* build -> manifests of the old flat format
  work,      \* build -> tree -> its contents; tree None is the build's root
  used,      \* build -> identifiers rand.Text() has already returned
  torn,      \* builds of which delete removed a release still pointed to
  planned,   \* build -> the plan a client holds: input and revision
  busy,      \* s.busy: builds some command works with
  cmd        \* worker -> the command it runs

diskVars == <<pointer, releases, legacy, work, used, torn>>
vars == <<pointer, releases, legacy, work, used, torn, planned, busy, cmd>>

Trees == Workspaces \cup {None}
OrNone(S) == S \cup {None}

(***************************************************************************)
(* Metadata of a publication: the workspace it was built in and, after     *)
(* build-apply, the digests of the description and of the tree.            *)
(***************************************************************************)
Meta == [workspace : Trees, input : OrNone(Inputs), digest : OrNone(Contents)]
NoMeta == [workspace |-> None, input |-> None, digest |-> None]

Pointer == [current : OrNone(Ids), retained : Seq(Ids), meta : Meta]
NoPointer == [current |-> None, retained |-> <<>>, meta |-> NoMeta]

(***************************************************************************)
(* A release directory is absent, partial (some of its files are not       *)
(* written yet), complete (release.json included) or torn (delete removed  *)
(* some of its files).                                                     *)
(***************************************************************************)
ReleaseState == {"absent", "partial", "complete", "torn"}
Release == [state : ReleaseState, manifest : OrNone(Contents), meta : Meta]
NoRelease == [state |-> "absent", manifest |-> None, meta |-> NoMeta]

Revisions == OrNone(Ids) \X OrNone(Contents)
NoRevision == <<None, None>>

PC == {"idle", "build", "stage", "check", "move", "release", "legacy",
       "mkdir", "write", "commit", "sync", "refresh", "remove", "flat"}
Command == [pc : PC, build : OrNone(Builds), id : OrNone(Ids),
            retained : Seq(Ids), manifest : OrNone(Contents), meta : Meta,
            applies : BOOLEAN, revision : Revisions]
Idle == [pc |-> "idle", build |-> None, id |-> None, retained |-> <<>>,
         manifest |-> None, meta |-> NoMeta, applies |-> FALSE,
         revision |-> NoRevision]

-----------------------------------------------------------------------------
(* Reading the disk. *)

Published(b) == pointer[b].current # None
Retained(b) == {pointer[b].retained[i] : i \in DOMAIN pointer[b].retained}
Referenced(b) ==
  IF Published(b) THEN {pointer[b].current} \cup Retained(b) ELSE {}

\* The directory the commands work in: the workspace of the pointer, the
\* build's root without one.
profileRoot(b) == pointer[b].meta.workspace
Tree(b) == work[b][profileRoot(b)]

\* What a plan and an apply compare: the current release and the tree.
buildRevision(b) == <<pointer[b].current, Tree(b)>>

\* PlanBuild reports that the description is already applied.
NoOp(b, i) == /\ Published(b)
              /\ pointer[b].meta.input = i
              /\ pointer[b].meta.digest = Tree(b)

DirectoryExists(b) == \/ Published(b)
                      \/ \E id \in Ids : releases[b][id].state # "absent"
                      \/ \E d \in Trees : work[b][d] # None

\* s without id, which occurs in it at most once.
Without(s, id) ==
  LET k == CHOOSE k \in DOMAIN s : s[k] = id
  IN  [j \in 1 .. Len(s) - 1 |-> IF j < k THEN s[j] ELSE s[j + 1]]

-----------------------------------------------------------------------------
Init ==
  /\ pointer = [b \in Builds |-> NoPointer]
  /\ releases = [b \in Builds |-> [id \in Ids |-> NoRelease]]
  /\ legacy \in [Builds -> OrNone(Contents)]
  /\ work = [b \in Builds |-> [d \in Trees |->
                 IF d = None THEN legacy[b] ELSE None]]
  /\ used = [b \in Builds |-> {}]
  /\ torn = {}
  /\ planned = [b \in Builds |-> [input |-> None, revision |-> NoRevision]]
  /\ busy = {}
  /\ cmd = [w \in Workers |-> Idle]

(* alone: one command at a time works with a build. *)
AloneDropped(b) == TRUE
Alone(b) == b \notin busy

Begin(w, b, c) ==
  /\ cmd[w].pc = "idle"
  /\ Alone(b)
  /\ busy' = busy \cup {b}
  /\ cmd' = [cmd EXCEPT ![w] = c]

\* The deferred unlock of every command, whatever it returns.
Finish(w) ==
  /\ busy' = busy \ {cmd[w].build}
  /\ cmd' = [cmd EXCEPT ![w] = Idle]

Goto(w, c) == /\ cmd' = [cmd EXCEPT ![w] = c]
              /\ UNCHANGED busy

-----------------------------------------------------------------------------
(***************************************************************************)
(* The operator's files.  Install writes the tree of profileRoot under the *)
(* lock; between two of its files the tree is again a tree, so one action  *)
(* stands for each stage an interrupted install leaves.  EditFiles takes   *)
(* no lock: the administrator copies mods into the folder at any time, and *)
(* a publish that is reading the folder then builds its manifest from a    *)
(* mixture.                                                                *)
(***************************************************************************)
Install(b, c) ==
  /\ Alone(b)
  /\ work' = [work EXCEPT ![b][profileRoot(b)] = c]
  /\ UNCHANGED <<pointer, releases, legacy, used, torn, planned, busy, cmd>>

Reading(w, b) == cmd[w].pc = "build" /\ cmd[w].build = b

EditFiles(b, d, c) ==
  /\ work[b][d] # None
  /\ c # work[b][d]
  /\ work' = [work EXCEPT ![b][d] = c]
  /\ \E mixed \in Contents :
       cmd' = [w \in Workers |->
                 IF Reading(w, b) THEN [cmd[w] EXCEPT !.manifest = mixed]
                                  ELSE cmd[w]]
  /\ UNCHANGED <<pointer, releases, legacy, used, torn, planned, busy>>

(* PlanBuild: the client keeps the revision the server answered. *)
PlanBuild(b, i) ==
  /\ Alone(b)
  /\ ~NoOp(b, i)
  /\ planned' = [planned EXCEPT ![b] = [input |-> i,
                                        revision |-> buildRevision(b)]]
  /\ UNCHANGED <<pointer, releases, legacy, work, used, torn, busy, cmd>>

-----------------------------------------------------------------------------
(* publish: build and sign the manifests, then write a release. *)

PublishStart(w, b) ==
  /\ Tree(b) # None
  /\ Begin(w, b, [Idle EXCEPT !.pc = "build", !.build = b,
                              !.manifest = Tree(b)])
  /\ UNCHANGED <<diskVars, planned>>

\* The manifests are signed; publishRelease keeps the workspace of the
\* previous pointer and forgets its digests.
PublishBuilt(w) ==
  /\ cmd[w].pc = "build"
  /\ Goto(w, [cmd[w] EXCEPT
       !.pc = "release",
       !.meta = [NoMeta EXCEPT !.workspace = profileRoot(cmd[w].build)]])
  /\ UNCHANGED <<diskVars, planned>>

(***************************************************************************)
(* build-apply: refuse a plan that is out of date, build the described     *)
(* tree in a staging directory, refuse again if the build changed          *)
(* meanwhile, move the tree in as a new workspace, write a release.        *)
(***************************************************************************)
ApplyStartUnchecked(w, b) ==
  /\ planned[b].input # None
  /\ ~NoOp(b, planned[b].input)
  /\ Begin(w, b, [Idle EXCEPT
       !.pc = "stage", !.build = b, !.applies = TRUE,
       !.meta = [NoMeta EXCEPT !.input = planned[b].input],
       !.revision = buildRevision(b)])
  /\ UNCHANGED <<diskVars, planned>>

ApplyStart(w, b) ==
  /\ planned[b].input # None
  /\ ~NoOp(b, planned[b].input)
  /\ buildRevision(b) = planned[b].revision
  /\ Begin(w, b, [Idle EXCEPT
       !.pc = "stage", !.build = b, !.applies = TRUE,
       !.meta = [NoMeta EXCEPT !.input = planned[b].input],
       !.revision = buildRevision(b)])
  /\ UNCHANGED <<diskVars, planned>>

\* What upstream serves decides the tree that the description yields.
ApplyStage(w, c) ==
  /\ cmd[w].pc = "stage"
  /\ Goto(w, [cmd[w] EXCEPT !.pc = "check", !.manifest = c,
                            !.meta.digest = c])
  /\ UNCHANGED <<diskVars, planned>>

ApplyCheck(w) ==
  /\ cmd[w].pc = "check"
  /\ buildRevision(cmd[w].build) = cmd[w].revision
  /\ Goto(w, [cmd[w] EXCEPT !.pc = "move"])
  /\ UNCHANGED <<diskVars, planned>>

ApplyMove(w, d) ==
  LET b == cmd[w].build IN
  /\ cmd[w].pc = "move"
  /\ d \notin used[b]
  /\ used' = [used EXCEPT ![b] = @ \cup {d}]
  /\ work' = [work EXCEPT ![b][d] = cmd[w].manifest]
  /\ Goto(w, [cmd[w] EXCEPT !.pc = "release", !.meta.workspace = d])
  /\ UNCHANGED <<pointer, releases, legacy, torn, planned>>

-----------------------------------------------------------------------------
(***************************************************************************)
(* publishReleaseWithMetadata, the common tail of publish and build-apply. *)
(* The history of the new pointer is read first; a publication of the old  *)
(* format becomes a release of its own before the new one is written.      *)
(***************************************************************************)
ReadPreviousUnconditional(w) ==
  LET b == cmd[w].build IN
  /\ cmd[w].pc = "release"
  /\ Published(b) \/ legacy[b] = None
  /\ Goto(w, [cmd[w] EXCEPT
       !.pc = "mkdir",
       !.retained = <<pointer[b].current>> \o pointer[b].retained])
  /\ UNCHANGED <<diskVars, planned>>

ReadPrevious(w) ==
  LET b == cmd[w].build IN
  /\ cmd[w].pc = "release"
  /\ Published(b) \/ legacy[b] = None
  /\ Goto(w, [cmd[w] EXCEPT
       !.pc = "mkdir",
       !.retained = IF Published(b)
                    THEN <<pointer[b].current>> \o pointer[b].retained
                    ELSE <<>>])
  /\ UNCHANGED <<diskVars, planned>>

MakeDirectoryReusing(b, id) ==
  /\ used' = [used EXCEPT ![b] = @ \cup {id}]
  /\ releases' = [releases EXCEPT ![b][id] = [NoRelease EXCEPT
                                                !.state = "partial"]]

MakeDirectory(b, id) ==
  /\ id \notin used[b]
  /\ used' = [used EXCEPT ![b] = @ \cup {id}]
  /\ releases' = [releases EXCEPT ![b][id] = [NoRelease EXCEPT
                                                !.state = "partial"]]

LegacyDirectory(w, id) ==
  LET b == cmd[w].build IN
  /\ cmd[w].pc = "release"
  /\ ~Published(b) /\ legacy[b] # None
  /\ MakeDirectory(b, id)
  /\ Goto(w, [cmd[w] EXCEPT !.pc = "legacy", !.id = id])
  /\ UNCHANGED <<pointer, legacy, work, torn, planned>>

LegacyWrittenForgotten(w) ==
  LET b == cmd[w].build IN
  /\ cmd[w].pc = "legacy"
  /\ releases' = [releases EXCEPT ![b][cmd[w].id] =
                    [state |-> "complete", manifest |-> legacy[b],
                     meta |-> NoMeta]]
  /\ Goto(w, [cmd[w] EXCEPT !.pc = "mkdir", !.id = None])
  /\ UNCHANGED <<pointer, legacy, work, used, torn, planned>>

LegacyWritten(w) ==
  LET b == cmd[w].build IN
  /\ cmd[w].pc = "legacy"
  /\ releases' = [releases EXCEPT ![b][cmd[w].id] =
                    [state |-> "complete", manifest |-> legacy[b],
                     meta |-> NoMeta]]
  /\ Goto(w, [cmd[w] EXCEPT !.pc = "mkdir", !.id = None,
                            !.retained = <<cmd[w].id>>])
  /\ UNCHANGED <<pointer, legacy, work, used, torn, planned>>

ReleaseDirectory(w, id) ==
  LET b == cmd[w].build IN
  /\ cmd[w].pc = "mkdir"
  /\ MakeDirectory(b, id)
  /\ Goto(w, [cmd[w] EXCEPT !.pc = "write", !.id = id])
  /\ UNCHANGED <<pointer, legacy, work, torn, planned>>

\* Manifests, signatures, inventory.json and release.json are all there.
ReleaseWritten(w) ==
  LET b == cmd[w].build IN
  /\ cmd[w].pc = "write"
  /\ releases' = [releases EXCEPT ![b][cmd[w].id] =
                    [state |-> "complete", manifest |-> cmd[w].manifest,
                     meta |-> cmd[w].meta]]
  /\ Goto(w, [cmd[w] EXCEPT !.pc = "commit"])
  /\ UNCHANGED <<pointer, legacy, work, used, torn, planned>>

\* current.json is replaced by one rename.
CommitBeforeWritten(w) ==
  LET b == cmd[w].build IN
  /\ cmd[w].pc \in {"write", "commit"}
  /\ pointer' = [pointer EXCEPT ![b] = [current |-> cmd[w].id,
                                        retained |-> cmd[w].retained,
                                        meta |-> cmd[w].meta]]
  /\ Goto(w, [cmd[w] EXCEPT !.pc = "sync"])
  /\ UNCHANGED <<releases, legacy, work, used, torn, planned>>

Commit(w) ==
  LET b == cmd[w].build IN
  /\ cmd[w].pc = "commit"
  /\ pointer' = [pointer EXCEPT ![b] = [current |-> cmd[w].id,
                                        retained |-> cmd[w].retained,
                                        meta |-> cmd[w].meta]]
  /\ Goto(w, [cmd[w] EXCEPT !.pc = "sync"])
  /\ UNCHANGED <<releases, legacy, work, used, torn, planned>>

\* syncDirectory after the rename.  Its failure is the command's failure,
\* and the command then returns without refreshing the catalog.
SyncDone(w) == /\ cmd[w].pc = "sync"
               /\ Goto(w, [cmd[w] EXCEPT !.pc = "refresh"])
               /\ UNCHANGED <<diskVars, planned>>

SyncFailed(w) == /\ cmd[w].pc = "sync"
                 /\ Finish(w)
                 /\ UNCHANGED <<diskVars, planned>>

-----------------------------------------------------------------------------
(***************************************************************************)
(* build-rollback.  The release must be in the history and verify; a       *)
(* directory delete left torn may still verify, when its inventory is gone *)
(* (VerifyRelease accepts a release without one).                          *)
(***************************************************************************)
RollbackKeepingMeta(w, b, id) ==
  /\ Published(b)
  /\ id \in Retained(b)
  /\ releases[b][id].state \in {"complete", "torn"}
  /\ Begin(w, b, [Idle EXCEPT !.pc = "refresh", !.build = b])
  /\ pointer' = [pointer EXCEPT ![b] =
       [current |-> id,
        retained |-> <<@.current>> \o Without(@.retained, id),
        meta |-> @.meta]]
  /\ UNCHANGED <<releases, legacy, work, used, torn, planned>>

RollbackNotForgetting(w, b, id) ==
  /\ Published(b)
  /\ id \in Retained(b)
  /\ releases[b][id].state \in {"complete", "torn"}
  /\ Begin(w, b, [Idle EXCEPT !.pc = "refresh", !.build = b])
  /\ pointer' = [pointer EXCEPT ![b] =
       [current |-> id,
        retained |-> <<@.current>> \o @.retained,
        meta |-> releases[b][id].meta]]
  /\ UNCHANGED <<releases, legacy, work, used, torn, planned>>

Rollback(w, b, id) ==
  /\ Published(b)
  /\ id \in Retained(b)
  /\ releases[b][id].state \in {"complete", "torn"}
  /\ Begin(w, b, [Idle EXCEPT !.pc = "refresh", !.build = b])
  /\ pointer' = [pointer EXCEPT ![b] =
       [current |-> id,
        retained |-> <<@.current>> \o Without(@.retained, id),
        meta |-> releases[b][id].meta]]
  /\ UNCHANGED <<releases, legacy, work, used, torn, planned>>

-----------------------------------------------------------------------------
(***************************************************************************)
(* delete: os.RemoveAll of the build's directory, entry by entry and in    *)
(* the order the directory lists them, then the flat manifests.            *)
(***************************************************************************)
DeleteStart(w, b) ==
  /\ DirectoryExists(b)
  /\ Begin(w, b, [Idle EXCEPT !.pc = "remove", !.build = b])
  /\ UNCHANGED <<diskVars, planned>>

RemovePointer(w) ==
  LET b == cmd[w].build IN
  /\ cmd[w].pc = "remove"
  /\ Published(b)
  /\ pointer' = [pointer EXCEPT ![b] = NoPointer]
  /\ torn' = torn \ {b}
  /\ UNCHANGED <<releases, legacy, work, used, planned, busy, cmd>>

RemoveRelease(w, id) ==
  LET b == cmd[w].build IN
  /\ cmd[w].pc = "remove"
  /\ releases[b][id].state # "absent"
  /\ \/ /\ releases[b][id].state # "torn"
        /\ releases' = [releases EXCEPT ![b][id].state = "torn"]
     \/ releases' = [releases EXCEPT ![b][id] = NoRelease]
  /\ torn' = IF Published(b) THEN torn \cup {b} ELSE torn
  /\ UNCHANGED <<pointer, legacy, work, used, planned, busy, cmd>>

RemoveTree(w, d) ==
  LET b == cmd[w].build IN
  /\ cmd[w].pc = "remove"
  /\ work[b][d] # None
  /\ work' = [work EXCEPT ![b][d] = None]
  /\ UNCHANGED <<pointer, releases, legacy, used, torn, planned, busy, cmd>>

DirectoryRemoved(w) ==
  /\ cmd[w].pc = "remove"
  /\ ~DirectoryExists(cmd[w].build)
  /\ Goto(w, [cmd[w] EXCEPT !.pc = "flat"])
  /\ UNCHANGED <<diskVars, planned>>

\* A flat manifest that cannot be removed is reported, and stays.
FlatRemoved(w) ==
  LET b == cmd[w].build IN
  /\ cmd[w].pc = "flat"
  /\ \/ legacy' = [legacy EXCEPT ![b] = None]
     \/ legacy[b] # None /\ UNCHANGED legacy
  /\ Goto(w, [cmd[w] EXCEPT !.pc = "refresh"])
  /\ UNCHANGED <<pointer, releases, work, used, torn, planned>>

-----------------------------------------------------------------------------
\* The last call of a successful command: catalog.Refresh, then the unlock.
Refresh(w) == /\ cmd[w].pc = "refresh"
              /\ Finish(w)
              /\ UNCHANGED <<diskVars, planned>>

\* An error or a cancelled context before the commit; what is on disk stays.
Fail(w) ==
  /\ cmd[w].pc \in {"build", "stage", "check", "move", "release", "legacy",
                    "mkdir", "write", "commit", "remove"}
  /\ Finish(w)
  /\ UNCHANGED <<diskVars, planned>>

\* The daemon stops and starts again: commands and locks are in memory.
Crash == /\ \E w \in Workers : cmd[w].pc # "idle"
         /\ busy' = {}
         /\ cmd' = [w \in Workers |-> Idle]
         /\ UNCHANGED <<diskVars, planned>>

-----------------------------------------------------------------------------
FilesNext == \E b \in Builds, c \in Contents :
               Install(b, c) \/ \E d \in Trees : EditFiles(b, d, c)

PlanNext == \E b \in Builds, i \in Inputs : PlanBuild(b, i)

PublishNext(w) ==
  \/ \E b \in Builds : PublishStart(w, b)
  \/ PublishBuilt(w)

ApplyNext(w) ==
  \/ \E b \in Builds : ApplyStart(w, b)
  \/ \E c \in Contents : ApplyStage(w, c)
  \/ ApplyCheck(w)
  \/ \E d \in Workspaces : ApplyMove(w, d)

ReleaseNext(w) ==
  \/ ReadPrevious(w)
  \/ \E id \in Ids : LegacyDirectory(w, id)
  \/ LegacyWritten(w)
  \/ \E id \in Ids : ReleaseDirectory(w, id)
  \/ ReleaseWritten(w)
  \/ Commit(w)
  \/ SyncDone(w)
  \/ SyncFailed(w)

RollbackNext(w) == \E b \in Builds, id \in Ids : Rollback(w, b, id)

DeleteNext(w) ==
  \/ \E b \in Builds : DeleteStart(w, b)
  \/ RemovePointer(w)
  \/ \E id \in Ids : RemoveRelease(w, id)
  \/ \E d \in Trees : RemoveTree(w, d)
  \/ DirectoryRemoved(w)
  \/ FlatRemoved(w)

CommandNext(w) == \/ PublishNext(w) \/ ApplyNext(w) \/ ReleaseNext(w)
                  \/ RollbackNext(w) \/ DeleteNext(w) \/ Fail(w)

Next == \/ FilesNext
        \/ PlanNext
        \/ \E w \in Workers : CommandNext(w) \/ Refresh(w)
        \/ Crash

Spec == Init /\ [][Next]_vars

-----------------------------------------------------------------------------
(***************************************************************************)
(* The files, the locks and the records of commands have their types; a    *)
(* history holds identifiers only, never the absent value.                 *)
(***************************************************************************)
TypeOK ==
  /\ pointer \in [Builds -> Pointer]
  /\ releases \in [Builds -> [Ids -> Release]]
  /\ legacy \in [Builds -> OrNone(Contents)]
  /\ work \in [Builds -> [Trees -> OrNone(Contents)]]
  /\ used \in [Builds -> SUBSET (Ids \cup Workspaces)]
  /\ torn \in SUBSET Builds
  /\ planned \in [Builds -> [input : OrNone(Inputs), revision : Revisions]]
  /\ busy \in SUBSET Builds
  /\ cmd \in [Workers -> Command]

(***************************************************************************)
(* ReadRelease accepts what the commands write: the current release is not *)
(* in its own history and no release is there twice.  A pointer that       *)
(* breaks this makes every later command of the build fail, and the        *)
(* catalog's scan of all builds with it.                                   *)
(***************************************************************************)
HistoryReadable ==
  \A b \in Builds :
    /\ \A i \in DOMAIN pointer[b].retained :
         pointer[b].retained[i] # pointer[b].current
    /\ \A i, j \in DOMAIN pointer[b].retained :
         pointer[b].retained[i] = pointer[b].retained[j] => i = j

(***************************************************************************)
(* The pointer files implement ReleaseHistory: between the crashes, errors *)
(* and concurrent commands of many file operations, the current release    *)
(* and the history change only by a whole publish, rollback or delete, and *)
(* no earlier publication is lost on the way (administrators roll back to  *)
(* them by id).                                                            *)
(***************************************************************************)
History == INSTANCE ReleaseHistory WITH
             current <- [b \in Builds |-> pointer[b].current],
             history <- [b \in Builds |-> Retained(b)]

ImplementsHistory == History!Spec

(***************************************************************************)
(* Every release the pointer names, the current one and the whole history, *)
(* is completely written, whatever crash or error interrupted which        *)
(* command, unless delete has started to remove the build.                 *)
(***************************************************************************)
ReferencedComplete ==
  \A b \in Builds : b \notin torn =>
    \A id \in Referenced(b) : releases[b][id].state = "complete"

(***************************************************************************)
(* A published release is never rewritten: while a release stays in the    *)
(* history of its build, its manifests and metadata are those it was       *)
(* published with, so a rollback restores exactly what was published.      *)
(***************************************************************************)
PublishedImmutable ==
  [][\A b \in Builds : \A id \in Referenced(b) :
       \/ id \notin Referenced(b)'
       \/ b \in torn'
       \/ releases'[b][id] = releases[b][id]]_vars

(***************************************************************************)
(* The publication of the old format that the flat manifests hold stays in *)
(* the history once the build is published in the new format: ci.mdx says  *)
(* the old publication remains available for rollback.                     *)
(***************************************************************************)
LegacyKept ==
  \A b \in Builds :
    Published(b) /\ legacy[b] # None /\ b \notin torn =>
      \E id \in Referenced(b) : releases[b][id].manifest = legacy[b]

(***************************************************************************)
(* When PlanBuild answers noOp, what players are served is what the tree   *)
(* holds and was built from that very description: also after publishes,   *)
(* rollbacks, edits and crashes in any order.                              *)
(***************************************************************************)
NoOpSound ==
  \A b \in Builds, i \in Inputs :
    NoOp(b, i) /\ b \notin torn =>
      /\ releases[b][pointer[b].current].manifest = Tree(b)
      /\ releases[b][pointer[b].current].meta.input = i

(***************************************************************************)
(* build-apply replaces only the publication its plan was made for: no     *)
(* publish, apply, rollback or delete by someone else comes between the    *)
(* plan and the commit.                                                    *)
(***************************************************************************)
ApplyReplacesPlanned ==
  \A w \in Workers :
    cmd[w].applies /\ cmd[w].pc \in {"move", "release", "legacy", "mkdir",
                                     "write", "commit"}
      => pointer[cmd[w].build].current = planned[cmd[w].build].revision[1]

-----------------------------------------------------------------------------
(***************************************************************************)
(* The inductive invariant.  Locked: a command holds its build's lock, and *)
(* no two commands work with one build.  BuildOK: what the files of a      *)
(* build satisfy between any two file operations.  WorkerOK: what a        *)
(* command in the middle of a release relies on, the history it read above *)
(* all, is still true of the files.                                        *)
(***************************************************************************)
Active(w) == cmd[w].pc # "idle"

Locked ==
  /\ \A w \in Workers : Active(w) => cmd[w].build \in busy
  /\ \A v, w \in Workers : Active(v) /\ Active(w) /\ v # w
                             => cmd[v].build # cmd[w].build

\* A description is recorded only with the digest of the published tree.
Truthful(meta, manifest) ==
  meta.input # None => meta.digest # None /\ meta.digest = manifest

PointerOK(b) ==
  /\ ~Published(b) => pointer[b] = NoPointer
  /\ Published(b) => pointer[b].current \in used[b]
  /\ \A i \in DOMAIN pointer[b].retained :
       /\ pointer[b].retained[i] \in used[b]
       /\ pointer[b].retained[i] # pointer[b].current
  /\ \A i, j \in DOMAIN pointer[b].retained :
       pointer[b].retained[i] = pointer[b].retained[j] => i = j

ReleasesOK(b) ==
  /\ \A id \in Ids : Truthful(releases[b][id].meta, releases[b][id].manifest)
  /\ b \notin torn => \A id \in Referenced(b) : releases[b][id].state = "complete"
  /\ b \notin torn /\ Published(b) =>
       pointer[b].meta = releases[b][pointer[b].current].meta
  /\ b \notin torn /\ Published(b) /\ legacy[b] # None =>
       \E id \in Referenced(b) : releases[b][id].manifest = legacy[b]

\* The history a command read is still the one on disk.
HistoryRead(w) ==
  LET b == cmd[w].build IN
  IF Published(b)
  THEN cmd[w].retained = <<pointer[b].current>> \o pointer[b].retained
  ELSE \/ cmd[w].retained = <<>> /\ legacy[b] = None
       \/ \E l \in used[b] \cap Ids :
            /\ cmd[w].retained = <<l>>
            /\ releases[b][l].state = "complete"
            /\ releases[b][l].manifest = legacy[b]

WorkerOK(w) ==
  LET b == cmd[w].build IN
  /\ cmd[w].pc \in {"check", "move", "release", "legacy", "mkdir", "write",
                    "commit"}
       => Truthful(cmd[w].meta, cmd[w].manifest)
  /\ cmd[w].pc \in {"mkdir", "write", "commit"} => HistoryRead(w)
  /\ cmd[w].pc \in {"legacy", "write", "commit"} =>
       cmd[w].id \in used[b] \cap Ids /\ cmd[w].id \notin Referenced(b)
  /\ cmd[w].pc = "legacy" => ~Published(b)
  /\ cmd[w].pc = "build" => cmd[w].applies = FALSE /\ cmd[w].meta.input = None
  /\ cmd[w].pc \in {"write", "commit"} =>
       \A i \in DOMAIN cmd[w].retained : cmd[w].retained[i] # cmd[w].id
  /\ cmd[w].applies /\ cmd[w].pc \in {"stage", "check", "move", "release",
                                        "legacy", "mkdir", "write", "commit"}
       => /\ cmd[w].revision = planned[b].revision
          /\ pointer[b].current = cmd[w].revision[1]
  /\ cmd[w].pc = "commit" =>
       releases[b][cmd[w].id] = [state |-> "complete",
                                 manifest |-> cmd[w].manifest,
                                 meta |-> cmd[w].meta]

Inductive == /\ TypeOK
             /\ Locked
             /\ \A b \in Builds : PointerOK(b) /\ ReleasesOK(b)
             /\ \A w \in Workers : Active(w) => WorkerOK(w)

=============================================================================
