------------------------- MODULE ReleaseStoreProofs -------------------------
(***************************************************************************)
(* Proofs about ReleaseStore, for any builds, identifiers, trees, inputs   *)
(* and workers.                                                            *)
(***************************************************************************)
EXTENDS ReleaseStore, TLAPS

(* The reset values have their types. *)
LEMMA Constants ==
  /\ NoMeta \in Meta
  /\ NoPointer \in Pointer
  /\ NoRelease \in Release
  /\ Idle \in Command
BY DEF NoMeta, Meta, NoPointer, Pointer, NoRelease, Release, ReleaseState,
       Idle, Command, PC, Revisions, NoRevision, OrNone, Trees

(* Prepending an identifier to a history. *)
LEMMA Prepend ==
  ASSUME NEW S, NEW x \in S, NEW s \in Seq(S)
  PROVE  /\ <<x>> \o s \in Seq(S)
         /\ DOMAIN (<<x>> \o s) = 1 .. Len(s) + 1
         /\ (<<x>> \o s)[1] = x
         /\ \A i \in DOMAIN s : (<<x>> \o s)[i + 1] = s[i]
         /\ \A i \in DOMAIN (<<x>> \o s) :
              \/ i = 1
              \/ i - 1 \in DOMAIN s /\ (<<x>> \o s)[i] = s[i - 1]
OBVIOUS

(* What Without returns: the other elements of a duplicate-free sequence. *)
LEMMA WithoutFacts ==
  ASSUME NEW S, NEW s \in Seq(S), NEW id, \E k \in DOMAIN s : s[k] = id,
         \A i, j \in DOMAIN s : s[i] = s[j] => i = j
  PROVE  /\ Without(s, id) \in Seq(S)
         /\ \A j \in DOMAIN Without(s, id) :
              \E i \in DOMAIN s : s[i] = Without(s, id)[j] /\ s[i] # id
         /\ \A i \in DOMAIN s : s[i] # id =>
              \E j \in DOMAIN Without(s, id) : Without(s, id)[j] = s[i]
         /\ \A i, j \in DOMAIN Without(s, id) :
              Without(s, id)[i] = Without(s, id)[j] => i = j
<1> DEFINE k == CHOOSE k \in DOMAIN s : s[k] = id
           t == [j \in 1 .. Len(s) - 1 |-> IF j < k THEN s[j] ELSE s[j + 1]]
<1>1. k \in DOMAIN s /\ s[k] = id
  OBVIOUS
<1>2. Without(s, id) = t
  BY DEF Without
<1>3. DOMAIN s = 1 .. Len(s) /\ Len(s) \in Nat
  OBVIOUS
<1> HIDE DEF k
<1>4. t \in Seq(S) /\ DOMAIN t = 1 .. Len(s) - 1
  BY <1>1, <1>3
<1>5. \A j \in DOMAIN t : \E i \in DOMAIN s : s[i] = t[j] /\ s[i] # id
  <2> SUFFICES ASSUME NEW j \in DOMAIN t
               PROVE  \E i \in DOMAIN s : s[i] = t[j] /\ s[i] # id
    OBVIOUS
  <2>1. CASE j < k
    BY <1>1, <1>3, <1>4, <2>1
  <2>2. CASE ~(j < k)
    <3>1. j + 1 \in DOMAIN s /\ t[j] = s[j + 1] /\ j + 1 # k
      BY <1>1, <1>3, <1>4, <2>2
    <3> QED BY <1>1, <3>1
  <2> QED BY <2>1, <2>2
<1>6. ASSUME NEW i \in DOMAIN s, s[i] # id
      PROVE  \E j \in DOMAIN t : t[j] = s[i]
  <2>1. CASE i < k
    <3>1. i \in DOMAIN t /\ t[i] = s[i]
      BY <1>1, <1>3, <1>4, <2>1
    <3> QED BY <3>1
  <2>2. CASE ~(i < k)
    <3>1. i - 1 \in DOMAIN t /\ t[i - 1] = s[i]
      BY <1>1, <1>3, <1>4, <1>6, <2>2
    <3> QED BY <3>1
  <2> QED BY <2>1, <2>2
<1>7. ASSUME NEW i \in DOMAIN t, NEW j \in DOMAIN t, t[i] = t[j]
      PROVE  i = j
  BY <1>1, <1>3, <1>4, <1>7
<1> HIDE DEF t
<1> QED BY <1>2, <1>4, <1>5, <1>6, <1>7

-----------------------------------------------------------------------------
(* The types. *)

(* Starting, advancing and ending a command keep the types of its record. *)
LEMMA BeginTypes ==
  ASSUME TypeOK, NEW w \in Workers, NEW b \in Builds, NEW c \in Command,
         Begin(w, b, c)
  PROVE  busy' \in SUBSET Builds /\ cmd' \in [Workers -> Command]
BY DEF TypeOK, Begin

(* The same for a command that goes on to its next file operation. *)
LEMMA GotoTypes ==
  ASSUME TypeOK, NEW w \in Workers, NEW c \in Command, Goto(w, c)
  PROVE  busy' \in SUBSET Builds /\ cmd' \in [Workers -> Command]
BY DEF TypeOK, Goto

(* The same for a command that returns and releases its lock. *)
LEMMA FinishTypes ==
  ASSUME TypeOK, NEW w \in Workers, Finish(w)
  PROVE  busy' \in SUBSET Builds /\ cmd' \in [Workers -> Command]
BY Constants DEF TypeOK, Finish

(* A running command names a build. *)
LEMMA ActiveBuild ==
  ASSUME TypeOK, Locked, NEW w \in Workers, cmd[w].pc # "idle"
  PROVE  cmd[w].build \in Builds
BY DEF TypeOK, Locked, Active

(* What the commands read of a build has its type. *)
LEMMA ReadTypes ==
  ASSUME TypeOK, NEW b \in Builds
  PROVE  /\ pointer[b] \in Pointer
         /\ pointer[b].retained \in Seq(Ids)
         /\ Published(b) => pointer[b].current \in Ids
         /\ profileRoot(b) \in Trees
         /\ Tree(b) \in OrNone(Contents)
         /\ buildRevision(b) \in Revisions
<1>1. pointer[b] \in Pointer
  BY DEF TypeOK
<1>2. pointer[b].meta \in Meta /\ pointer[b].current \in OrNone(Ids)
      /\ pointer[b].retained \in Seq(Ids)
  BY <1>1 DEF Pointer
<1>3. profileRoot(b) \in Trees
  BY <1>2 DEF profileRoot, Meta
<1>4. Tree(b) \in OrNone(Contents)
  BY <1>3 DEF TypeOK, Tree
<1> QED BY <1>1, <1>2, <1>3, <1>4
        DEF Published, buildRevision, Revisions, OrNone

(* The fields of a command's record have their types. *)
LEMMA CommandFields ==
  ASSUME NEW c \in Command
  PROVE  /\ c.pc \in PC /\ c.build \in OrNone(Builds)
         /\ c.id \in OrNone(Ids) /\ c.retained \in Seq(Ids)
         /\ c.manifest \in OrNone(Contents) /\ c.meta \in Meta
         /\ c.applies \in BOOLEAN /\ c.revision \in Revisions
BY DEF Command

(* Every step keeps the types of all variables. *)
LEMMA TypeStep ==
  ASSUME TypeOK, Locked, \A w \in Workers : Active(w) => WorkerOK(w),
         \A b \in Builds : PointerOK(b),
         [Next]_vars
  PROVE  TypeOK'
<1> USE NoneIsNoValue, Constants
<1>1. ASSUME NEW b \in Builds, NEW c \in Contents, Install(b, c)
      PROVE  TypeOK'
  BY <1>1 DEF TypeOK, Install, profileRoot, Pointer, Meta, OrNone
<1>2. ASSUME NEW b \in Builds, NEW c \in Contents, NEW d \in Trees,
             EditFiles(b, d, c)
      PROVE  TypeOK'
  <2>1. PICK mixed \in Contents :
          cmd' = [w \in Workers |->
                    IF Reading(w, b) THEN [cmd[w] EXCEPT !.manifest = mixed]
                                     ELSE cmd[w]]
    BY <1>2 DEF EditFiles
  <2>2. \A w \in Workers : [cmd[w] EXCEPT !.manifest = mixed] \in Command
    BY DEF TypeOK, Command, OrNone
  <2>3. cmd' \in [Workers -> Command]
    BY <2>1, <2>2 DEF TypeOK
  <2> QED BY <1>2, <2>3 DEF TypeOK, EditFiles, OrNone
<1>3. ASSUME NEW b \in Builds, NEW i \in Inputs, PlanBuild(b, i)
      PROVE  TypeOK'
  BY <1>3, ReadTypes DEF TypeOK, PlanBuild, OrNone
<1>4. ASSUME NEW w \in Workers, CommandNext(w) \/ Refresh(w)
      PROVE  TypeOK'
  <2>1. ASSUME NEW b \in Builds, PublishStart(w, b)
        PROVE  TypeOK'
    <3>1. [Idle EXCEPT !.pc = "build", !.build = b, !.manifest = Tree(b)]
            \in Command
      BY ReadTypes DEF Command, PC, OrNone
    <3> QED BY <2>1, <3>1, BeginTypes DEF TypeOK, PublishStart, diskVars
  <2>2. CASE PublishBuilt(w)
    <3>1. cmd[w].build \in Builds
      BY <2>2, ActiveBuild DEF PublishBuilt
    <3>2. [cmd[w] EXCEPT !.pc = "release",
             !.meta = [NoMeta EXCEPT
                         !.workspace = profileRoot(cmd[w].build)]] \in Command
      <4>1. [NoMeta EXCEPT !.workspace = profileRoot(cmd[w].build)] \in Meta
        BY <3>1, ReadTypes DEF Meta
      <4> QED BY <4>1 DEF TypeOK, Command, PC
    <3> QED BY <2>2, <3>2, GotoTypes DEF TypeOK, PublishBuilt, diskVars
  <2>3. ASSUME NEW b \in Builds, ApplyStart(w, b)
        PROVE  TypeOK'
    <3>1. [Idle EXCEPT !.pc = "stage", !.build = b, !.applies = TRUE,
             !.meta = [NoMeta EXCEPT !.input = planned[b].input],
             !.revision = buildRevision(b)] \in Command
      <4>1. [NoMeta EXCEPT !.input = planned[b].input] \in Meta
        BY DEF TypeOK, Meta
      <4> QED BY <4>1, ReadTypes DEF Command, PC, OrNone
    <3> QED BY <2>3, <3>1, BeginTypes DEF TypeOK, ApplyStart, diskVars
  <2>4. ASSUME NEW c \in Contents, ApplyStage(w, c)
        PROVE  TypeOK'
    <3>1. [cmd[w] EXCEPT !.pc = "check", !.manifest = c, !.meta.digest = c]
            \in Command
      <4>1. cmd[w] \in Command /\ c \in OrNone(Contents)
        BY DEF TypeOK, OrNone
      <4>2. [cmd[w].meta EXCEPT !.digest = c] \in Meta
        BY <4>1, CommandFields DEF Meta
      <4> QED BY <4>1, <4>2 DEF Command, PC
    <3> QED BY <2>4, <3>1, GotoTypes DEF TypeOK, ApplyStage, diskVars
  <2>5. CASE ApplyCheck(w)
    <3>1. [cmd[w] EXCEPT !.pc = "move"] \in Command
      BY DEF TypeOK, Command, PC
    <3> QED BY <2>5, <3>1, GotoTypes DEF TypeOK, ApplyCheck, diskVars
  <2>6. ASSUME NEW d \in Workspaces, ApplyMove(w, d)
        PROVE  TypeOK'
    <3>1. [cmd[w] EXCEPT !.pc = "release", !.meta.workspace = d] \in Command
      <4>1. cmd[w] \in Command
        BY DEF TypeOK
      <4>2. [cmd[w].meta EXCEPT !.workspace = d] \in Meta
        BY <4>1, CommandFields DEF Meta, Trees
      <4> QED BY <4>1, <4>2 DEF Command, PC
    <3>2. cmd[w].build \in Builds
      BY <2>6, ActiveBuild DEF ApplyMove
    <3>3. cmd[w].manifest \in OrNone(Contents)
      BY DEF TypeOK, Command
    <3>4. d \in Trees
      BY DEF Trees
    <3>5. Goto(w, [cmd[w] EXCEPT !.pc = "release", !.meta.workspace = d])
      BY <2>6 DEF ApplyMove
    <3>6. busy' \in SUBSET Builds /\ cmd' \in [Workers -> Command]
      BY <3>1, <3>5, GotoTypes
    <3> QED BY <2>6, <3>2, <3>3, <3>4, <3>6 DEF TypeOK, ApplyMove
  <2>7. CASE ReadPrevious(w)
    <3>1. cmd[w].build \in Builds
      BY <2>7, ActiveBuild DEF ReadPrevious
    <3> DEFINE b == cmd[w].build
               h == IF Published(b)
                    THEN <<pointer[b].current>> \o pointer[b].retained
                    ELSE <<>>
    <3>2. h \in Seq(Ids)
      <4>1. pointer[b].retained \in Seq(Ids)
        BY <3>1 DEF TypeOK, Pointer
      <4>2. Published(b) => pointer[b].current \in Ids
        BY <3>1 DEF TypeOK, Pointer, Published, OrNone
      <4> QED BY <4>1, <4>2, Prepend
    <3>3. [cmd[w] EXCEPT !.pc = "mkdir", !.retained = h] \in Command
      BY <3>2 DEF TypeOK, Command, PC
    <3> QED BY <2>7, <3>3, GotoTypes DEF TypeOK, ReadPrevious, diskVars
  <2>8. ASSUME NEW id \in Ids, LegacyDirectory(w, id)
        PROVE  TypeOK'
    <3>1. cmd[w].build \in Builds
      BY <2>8, ActiveBuild DEF LegacyDirectory
    <3>2. [cmd[w] EXCEPT !.pc = "legacy", !.id = id] \in Command
      BY DEF TypeOK, Command, PC, OrNone
    <3>3. busy' \in SUBSET Builds /\ cmd' \in [Workers -> Command]
      BY <2>8, <3>2, GotoTypes DEF LegacyDirectory
    <3>4. [NoRelease EXCEPT !.state = "partial"] \in Release
      BY DEF NoRelease, Release, ReleaseState
    <3> QED BY <2>8, <3>1, <3>3, <3>4
            DEF TypeOK, LegacyDirectory, MakeDirectory
  <2>9. CASE LegacyWritten(w)
    <3>1. cmd[w].build \in Builds
      BY <2>9, ActiveBuild DEF LegacyWritten
    <3>2. cmd[w].id \in Ids
      BY <2>9 DEF LegacyWritten, Active, WorkerOK
    <3>3. [cmd[w] EXCEPT !.pc = "mkdir", !.id = None,
                         !.retained = <<cmd[w].id>>] \in Command
      <4>1. <<cmd[w].id>> \in Seq(Ids)
        BY <3>2
      <4> QED BY <4>1 DEF TypeOK, Command, PC, OrNone
    <3>4. busy' \in SUBSET Builds /\ cmd' \in [Workers -> Command]
      BY <2>9, <3>3, GotoTypes DEF LegacyWritten
    <3>5. [state |-> "complete", manifest |-> legacy[cmd[w].build],
           meta |-> NoMeta] \in Release
      BY <3>1 DEF TypeOK, Release, ReleaseState
    <3> QED BY <2>9, <3>1, <3>2, <3>4, <3>5 DEF TypeOK, LegacyWritten
  <2>10. ASSUME NEW id \in Ids, ReleaseDirectory(w, id)
         PROVE  TypeOK'
    <3>1. cmd[w].build \in Builds
      BY <2>10, ActiveBuild DEF ReleaseDirectory
    <3>2. [cmd[w] EXCEPT !.pc = "write", !.id = id] \in Command
      BY DEF TypeOK, Command, PC, OrNone
    <3>3. busy' \in SUBSET Builds /\ cmd' \in [Workers -> Command]
      BY <2>10, <3>2, GotoTypes DEF ReleaseDirectory
    <3>4. [NoRelease EXCEPT !.state = "partial"] \in Release
      BY DEF NoRelease, Release, ReleaseState
    <3> QED BY <2>10, <3>1, <3>3, <3>4
            DEF TypeOK, ReleaseDirectory, MakeDirectory
  <2>11. CASE ReleaseWritten(w)
    <3>1. cmd[w].build \in Builds
      BY <2>11, ActiveBuild DEF ReleaseWritten
    <3>2. cmd[w].id \in Ids
      BY <2>11 DEF ReleaseWritten, Active, WorkerOK
    <3>3. [cmd[w] EXCEPT !.pc = "commit"] \in Command
      BY DEF TypeOK, Command, PC
    <3>4. busy' \in SUBSET Builds /\ cmd' \in [Workers -> Command]
      BY <2>11, <3>3, GotoTypes DEF ReleaseWritten
    <3>5. [state |-> "complete", manifest |-> cmd[w].manifest,
           meta |-> cmd[w].meta] \in Release
      BY DEF TypeOK, Command, Release, ReleaseState
    <3> QED BY <2>11, <3>1, <3>2, <3>4, <3>5 DEF TypeOK, ReleaseWritten
  <2>12. CASE Commit(w)
    <3>1. cmd[w].build \in Builds
      BY <2>12, ActiveBuild DEF Commit
    <3>2. [cmd[w] EXCEPT !.pc = "sync"] \in Command
      BY DEF TypeOK, Command, PC
    <3>3. busy' \in SUBSET Builds /\ cmd' \in [Workers -> Command]
      BY <2>12, <3>2, GotoTypes DEF Commit
    <3>4. [current |-> cmd[w].id, retained |-> cmd[w].retained,
           meta |-> cmd[w].meta] \in Pointer
      BY DEF TypeOK, Command, Pointer
    <3> QED BY <2>12, <3>1, <3>3, <3>4 DEF TypeOK, Commit
  <2>13. CASE SyncDone(w)
    <3>1. [cmd[w] EXCEPT !.pc = "refresh"] \in Command
      BY DEF TypeOK, Command, PC
    <3> QED BY <2>13, <3>1, GotoTypes DEF TypeOK, SyncDone, diskVars
  <2>14. CASE SyncFailed(w) \/ Fail(w) \/ Refresh(w)
    BY <2>14, FinishTypes DEF TypeOK, SyncFailed, Fail, Refresh, diskVars
  <2>15. ASSUME NEW b \in Builds, NEW id \in Ids, Rollback(w, b, id)
         PROVE  TypeOK'
    <3>1. [Idle EXCEPT !.pc = "refresh", !.build = b] \in Command
      BY DEF Command, PC, OrNone
    <3>2. busy' \in SUBSET Builds /\ cmd' \in [Workers -> Command]
      BY <2>15, <3>1, BeginTypes DEF Rollback
    <3>3. Without(pointer[b].retained, id) \in Seq(Ids)
      BY <2>15, ReadTypes, WithoutFacts DEF PointerOK, Rollback, Retained
    <3>4. <<pointer[b].current>> \o Without(pointer[b].retained, id)
            \in Seq(Ids)
      BY <2>15, <3>3, ReadTypes, Prepend DEF Rollback
    <3>5. releases[b][id].meta \in Meta
      BY DEF TypeOK, Release
    <3>6. [current |-> id,
           retained |-> <<pointer[b].current>>
                          \o Without(pointer[b].retained, id),
           meta |-> releases[b][id].meta] \in Pointer
      BY <3>4, <3>5 DEF Pointer, OrNone
    <3> QED BY <2>15, <3>2, <3>6 DEF TypeOK, Rollback
  <2>16. ASSUME NEW b \in Builds, DeleteStart(w, b)
         PROVE  TypeOK'
    <3>1. [Idle EXCEPT !.pc = "remove", !.build = b] \in Command
      BY DEF Command, PC, OrNone
    <3> QED BY <2>16, <3>1, BeginTypes DEF TypeOK, DeleteStart, diskVars
  <2>17. CASE RemovePointer(w)
    BY <2>17, ActiveBuild DEF TypeOK, RemovePointer
  <2>18. ASSUME NEW id \in Ids, RemoveRelease(w, id)
         PROVE  TypeOK'
    <3>1. cmd[w].build \in Builds
      BY <2>18, ActiveBuild DEF RemoveRelease
    <3> DEFINE b == cmd[w].build
    <3>2. releases[b][id] \in Release
      BY <3>1 DEF TypeOK
    <3>3. [releases[b][id] EXCEPT !.state = "torn"] \in Release
      BY <3>2 DEF Release, ReleaseState
    <3>4. releases' \in [Builds -> [Ids -> Release]]
      <4>1. CASE releases' = [releases EXCEPT ![b][id].state = "torn"]
        BY <3>1, <3>3, <4>1 DEF TypeOK
      <4>2. CASE releases' = [releases EXCEPT ![b][id] = NoRelease]
        BY <3>1, <4>2 DEF TypeOK
      <4> QED BY <2>18, <4>1, <4>2 DEF RemoveRelease
    <3>5. torn' \in SUBSET Builds
      BY <2>18, <3>1 DEF TypeOK, RemoveRelease
    <3> QED BY <2>18, <3>4, <3>5 DEF TypeOK, RemoveRelease
  <2>19. ASSUME NEW d \in Trees, RemoveTree(w, d)
         PROVE  TypeOK'
    BY <2>19, ActiveBuild DEF TypeOK, RemoveTree, OrNone
  <2>20. CASE DirectoryRemoved(w)
    <3>1. [cmd[w] EXCEPT !.pc = "flat"] \in Command
      BY DEF TypeOK, Command, PC
    <3> QED BY <2>20, <3>1, GotoTypes DEF TypeOK, DirectoryRemoved, diskVars
  <2>21. CASE FlatRemoved(w)
    <3>1. [cmd[w] EXCEPT !.pc = "refresh"] \in Command
      BY DEF TypeOK, Command, PC
    <3>2. busy' \in SUBSET Builds /\ cmd' \in [Workers -> Command]
      BY <2>21, <3>1, GotoTypes DEF FlatRemoved
    <3> QED BY <2>21, <3>2 DEF TypeOK, FlatRemoved, OrNone
  <2> QED BY <1>4, <2>1, <2>2, <2>3, <2>4, <2>5, <2>6, <2>7, <2>8, <2>9,
             <2>10, <2>11, <2>12, <2>13, <2>14, <2>15, <2>16, <2>17, <2>18,
             <2>19, <2>20, <2>21
          DEF CommandNext, PublishNext, ApplyNext, ReleaseNext, RollbackNext,
              DeleteNext
<1>5. CASE Crash
  BY <1>5 DEF TypeOK, Crash, diskVars
<1>6. CASE UNCHANGED vars
  BY <1>6 DEF TypeOK, vars
<1> QED BY <1>1, <1>2, <1>3, <1>4, <1>5, <1>6
        DEF Next, FilesNext, PlanNext

-----------------------------------------------------------------------------
(* The locks. *)

(* A command that takes the lock of a build is the only one working with it. *)
LEMMA BeginLocked ==
  ASSUME TypeOK, Locked, NEW w \in Workers, NEW b \in Builds,
         NEW c \in Command, c.build = b, Begin(w, b, c)
  PROVE  /\ Locked'
         /\ \A v \in Workers : v # w =>
              cmd'[v] = cmd[v] /\ (Active(v) => cmd[v].build # b)
         /\ cmd'[w] = c
BY DEF TypeOK, Locked, Active, Begin, Alone

(* A command that goes on keeps its lock, and the others keep off its build. *)
LEMMA GotoLocked ==
  ASSUME TypeOK, Locked, NEW w \in Workers, Active(w), NEW c,
         c.build = cmd[w].build, Goto(w, c)
  PROVE  /\ Locked'
         /\ \A v \in Workers : v # w =>
              cmd'[v] = cmd[v] /\ (Active(v) => cmd[v].build # cmd[w].build)
         /\ cmd'[w] = c
BY DEF TypeOK, Locked, Active, Goto

(* A command that returns gives up its own lock and no other. *)
LEMMA FinishLocked ==
  ASSUME TypeOK, Locked, NEW w \in Workers, Active(w), Finish(w)
  PROVE  /\ Locked'
         /\ \A v \in Workers : v # w =>
              cmd'[v] = cmd[v] /\ (Active(v) => cmd[v].build # cmd[w].build)
         /\ cmd'[w] = Idle
BY DEF TypeOK, Locked, Active, Finish, Idle

-----------------------------------------------------------------------------
(* What a step of one command leaves alone. *)

SameBuild(x) ==
  /\ pointer'[x] = pointer[x]
  /\ releases'[x] = releases[x]
  /\ legacy'[x] = legacy[x]
  /\ used'[x] = used[x]
  /\ (x \in torn') = (x \in torn)
  /\ planned'[x] = planned[x]

Builders == \A b \in Builds : PointerOK(b) /\ ReleasesOK(b)
Commands == \A w \in Workers : Active(w) => WorkerOK(w)

(* A build whose files and plan did not change still satisfies its invariant. *)
LEMMA BuildKept ==
  ASSUME NEW x \in Builds, SameBuild(x), PointerOK(x), ReleasesOK(x)
  PROVE  PointerOK(x)' /\ ReleasesOK(x)'
BY DEF SameBuild, PointerOK, ReleasesOK, Published, Referenced, Retained

(* A command whose record and build did not change still relies on what holds. *)
LEMMA WorkerKept ==
  ASSUME NEW v \in Workers, cmd'[v] = cmd[v], SameBuild(cmd[v].build),
         WorkerOK(v)
  PROVE  WorkerOK(v)'
<1> DEFINE b == cmd[v].build
<1>1. /\ Published(b)' <=> Published(b)
      /\ Referenced(b)' = Referenced(b)
  BY DEF SameBuild, Published, Referenced, Retained
<1>2. HistoryRead(v)' <=> HistoryRead(v)
  BY <1>1 DEF SameBuild, HistoryRead
<1>3. QED
  BY <1>1, <1>2 DEF SameBuild, WorkerOK

(* A step of worker w on build b keeps the invariant if it keeps w and b. *)
LEMMA Localized ==
  ASSUME TypeOK, Locked, Builders, Commands,
         NEW w \in Workers, NEW b \in Builds,
         \A x \in Builds : x # b => SameBuild(x),
         \A v \in Workers : v # w =>
           cmd'[v] = cmd[v] /\ (Active(v) => cmd[v].build # b),
         PointerOK(b)', ReleasesOK(b)', Active(w)' => WorkerOK(w)'
  PROVE  Builders' /\ Commands'
<1>1. ASSUME NEW x \in Builds
      PROVE  PointerOK(x)' /\ ReleasesOK(x)'
  <2>1. CASE x = b
    BY <2>1
  <2>2. CASE x # b
    BY <2>2, BuildKept DEF Builders
  <2> QED BY <2>1, <2>2
<1>2. ASSUME NEW v \in Workers, Active(v)'
      PROVE  WorkerOK(v)'
  <2>1. CASE v = w
    BY <1>2, <2>1
  <2>2. CASE v # w
    <3>1. cmd'[v] = cmd[v] /\ Active(v)
      BY <1>2, <2>2 DEF Active
    <3>2. cmd[v].build \in Builds /\ cmd[v].build # b
      BY <2>2, <3>1, ActiveBuild DEF Active
    <3>3. WorkerOK(v)
      BY <3>1 DEF Commands
    <3> QED BY <3>1, <3>2, <3>3, WorkerKept
  <2> QED BY <2>1, <2>2
<1> QED BY <1>1, <1>2 DEF Builders, Commands

(* A step of worker w that leaves the files alone. *)
LEMMA CommandOnly ==
  ASSUME TypeOK, Locked, Builders, Commands, NEW w \in Workers,
         NEW b \in Builds, UNCHANGED <<diskVars, planned>>,
         \A v \in Workers : v # w =>
           cmd'[v] = cmd[v] /\ (Active(v) => cmd[v].build # b),
         Active(w)' => WorkerOK(w)'
  PROVE  Builders' /\ Commands'
<1>1. \A x \in Builds : SameBuild(x)
  BY DEF SameBuild, diskVars
<1>2. PointerOK(b)' /\ ReleasesOK(b)'
  BY <1>1, BuildKept DEF Builders
<1> QED BY <1>1, <1>2, Localized

-----------------------------------------------------------------------------
(* One lemma per command: it keeps the locks, the files and the commands. *)

Kept == Locked' /\ Builders' /\ Commands'

(* Returning, with or without an error, keeps the invariant. *)
LEMMA FinishStep ==
  ASSUME Inductive, NEW w \in Workers, SyncFailed(w) \/ Fail(w) \/ Refresh(w)
  PROVE  Kept
<1>1. Active(w) /\ Finish(w) /\ UNCHANGED <<diskVars, planned>>
  BY DEF SyncFailed, Fail, Refresh, Active
<1>2. TypeOK /\ Locked /\ Builders /\ Commands
  BY DEF Inductive, Builders, Commands
<1>3. ~Active(w)'
  BY <1>1, <1>2, FinishLocked DEF Active, Idle
<1>4. cmd[w].build \in Builds
  BY <1>1, <1>2, ActiveBuild DEF Active
<1> QED BY <1>1, <1>2, <1>3, <1>4, FinishLocked, CommandOnly DEF Kept

(* publish, up to the signed manifests, keeps the invariant. *)
LEMMA PublishStep ==
  ASSUME Inductive, NEW w \in Workers, PublishNext(w)
  PROVE  Kept
<1>0. TypeOK /\ Locked /\ Builders /\ Commands
  BY DEF Inductive, Builders, Commands
<1>1. ASSUME NEW b \in Builds, PublishStart(w, b)
      PROVE  Kept
  <2> DEFINE c == [Idle EXCEPT !.pc = "build", !.build = b,
                               !.manifest = Tree(b)]
  <2>1. c \in Command /\ c.build = b
    BY <1>0, Constants, ReadTypes DEF Command, PC, OrNone
  <2>2. Begin(w, b, c) /\ UNCHANGED <<diskVars, planned>>
    BY <1>1 DEF PublishStart
  <2>3. cmd'[w] = c
    BY <1>0, <2>2 DEF TypeOK, Begin
  <2>4. WorkerOK(w)'
    BY <2>3 DEF WorkerOK, Truthful, Idle, NoMeta
  <2> HIDE DEF c
  <2> QED BY <1>0, <2>1, <2>2, <2>4, BeginLocked, CommandOnly DEF Kept
<1>2. CASE PublishBuilt(w)
  <2> DEFINE c == [cmd[w] EXCEPT !.pc = "release",
                    !.meta = [NoMeta EXCEPT
                                !.workspace = profileRoot(cmd[w].build)]]
  <2>1. Active(w) /\ Goto(w, c) /\ UNCHANGED <<diskVars, planned>>
    BY <1>2 DEF PublishBuilt, Active
  <2>2. cmd[w] \in Command /\ cmd[w].build \in Builds /\ WorkerOK(w)
    BY <1>0, <2>1, ActiveBuild DEF TypeOK, Active, Commands
  <2>3. c.build = cmd[w].build
    BY <2>2 DEF Command
  <2>4. cmd'[w] = c
    BY <1>0, <2>1, <2>3, GotoLocked
  <2>5. /\ c.pc = "release" /\ c.applies = cmd[w].applies
        /\ c.meta.input = None
    BY <2>2 DEF Command, NoMeta
  <2>6. cmd[w].applies = FALSE
    BY <1>2, <2>2 DEF WorkerOK, PublishBuilt
  <2>7. WorkerOK(w)'
    BY <2>2, <2>3, <2>4, <2>5, <2>6 DEF WorkerOK, Truthful
  <2> HIDE DEF c
  <2> QED BY <1>0, <2>1, <2>2, <2>3, <2>7, GotoLocked, CommandOnly DEF Kept
<1> QED BY <1>1, <1>2 DEF PublishNext

(* build-apply, up to the workspace moved in, keeps the invariant. *)
LEMMA ApplyStep ==
  ASSUME Inductive, NEW w \in Workers, ApplyNext(w)
  PROVE  Kept
<1>0. TypeOK /\ Locked /\ Builders /\ Commands
  BY DEF Inductive, Builders, Commands
<1>1. ASSUME NEW b \in Builds, ApplyStart(w, b)
      PROVE  Kept
  <2> DEFINE m == [NoMeta EXCEPT !.input = planned[b].input]
             c == [Idle EXCEPT !.pc = "stage", !.build = b, !.applies = TRUE,
                               !.meta = m, !.revision = buildRevision(b)]
  <2>1. m \in Meta
    BY <1>0, Constants DEF TypeOK, Meta
  <2>2. c \in Command /\ c.build = b
    BY <1>0, <2>1, Constants, ReadTypes DEF Command, PC, OrNone
  <2>3. Begin(w, b, c) /\ UNCHANGED <<diskVars, planned>>
        /\ buildRevision(b) = planned[b].revision
    BY <1>1 DEF ApplyStart
  <2>4. cmd'[w] = c
    BY <1>0, <2>3 DEF TypeOK, Begin
  <2>5. c.pc = "stage" /\ c.revision = planned[b].revision
        /\ c.revision[1] = pointer[b].current
    BY <2>3 DEF Idle, buildRevision
  <2>6. WorkerOK(w)'
    BY <2>2, <2>3, <2>4, <2>5 DEF WorkerOK, diskVars
  <2> HIDE DEF c
  <2> QED BY <1>0, <2>2, <2>3, <2>6, BeginLocked, CommandOnly DEF Kept
<1>2. ASSUME NEW d \in Contents, ApplyStage(w, d)
      PROVE  Kept
  <2> DEFINE c == [cmd[w] EXCEPT !.pc = "check", !.manifest = d,
                                 !.meta.digest = d]
  <2>1. Active(w) /\ Goto(w, c) /\ UNCHANGED <<diskVars, planned>>
    BY <1>2 DEF ApplyStage, Active
  <2>2. cmd[w] \in Command /\ cmd[w].build \in Builds /\ WorkerOK(w)
    BY <1>0, <2>1, ActiveBuild DEF TypeOK, Active, Commands
  <2>3. c.build = cmd[w].build
    BY <2>2 DEF Command
  <2>4. cmd'[w] = c
    BY <1>0, <2>1 DEF TypeOK, Goto
  <2>5. /\ c.pc = "check" /\ c.applies = cmd[w].applies
        /\ c.revision = cmd[w].revision
        /\ c.manifest = d /\ c.meta.digest = d
    BY <2>2, CommandFields DEF Command, Meta
  <2>6. cmd[w].pc = "stage" /\ d # None
    BY <1>2, NoneIsNoValue DEF ApplyStage
  <2>7. WorkerOK(w)'
    BY <2>1, <2>2, <2>3, <2>4, <2>5, <2>6 DEF WorkerOK, Truthful, diskVars
  <2> HIDE DEF c
  <2> QED BY <1>0, <2>1, <2>2, <2>3, <2>7, GotoLocked, CommandOnly DEF Kept
<1>3. CASE ApplyCheck(w)
  <2> DEFINE c == [cmd[w] EXCEPT !.pc = "move"]
  <2>1. Active(w) /\ Goto(w, c) /\ UNCHANGED <<diskVars, planned>>
    BY <1>3 DEF ApplyCheck, Active
  <2>2. cmd[w] \in Command /\ cmd[w].build \in Builds /\ WorkerOK(w)
    BY <1>0, <2>1, ActiveBuild DEF TypeOK, Active, Commands
  <2>3. /\ c.build = cmd[w].build /\ c.pc = "move"
        /\ c.applies = cmd[w].applies /\ c.revision = cmd[w].revision
        /\ c.manifest = cmd[w].manifest /\ c.meta = cmd[w].meta
    BY <2>2 DEF Command
  <2>4. cmd'[w] = c
    BY <1>0, <2>1 DEF TypeOK, Goto
  <2>5. cmd[w].pc = "check"
    BY <1>3 DEF ApplyCheck
  <2>6. WorkerOK(w)'
    BY <2>1, <2>2, <2>3, <2>4, <2>5 DEF WorkerOK, Truthful, diskVars
  <2> HIDE DEF c
  <2> QED BY <1>0, <2>1, <2>2, <2>3, <2>6, GotoLocked, CommandOnly DEF Kept
<1>4. ASSUME NEW d \in Workspaces, ApplyMove(w, d)
      PROVE  Kept
  <2> DEFINE c == [cmd[w] EXCEPT !.pc = "release", !.meta.workspace = d]
  <2>1. Active(w) /\ cmd[w].pc = "move" /\ Goto(w, c)
        /\ UNCHANGED <<pointer, releases, legacy, torn, planned>>
    BY <1>4 DEF ApplyMove, Active
  <2>2. cmd[w] \in Command /\ WorkerOK(w)
    BY <1>0, <2>1 DEF TypeOK, Commands
  <2>3. PICK b \in Builds : b = cmd[w].build
    BY <1>0, <2>1, ActiveBuild DEF Active
  <2>4. /\ c.build = b /\ c.pc = "release"
        /\ c.applies = cmd[w].applies /\ c.revision = cmd[w].revision
        /\ c.manifest = cmd[w].manifest
        /\ c.meta.input = cmd[w].meta.input
        /\ c.meta.digest = cmd[w].meta.digest
    BY <2>2, <2>3, CommandFields DEF Command, Meta
  <2>5. cmd'[w] = c
    BY <1>0, <2>1 DEF TypeOK, Goto
  <2>6. WorkerOK(w)'
    BY <2>1, <2>2, <2>3, <2>4, <2>5 DEF WorkerOK, Truthful
  <2>7. used[b] \subseteq used'[b] /\ \A x \in Builds : x # b => SameBuild(x)
    BY <1>0, <1>4, <2>1, <2>3 DEF TypeOK, SameBuild, ApplyMove
  <2>8. PointerOK(b) /\ ReleasesOK(b)
    BY <1>0 DEF Builders
  <2>9. PointerOK(b)' /\ ReleasesOK(b)'
    BY <2>1, <2>7, <2>8 DEF PointerOK, ReleasesOK, Published, Referenced,
                            Retained
  <2> HIDE DEF c
  <2> QED BY <1>0, <2>1, <2>3, <2>4, <2>6, <2>7, <2>9, GotoLocked, Localized
          DEF Kept
<1> QED BY <1>1, <1>2, <1>3, <1>4 DEF ApplyNext

(* The history a command read names issued releases, each one once. *)
Elements(s) == {s[i] : i \in DOMAIN s}

(* What a command knows of the history it read.                            *)
LEMMA HistoryFacts ==
  ASSUME TypeOK, NEW w \in Workers, NEW b \in Builds, cmd[w].build = b,
         HistoryRead(w), PointerOK(b)
  PROVE  LET s == cmd[w].retained IN
         /\ Elements(s) \subseteq used[b]
         /\ \A i, j \in DOMAIN s : s[i] = s[j] => i = j
         /\ Published(b) => Elements(s) = Referenced(b)
         /\ ~Published(b) =>
              \/ Elements(s) = {} /\ legacy[b] = None
              \/ \E l \in used[b] \cap Ids :
                   /\ Elements(s) = {l}
                   /\ releases[b][l].state = "complete"
                   /\ releases[b][l].manifest = legacy[b]
<1> DEFINE s == cmd[w].retained
<1>1. CASE Published(b)
  <2> DEFINE p == pointer[b].retained
             x == pointer[b].current
  <2>1. p \in Seq(Ids) /\ x \in Ids
    BY <1>1, ReadTypes
  <2>2. s = <<x>> \o p
    BY <1>1 DEF HistoryRead
  <2>3. /\ x \in used[b]
        /\ \A i \in DOMAIN p : p[i] \in used[b] /\ p[i] # x
        /\ \A i, j \in DOMAIN p : p[i] = p[j] => i = j
    BY <1>1 DEF PointerOK
  <2>4. Referenced(b) = {x} \cup {p[i] : i \in DOMAIN p}
    BY <1>1 DEF Referenced, Retained
  <2> HIDE DEF p, x
  <2>5. /\ DOMAIN s = 1 .. Len(p) + 1 /\ s[1] = x
        /\ \A i \in DOMAIN p : s[i + 1] = p[i]
        /\ \A i \in DOMAIN s : i = 1 \/ (i - 1 \in DOMAIN p /\ s[i] = p[i - 1])
        /\ DOMAIN p = 1 .. Len(p) /\ Len(p) \in Nat
    BY <2>1, <2>2, Prepend
  <2> HIDE DEF s
  <2>6. Elements(s) = {x} \cup {p[i] : i \in DOMAIN p}
    <3>1. ASSUME NEW e \in Elements(s)
          PROVE  e \in {x} \cup {p[i] : i \in DOMAIN p}
      BY <2>5 DEF Elements
    <3>2. x \in Elements(s)
      BY <2>5 DEF Elements
    <3>3. ASSUME NEW i \in DOMAIN p
          PROVE  p[i] \in Elements(s)
      <4>1. i + 1 \in DOMAIN s /\ s[i + 1] = p[i]
        BY <2>5
      <4> QED BY <4>1 DEF Elements
    <3> QED BY <3>1, <3>2, <3>3
  <2>7. \A i, j \in DOMAIN s : s[i] = s[j] => i = j
    BY <2>3, <2>5
  <2> QED BY <1>1, <2>3, <2>4, <2>6, <2>7 DEF s
<1>2. CASE ~Published(b)
  <2>1. CASE s = <<>> /\ legacy[b] = None
    BY <1>2, <2>1 DEF Elements
  <2>2. ASSUME NEW l \in used[b] \cap Ids, s = <<l>>,
               releases[b][l].state = "complete",
               releases[b][l].manifest = legacy[b]
        PROVE  /\ Elements(s) = {l}
               /\ \A i, j \in DOMAIN s : s[i] = s[j] => i = j
    BY <2>2 DEF Elements
  <2> QED BY <1>2, <2>1, <2>2 DEF HistoryRead
<1> QED BY <1>1, <1>2

(* The history read stays true when other release directories change. *)
LEMMA HistoryReadKept ==
  ASSUME NEW w \in Workers, NEW b \in Builds, HistoryRead(w),
         cmd[w].build = b, cmd'[w].build = b,
         cmd'[w].retained = cmd[w].retained,
         pointer'[b] = pointer[b], legacy'[b] = legacy[b],
         used[b] \subseteq used'[b],
         \A l \in used[b] \cap Ids : cmd[w].retained = <<l>> =>
           releases'[b][l] = releases[b][l]
  PROVE  HistoryRead(w)'
BY DEF HistoryRead, Published

(* A new directory is not one the pointer or the command names already. *)
LEMMA FreshId ==
  ASSUME NEW b \in Builds, NEW id, id \notin used[b], PointerOK(b)
  PROVE  id \notin Referenced(b)
BY DEF PointerOK, Referenced, Retained

(* Writing a release and committing the pointer keeps the invariant. *)
LEMMA ReleaseStep ==
  ASSUME Inductive, NEW w \in Workers, ReleaseNext(w)
  PROVE  Kept
<1>0. TypeOK /\ Locked /\ Builders /\ Commands
  BY DEF Inductive, Builders, Commands
<1>1. Active(w)
  <2>1. ReadPrevious(w) => Active(w)
    BY DEF ReadPrevious, Active
  <2>2. \A id \in Ids : LegacyDirectory(w, id) \/ ReleaseDirectory(w, id)
                       => Active(w)
    BY DEF LegacyDirectory, ReleaseDirectory, Active
  <2>3. LegacyWritten(w) => Active(w)
    BY DEF LegacyWritten, Active
  <2>4. ReleaseWritten(w) => Active(w)
    BY DEF ReleaseWritten, Active
  <2>5. Commit(w) => Active(w)
    BY DEF Commit, Active
  <2>6. SyncDone(w) \/ SyncFailed(w) => Active(w)
    BY DEF SyncDone, SyncFailed, Active
  <2> QED BY <2>1, <2>2, <2>3, <2>4, <2>5, <2>6 DEF ReleaseNext
<1>2. CASE SyncFailed(w)
  BY <1>2, FinishStep
<1>3. PICK b \in Builds : b = cmd[w].build
  BY <1>0, <1>1, ActiveBuild DEF Active
<1>4. cmd[w] \in Command /\ WorkerOK(w) /\ PointerOK(b) /\ ReleasesOK(b)
  BY <1>0, <1>1 DEF TypeOK, Commands, Builders
<1>5. CASE ReadPrevious(w)
  <2> DEFINE c == [cmd[w] EXCEPT !.pc = "mkdir",
                     !.retained = IF Published(b)
                       THEN <<pointer[b].current>> \o pointer[b].retained
                       ELSE <<>>]
  <2>1. /\ Goto(w, c) /\ UNCHANGED <<diskVars, planned>>
        /\ cmd[w].pc = "release" /\ (Published(b) \/ legacy[b] = None)
    BY <1>3, <1>5 DEF ReadPrevious
  <2>2. /\ c.build = b /\ c.pc = "mkdir"
        /\ c.applies = cmd[w].applies /\ c.revision = cmd[w].revision
        /\ c.manifest = cmd[w].manifest /\ c.meta = cmd[w].meta
        /\ c.retained = IF Published(b)
                        THEN <<pointer[b].current>> \o pointer[b].retained
                        ELSE <<>>
    BY <1>3, <1>4 DEF Command
  <2>3. cmd'[w] = c
    BY <1>0, <2>1 DEF TypeOK, Goto
  <2> HIDE DEF c
  <2>4. HistoryRead(w)'
    BY <2>1, <2>2, <2>3 DEF HistoryRead, Published, diskVars
  <2>5. WorkerOK(w)'
    BY <1>3, <1>4, <2>1, <2>2, <2>3, <2>4 DEF WorkerOK, Truthful, diskVars
  <2> QED BY <1>0, <1>1, <1>3, <2>1, <2>2, <2>5, GotoLocked, CommandOnly
          DEF Kept
<1>6. ASSUME NEW id \in Ids, LegacyDirectory(w, id)
      PROVE  Kept
  <2> DEFINE c == [cmd[w] EXCEPT !.pc = "legacy", !.id = id]
             r == [NoRelease EXCEPT !.state = "partial"]
  <2>1. /\ Goto(w, c) /\ UNCHANGED <<pointer, legacy, torn, planned>>
        /\ cmd[w].pc = "release" /\ ~Published(b) /\ id \notin used[b]
        /\ used' = [used EXCEPT ![b] = @ \cup {id}]
        /\ releases' = [releases EXCEPT ![b][id] = r]
    BY <1>3, <1>6 DEF LegacyDirectory, MakeDirectory
  <2>2. /\ c.build = b /\ c.pc = "legacy" /\ c.id = id
        /\ c.applies = cmd[w].applies /\ c.revision = cmd[w].revision
        /\ c.manifest = cmd[w].manifest /\ c.meta = cmd[w].meta
    BY <1>3, <1>4 DEF Command
  <2>3. cmd'[w] = c /\ r.meta.input = None
    BY <1>0, <2>1 DEF TypeOK, Goto, NoRelease, NoMeta
  <2> HIDE DEF c, r
  <2>4. /\ \A x \in Builds : x # b => SameBuild(x)
        /\ used'[b] = used[b] \cup {id}
        /\ releases'[b] = [releases[b] EXCEPT ![id] = r]
    BY <1>0, <2>1 DEF TypeOK, SameBuild
  <2>5. Referenced(b)' = {} /\ ~Published(b)'
    BY <2>1 DEF Referenced, Published
  <2>6. WorkerOK(w)'
    BY <1>3, <1>4, <2>1, <2>2, <2>3, <2>4, <2>5 DEF WorkerOK, Truthful
  <2>7. PointerOK(b)'
    BY <1>4, <2>1, <2>4 DEF PointerOK, Published
  <2>8. ReleasesOK(b)'
    BY <1>0, <1>4, <2>3, <2>4, <2>5 DEF TypeOK, ReleasesOK, Truthful
  <2> QED BY <1>0, <1>1, <1>3, <2>1, <2>2, <2>4, <2>6, <2>7, <2>8, GotoLocked,
             Localized DEF Kept
<1>7. CASE LegacyWritten(w)
  <2> DEFINE id == cmd[w].id
             c == [cmd[w] EXCEPT !.pc = "mkdir", !.id = None,
                                 !.retained = <<cmd[w].id>>]
             r == [state |-> "complete", manifest |-> legacy[b],
                   meta |-> NoMeta]
  <2>1. /\ Goto(w, c) /\ UNCHANGED <<pointer, legacy, used, torn, planned>>
        /\ cmd[w].pc = "legacy"
        /\ releases' = [releases EXCEPT ![b][id] = r]
    BY <1>3, <1>7 DEF LegacyWritten
  <2>2. id \in used[b] \cap Ids /\ ~Published(b)
    BY <1>3, <1>4, <2>1 DEF WorkerOK
  <2>3. PICK i \in used[b] \cap Ids : i = id
    BY <2>2
  <2>4. /\ c.build = b /\ c.pc = "mkdir" /\ c.retained = <<i>>
        /\ c.applies = cmd[w].applies /\ c.revision = cmd[w].revision
        /\ c.manifest = cmd[w].manifest /\ c.meta = cmd[w].meta
    BY <1>3, <1>4, <2>3 DEF Command
  <2>5. /\ cmd'[w] = c /\ r.meta.input = None
        /\ r.state = "complete" /\ r.manifest = legacy[b]
    BY <1>0, <2>1 DEF TypeOK, Goto, NoMeta
  <2>6. releases' = [releases EXCEPT ![b][i] = r]
    BY <2>1, <2>3
  <2> HIDE DEF c, r, id
  <2>7. /\ \A x \in Builds : x # b => SameBuild(x)
        /\ releases'[b] = [releases[b] EXCEPT ![i] = r]
        /\ releases'[b][i] = r
    BY <1>0, <2>1, <2>3, <2>6 DEF TypeOK, SameBuild
  <2>8. Referenced(b)' = {} /\ ~Published(b)'
    BY <2>1, <2>2 DEF Referenced, Published
  <2>9. HistoryRead(w)'
    BY <2>1, <2>3, <2>4, <2>5, <2>7, <2>8 DEF HistoryRead
  <2>10. WorkerOK(w)'
    BY <1>3, <1>4, <2>1, <2>4, <2>5, <2>9 DEF WorkerOK, Truthful
  <2>11. PointerOK(b)'
    BY <1>4, <2>1 DEF PointerOK, Published
  <2>12. ReleasesOK(b)'
    BY <1>0, <1>4, <2>5, <2>7, <2>8 DEF TypeOK, ReleasesOK, Truthful
  <2> QED BY <1>0, <1>1, <1>3, <2>1, <2>4, <2>7, <2>10, <2>11, <2>12, GotoLocked,
             Localized DEF Kept
<1>8. ASSUME NEW id \in Ids, ReleaseDirectory(w, id)
      PROVE  Kept
  <2> DEFINE c == [cmd[w] EXCEPT !.pc = "write", !.id = id]
             r == [NoRelease EXCEPT !.state = "partial"]
  <2>1. /\ Goto(w, c) /\ UNCHANGED <<pointer, legacy, torn, planned>>
        /\ cmd[w].pc = "mkdir" /\ id \notin used[b]
        /\ used' = [used EXCEPT ![b] = @ \cup {id}]
        /\ releases' = [releases EXCEPT ![b][id] = r]
    BY <1>3, <1>8 DEF ReleaseDirectory, MakeDirectory
  <2>2. /\ c.build = b /\ c.pc = "write" /\ c.id = id
        /\ c.retained = cmd[w].retained
        /\ c.applies = cmd[w].applies /\ c.revision = cmd[w].revision
        /\ c.manifest = cmd[w].manifest /\ c.meta = cmd[w].meta
    BY <1>3, <1>4 DEF Command
  <2>3. cmd'[w] = c /\ r.meta.input = None
    BY <1>0, <2>1 DEF TypeOK, Goto, NoRelease, NoMeta
  <2> HIDE DEF c, r
  <2>4. /\ \A x \in Builds : x # b => SameBuild(x)
        /\ used'[b] = used[b] \cup {id}
        /\ releases'[b] = [releases[b] EXCEPT ![id] = r]
        /\ releases[b] \in [Ids -> Release]
    BY <1>0, <2>1 DEF TypeOK, SameBuild
  <2>5. id \notin Referenced(b) /\ HistoryRead(w)
    BY <1>3, <1>4, <2>1, FreshId DEF WorkerOK
  <2>6. Referenced(b)' = Referenced(b) /\ Published(b)' = Published(b)
    BY <2>1 DEF Referenced, Published, Retained
  <2>7. HistoryRead(w)'
    <3>1. \A l \in used[b] \cap Ids : releases'[b][l] = releases[b][l]
      BY <2>1, <2>4
    <3> QED BY <1>3, <2>1, <2>2, <2>3, <2>4, <2>5, <3>1, HistoryReadKept
  <2>8. \A i \in DOMAIN cmd[w].retained : cmd[w].retained[i] # id
    <3>1. Elements(cmd[w].retained) \subseteq used[b]
      BY <1>0, <1>3, <1>4, <2>5, HistoryFacts
    <3> QED BY <2>1, <3>1 DEF Elements
  <2>9. WorkerOK(w)'
    BY <1>3, <1>4, <2>1, <2>2, <2>3, <2>4, <2>5, <2>6, <2>7, <2>8
       DEF WorkerOK, Truthful
  <2>10. PointerOK(b)'
    BY <1>4, <2>1, <2>4 DEF PointerOK, Published
  <2>11. ReleasesOK(b)'
    <3>1. \A x \in Referenced(b) : releases'[b][x] = releases[b][x]
      BY <2>4, <2>5
    <3>2. Published(b) => pointer[b].current \in Referenced(b)
      BY DEF Referenced
    <3>3. \A x \in Ids : Truthful(releases'[b][x].meta, releases'[b][x].manifest)
      BY <1>4, <2>3, <2>4 DEF ReleasesOK, Truthful
    <3> QED BY <1>4, <2>1, <2>6, <3>1, <3>2, <3>3 DEF ReleasesOK, Published
  <2> QED BY <1>0, <1>1, <1>3, <2>1, <2>2, <2>4, <2>9, <2>10, <2>11, GotoLocked,
             Localized DEF Kept
<1>9. CASE ReleaseWritten(w)
  <2> DEFINE c == [cmd[w] EXCEPT !.pc = "commit"]
             r == [state |-> "complete", manifest |-> cmd[w].manifest,
                   meta |-> cmd[w].meta]
  <2>1. /\ Goto(w, c) /\ UNCHANGED <<pointer, legacy, used, torn, planned>>
        /\ cmd[w].pc = "write"
        /\ releases' = [releases EXCEPT ![b][cmd[w].id] = r]
    BY <1>3, <1>9 DEF ReleaseWritten
  <2>2. cmd[w].id \in used[b] \cap Ids
    BY <1>3, <1>4, <2>1 DEF WorkerOK
  <2>3. PICK id \in used[b] \cap Ids : id = cmd[w].id
    BY <2>2
  <2>4. /\ c.build = b /\ c.pc = "commit" /\ c.id = id
        /\ c.retained = cmd[w].retained
        /\ c.applies = cmd[w].applies /\ c.revision = cmd[w].revision
        /\ c.manifest = cmd[w].manifest /\ c.meta = cmd[w].meta
    BY <1>3, <1>4, <2>3 DEF Command
  <2>5. cmd'[w] = c /\ r.meta = cmd[w].meta /\ r.manifest = cmd[w].manifest
        /\ r = [state |-> "complete", manifest |-> c.manifest,
                meta |-> c.meta]
    BY <1>0, <2>1, <2>4 DEF TypeOK, Goto
  <2> HIDE DEF c, r
  <2>6. /\ \A x \in Builds : x # b => SameBuild(x)
        /\ releases'[b] = [releases[b] EXCEPT ![id] = r]
        /\ releases[b] \in [Ids -> Release]
        /\ releases'[b][id] = r
    BY <1>0, <2>1, <2>3 DEF TypeOK, SameBuild
  <2>7. /\ id \notin Referenced(b) /\ HistoryRead(w)
        /\ Truthful(cmd[w].meta, cmd[w].manifest)
        /\ \A i \in DOMAIN cmd[w].retained : cmd[w].retained[i] # id
    BY <1>3, <1>4, <2>1, <2>3 DEF WorkerOK
  <2>8. Referenced(b)' = Referenced(b) /\ Published(b)' = Published(b)
    BY <2>1 DEF Referenced, Published, Retained
  <2>9. HistoryRead(w)'
    <3>1. ASSUME NEW l \in used[b] \cap Ids, cmd[w].retained = <<l>>
          PROVE  releases'[b][l] = releases[b][l]
      <4>1. l # id
        BY <2>7, <3>1
      <4> QED BY <2>6, <4>1
    <3> QED BY <1>3, <2>1, <2>4, <2>5, <2>7, <3>1, HistoryReadKept
  <2>10. WorkerOK(w)'
    BY <1>3, <1>4, <2>1, <2>3, <2>4, <2>5, <2>6, <2>7, <2>8, <2>9
       DEF WorkerOK, Truthful
  <2>11. PointerOK(b)'
    BY <1>4, <2>1 DEF PointerOK, Published
  <2>12. ReleasesOK(b)'
    <3>1. \A x \in Referenced(b) : releases'[b][x] = releases[b][x]
      BY <2>6, <2>7
    <3>2. Published(b) => pointer[b].current \in Referenced(b)
      BY DEF Referenced
    <3>3. \A x \in Ids : Truthful(releases'[b][x].meta, releases'[b][x].manifest)
      BY <1>4, <2>5, <2>6, <2>7 DEF ReleasesOK, Truthful
    <3> QED BY <1>4, <2>1, <2>8, <3>1, <3>2, <3>3 DEF ReleasesOK, Published
  <2> QED BY <1>0, <1>1, <1>3, <2>1, <2>4, <2>6, <2>10, <2>11, <2>12, GotoLocked,
             Localized DEF Kept
<1>10. CASE Commit(w)
  <2> DEFINE c == [cmd[w] EXCEPT !.pc = "sync"]
  <2>1. /\ Goto(w, c) /\ UNCHANGED <<releases, legacy, used, torn, planned>>
        /\ cmd[w].pc = "commit"
        /\ pointer' = [pointer EXCEPT ![b] = [current |-> cmd[w].id,
                                              retained |-> cmd[w].retained,
                                              meta |-> cmd[w].meta]]
    BY <1>3, <1>10 DEF Commit
  <2>2. /\ cmd[w].id \in used[b] \cap Ids /\ HistoryRead(w)
        /\ \A i \in DOMAIN cmd[w].retained : cmd[w].retained[i] # cmd[w].id
        /\ releases[b][cmd[w].id] = [state |-> "complete",
                                     manifest |-> cmd[w].manifest,
                                     meta |-> cmd[w].meta]
    BY <1>3, <1>4, <2>1 DEF WorkerOK
  <2>3. c.build = b /\ c.pc = "sync"
    BY <1>3, <1>4 DEF Command
  <2>4. cmd'[w] = c
    BY <1>0, <2>1 DEF TypeOK, Goto
  <2> HIDE DEF c
  <2>5. /\ \A x \in Builds : x # b => SameBuild(x)
        /\ pointer'[b].current = cmd[w].id
        /\ pointer'[b].retained = cmd[w].retained
        /\ pointer'[b].meta = cmd[w].meta
    BY <1>0, <2>1 DEF TypeOK, SameBuild
  <2>6. Published(b)' /\ Referenced(b)' = {cmd[w].id} \cup Elements(cmd[w].retained)
    BY <2>2, <2>5, NoneIsNoValue DEF Published, Referenced, Retained, Elements
  <2>7. /\ Elements(cmd[w].retained) \subseteq used[b]
        /\ \A i, j \in DOMAIN cmd[w].retained :
             cmd[w].retained[i] = cmd[w].retained[j] => i = j
        /\ Published(b) => Elements(cmd[w].retained) = Referenced(b)
        /\ ~Published(b) =>
             \/ Elements(cmd[w].retained) = {} /\ legacy[b] = None
             \/ \E l \in used[b] \cap Ids :
                  /\ Elements(cmd[w].retained) = {l}
                  /\ releases[b][l].state = "complete"
                  /\ releases[b][l].manifest = legacy[b]
    BY <1>0, <1>3, <1>4, <2>2, HistoryFacts
  <2>8. WorkerOK(w)'
    BY <2>3, <2>4 DEF WorkerOK
  <2>9. PointerOK(b)'
    BY <2>1, <2>2, <2>5, <2>6, <2>7 DEF PointerOK, Elements
  <2>10. ReleasesOK(b)'
    <3>1. b \notin torn => \A x \in Referenced(b)' : releases[b][x].state = "complete"
      BY <1>4, <2>2, <2>6, <2>7 DEF ReleasesOK
    <3>2. b \notin torn /\ legacy[b] # None =>
            \E x \in Referenced(b)' : releases[b][x].manifest = legacy[b]
      <4>1. CASE Published(b)
        BY <1>4, <2>6, <2>7, <4>1 DEF ReleasesOK
      <4>2. CASE ~Published(b)
        BY <2>6, <2>7, <4>2
      <4> QED BY <4>1, <4>2
    <3>3. pointer'[b].meta = releases[b][pointer'[b].current].meta
      BY <2>2, <2>5
    <3> QED BY <1>4, <2>1, <3>1, <3>2, <3>3 DEF ReleasesOK
  <2> QED BY <1>0, <1>1, <1>3, <2>1, <2>3, <2>5, <2>8, <2>9, <2>10, GotoLocked,
             Localized DEF Kept
<1>11. CASE SyncDone(w)
  <2> DEFINE c == [cmd[w] EXCEPT !.pc = "refresh"]
  <2>1. Goto(w, c) /\ UNCHANGED <<diskVars, planned>>
    BY <1>11 DEF SyncDone
  <2>2. c.build = b /\ c.pc = "refresh"
    BY <1>3, <1>4 DEF Command
  <2>3. cmd'[w] = c
    BY <1>0, <2>1 DEF TypeOK, Goto
  <2> HIDE DEF c
  <2>4. WorkerOK(w)'
    BY <2>2, <2>3 DEF WorkerOK
  <2> QED BY <1>0, <1>1, <1>3, <2>1, <2>2, <2>4, GotoLocked, CommandOnly
          DEF Kept
<1> QED BY <1>2, <1>5, <1>6, <1>7, <1>8, <1>9, <1>10, <1>11 DEF ReleaseNext

(* A rollback exchanges the current release with one of the history. *)
LEMMA RollbackHistory ==
  ASSUME TypeOK, NEW b \in Builds, PointerOK(b), Published(b),
         NEW id \in Retained(b)
  PROVE  LET t == <<pointer[b].current>> \o Without(pointer[b].retained, id) IN
         /\ t \in Seq(Ids)
         /\ Elements(t) = Referenced(b) \ {id}
         /\ \A i, j \in DOMAIN t : t[i] = t[j] => i = j
<1> DEFINE p == pointer[b].retained
           x == pointer[b].current
           u == Without(p, id)
           t == <<x>> \o u
<1>1. p \in Seq(Ids) /\ x \in Ids
  BY ReadTypes
<1>2. /\ \A i \in DOMAIN p : p[i] # x
      /\ \A i, j \in DOMAIN p : p[i] = p[j] => i = j
      /\ \E k \in DOMAIN p : p[k] = id
  BY DEF PointerOK, Retained
<1>3. Referenced(b) = {x} \cup Elements(p)
  BY DEF Referenced, Retained, Elements
<1> HIDE DEF p, x
<1>4. /\ u \in Seq(Ids)
      /\ \A j \in DOMAIN u : \E i \in DOMAIN p : p[i] = u[j] /\ p[i] # id
      /\ \A i \in DOMAIN p : p[i] # id => \E j \in DOMAIN u : u[j] = p[i]
      /\ \A i, j \in DOMAIN u : u[i] = u[j] => i = j
  BY <1>1, <1>2, WithoutFacts
<1> HIDE DEF u
<1>5. /\ t \in Seq(Ids)
      /\ DOMAIN t = 1 .. Len(u) + 1 /\ t[1] = x
      /\ \A i \in DOMAIN u : t[i + 1] = u[i]
      /\ \A i \in DOMAIN t : i = 1 \/ (i - 1 \in DOMAIN u /\ t[i] = u[i - 1])
      /\ DOMAIN u = 1 .. Len(u) /\ Len(u) \in Nat
  BY <1>1, <1>4, Prepend
<1> HIDE DEF t
<1>6. \A i \in DOMAIN u : u[i] # x
  BY <1>2, <1>4
<1>7. \A i, j \in DOMAIN t : t[i] = t[j] => i = j
  BY <1>4, <1>5, <1>6
<1>8. Elements(u) = Elements(p) \ {id}
  BY <1>4 DEF Elements
<1>9. Elements(t) = {x} \cup Elements(u)
  <2>1. ASSUME NEW e \in Elements(t)
        PROVE  e \in {x} \cup Elements(u)
    BY <1>5 DEF Elements
  <2>2. x \in Elements(t)
    BY <1>5 DEF Elements
  <2>3. ASSUME NEW i \in DOMAIN u
        PROVE  u[i] \in Elements(t)
    <3>1. i + 1 \in DOMAIN t /\ t[i + 1] = u[i]
      BY <1>5
    <3> QED BY <3>1 DEF Elements
  <2> QED BY <2>1, <2>2, <2>3 DEF Elements
<1>10. x # id
  BY <1>2
<1> QED BY <1>3, <1>5, <1>7, <1>8, <1>9, <1>10 DEF t, u, p, x

(* build-rollback keeps the invariant. *)
LEMMA RollbackStep ==
  ASSUME Inductive, NEW w \in Workers, RollbackNext(w)
  PROVE  Kept
<1>0. TypeOK /\ Locked /\ Builders /\ Commands
  BY DEF Inductive, Builders, Commands
<1>1. PICK b \in Builds, id \in Ids : Rollback(w, b, id)
  BY DEF RollbackNext
<1> DEFINE c == [Idle EXCEPT !.pc = "refresh", !.build = b]
           t == <<pointer[b].current>> \o Without(pointer[b].retained, id)
<1>2. /\ Published(b) /\ id \in Retained(b) /\ Begin(w, b, c)
      /\ pointer' = [pointer EXCEPT ![b] =
           [current |-> id, retained |-> t, meta |-> releases[b][id].meta]]
      /\ UNCHANGED <<releases, legacy, work, used, torn, planned>>
  BY <1>1 DEF Rollback
<1>3. PointerOK(b) /\ ReleasesOK(b)
  BY <1>0 DEF Builders
<1>4. /\ t \in Seq(Ids)
      /\ Elements(t) = Referenced(b) \ {id}
      /\ \A i, j \in DOMAIN t : t[i] = t[j] => i = j
  BY <1>0, <1>2, <1>3, RollbackHistory
<1> HIDE DEF t
<1>5. c \in Command /\ c.build = b /\ c.pc = "refresh"
  BY Constants DEF Command, PC, OrNone, Idle
<1>6. cmd'[w] = c
  BY <1>0, <1>2 DEF TypeOK, Begin
<1> HIDE DEF c
<1>7. /\ \A x \in Builds : x # b => SameBuild(x)
      /\ pointer'[b].current = id /\ pointer'[b].retained = t
      /\ pointer'[b].meta = releases[b][id].meta
  BY <1>0, <1>2 DEF TypeOK, SameBuild
<1>8. Published(b)' /\ Referenced(b)' = {id} \cup Elements(t)
  BY <1>7, NoneIsNoValue DEF Published, Referenced, Retained, Elements
<1>9. Referenced(b)' = Referenced(b) /\ id \in Referenced(b)
  BY <1>2, <1>4, <1>8 DEF Referenced
<1>10. Referenced(b) \subseteq used[b]
  BY <1>3 DEF PointerOK, Referenced, Retained
<1>11. PointerOK(b)'
  BY <1>2, <1>4, <1>7, <1>8, <1>9, <1>10 DEF PointerOK, Elements
<1>12. ReleasesOK(b)'
  BY <1>2, <1>3, <1>7, <1>8, <1>9 DEF ReleasesOK
<1>13. WorkerOK(w)'
  BY <1>5, <1>6 DEF WorkerOK
<1> QED BY <1>0, <1>2, <1>5, <1>7, <1>11, <1>12, <1>13, BeginLocked, Localized
        DEF Kept

(* delete keeps the invariant between any two of its removals. *)
LEMMA DeleteStep ==
  ASSUME Inductive, NEW w \in Workers, DeleteNext(w)
  PROVE  Kept
<1>0. TypeOK /\ Locked /\ Builders /\ Commands
  BY DEF Inductive, Builders, Commands
<1>1. ASSUME NEW b \in Builds, DeleteStart(w, b)
      PROVE  Kept
  <2> DEFINE c == [Idle EXCEPT !.pc = "remove", !.build = b]
  <2>1. Begin(w, b, c) /\ UNCHANGED <<diskVars, planned>>
    BY <1>1 DEF DeleteStart
  <2>2. c \in Command /\ c.build = b /\ c.pc = "remove"
    BY Constants DEF Command, PC, OrNone, Idle
  <2>3. cmd'[w] = c
    BY <1>0, <2>1 DEF TypeOK, Begin
  <2> HIDE DEF c
  <2>4. WorkerOK(w)'
    BY <2>2, <2>3 DEF WorkerOK
  <2> QED BY <1>0, <2>1, <2>2, <2>4, BeginLocked, CommandOnly DEF Kept
<1>2. ASSUME cmd[w].pc = "remove", UNCHANGED <<legacy, used, planned, busy, cmd>>,
             NEW b \in Builds, b = cmd[w].build,
             \A x \in Builds : x # b => SameBuild(x),
             PointerOK(b)', ReleasesOK(b)'
      PROVE  Kept
  <2>1. Locked'
    BY <1>0, <1>2 DEF Locked, Active
  <2>2. \A v \in Workers : v # w =>
          cmd'[v] = cmd[v] /\ (Active(v) => cmd[v].build # b)
    BY <1>0, <1>2 DEF Locked, Active
  <2>3. WorkerOK(w)'
    BY <1>2 DEF WorkerOK
  <2> QED BY <1>0, <1>2, <2>1, <2>2, <2>3, Localized DEF Kept
<1>3. ASSUME NEW b \in Builds, b = cmd[w].build, RemovePointer(w)
      PROVE  Kept
  <2>1. /\ pointer' = [pointer EXCEPT ![b] = NoPointer] /\ torn' = torn \ {b}
        /\ UNCHANGED <<releases, legacy, used, planned, busy, cmd>>
        /\ cmd[w].pc = "remove"
    BY <1>3 DEF RemovePointer
  <2>2. pointer'[b] = NoPointer /\ \A x \in Builds : x # b => SameBuild(x)
    BY <1>0, <2>1 DEF TypeOK, SameBuild
  <2>3. Referenced(b)' = {} /\ ~Published(b)'
    BY <2>2 DEF Referenced, Published, NoPointer
  <2>4. PointerOK(b)'
    BY <2>2, <2>3 DEF PointerOK, NoPointer
  <2>5. ReleasesOK(b)'
    BY <1>0, <2>1, <2>3 DEF ReleasesOK, Builders
  <2> QED BY <1>2, <1>3, <2>1, <2>2, <2>4, <2>5
<1>4. ASSUME NEW b \in Builds, b = cmd[w].build, NEW id \in Ids,
             RemoveRelease(w, id)
      PROVE  Kept
  <2>1. /\ torn' = IF Published(b) THEN torn \cup {b} ELSE torn
        /\ UNCHANGED <<pointer, legacy, used, planned, busy, cmd>>
        /\ cmd[w].pc = "remove"
        /\ \/ releases' = [releases EXCEPT ![b][id].state = "torn"]
           \/ releases' = [releases EXCEPT ![b][id] = NoRelease]
    BY <1>4 DEF RemoveRelease
  <2>2. PointerOK(b) /\ ReleasesOK(b)
    BY <1>0 DEF Builders
  <2>3. \A x \in Builds : x # b => SameBuild(x)
    BY <1>0, <2>1 DEF TypeOK, SameBuild
  <2>4. releases[b] \in [Ids -> Release] /\ releases[b][id] \in Release
    BY <1>0 DEF TypeOK
  <2>5. \A x \in Ids : Truthful(releases'[b][x].meta, releases'[b][x].manifest)
    <3>1. CASE releases' = [releases EXCEPT ![b][id].state = "torn"]
      <4>1. /\ releases'[b][id].meta = releases[b][id].meta
            /\ releases'[b][id].manifest = releases[b][id].manifest
            /\ \A x \in Ids : x # id => releases'[b][x] = releases[b][x]
        BY <1>0, <2>4, <3>1 DEF TypeOK, Release
      <4> QED BY <2>2, <4>1 DEF ReleasesOK
    <3>2. CASE releases' = [releases EXCEPT ![b][id] = NoRelease]
      <4>1. /\ releases'[b][id] = NoRelease
            /\ \A x \in Ids : x # id => releases'[b][x] = releases[b][x]
        BY <1>0, <2>4, <3>2 DEF TypeOK
      <4>2. Truthful(NoRelease.meta, NoRelease.manifest)
        BY DEF Truthful, NoRelease, NoMeta
      <4> QED BY <2>2, <4>1, <4>2 DEF ReleasesOK
    <3> QED BY <2>1, <3>1, <3>2
  <2>6. PointerOK(b)'
    BY <2>1, <2>2 DEF PointerOK, Published
  <2>7. b \in torn' \/ (Referenced(b)' = {} /\ ~Published(b)')
    BY <2>1 DEF Referenced, Published
  <2>8. ReleasesOK(b)'
    BY <2>5, <2>7 DEF ReleasesOK
  <2> QED BY <1>2, <1>4, <2>1, <2>3, <2>6, <2>8
<1>5. ASSUME NEW b \in Builds, b = cmd[w].build, NEW d \in Trees,
             RemoveTree(w, d)
      PROVE  Kept
  <2>1. /\ UNCHANGED <<pointer, releases, legacy, used, torn, planned, busy, cmd>>
        /\ cmd[w].pc = "remove"
    BY <1>5 DEF RemoveTree
  <2>2. \A x \in Builds : SameBuild(x)
    BY <2>1 DEF SameBuild
  <2>3. PointerOK(b)' /\ ReleasesOK(b)'
    BY <1>0, <2>2, BuildKept DEF Builders
  <2> QED BY <1>2, <1>5, <2>1, <2>2, <2>3
<1>6. ASSUME NEW b \in Builds, b = cmd[w].build, DirectoryRemoved(w)
      PROVE  Kept
  <2> DEFINE c == [cmd[w] EXCEPT !.pc = "flat"]
  <2>1. Active(w) /\ Goto(w, c) /\ UNCHANGED <<diskVars, planned>>
    BY <1>6 DEF DirectoryRemoved, Active
  <2>2. c.build = b /\ c.pc = "flat"
    BY <1>0, <1>6 DEF TypeOK, Command
  <2>3. cmd'[w] = c
    BY <1>0, <2>1 DEF TypeOK, Goto
  <2> HIDE DEF c
  <2>4. WorkerOK(w)'
    BY <2>2, <2>3 DEF WorkerOK
  <2> QED BY <1>0, <1>6, <2>1, <2>2, <2>4, GotoLocked, CommandOnly DEF Kept
<1>7. ASSUME NEW b \in Builds, b = cmd[w].build, FlatRemoved(w)
      PROVE  Kept
  <2> DEFINE c == [cmd[w] EXCEPT !.pc = "refresh"]
  <2>1. /\ Active(w) /\ Goto(w, c)
        /\ UNCHANGED <<pointer, releases, used, torn, planned>>
        /\ legacy' = [legacy EXCEPT ![b] = None] \/ legacy' = legacy
    BY <1>7 DEF FlatRemoved, Active
  <2>2. c.build = b /\ c.pc = "refresh"
    BY <1>0, <1>7 DEF TypeOK, Command
  <2>3. cmd'[w] = c
    BY <1>0, <2>1 DEF TypeOK, Goto
  <2> HIDE DEF c
  <2>4. WorkerOK(w)'
    BY <2>2, <2>3 DEF WorkerOK
  <2>5. /\ \A x \in Builds : x # b => SameBuild(x)
        /\ legacy'[b] \in {None, legacy[b]}
    BY <1>0, <2>1 DEF TypeOK, SameBuild
  <2>6. PointerOK(b)' /\ ReleasesOK(b)'
    BY <1>0, <2>1, <2>5 DEF Builders, PointerOK, ReleasesOK, Published,
                            Referenced, Retained
  <2> QED BY <1>0, <1>7, <2>1, <2>2, <2>4, <2>5, <2>6, GotoLocked, Localized
          DEF Kept
<1>8. ASSUME cmd[w].pc # "idle" PROVE cmd[w].build \in Builds
  BY <1>0, <1>8, ActiveBuild
<1>9. RemovePointer(w) \/ (\E id \in Ids : RemoveRelease(w, id))
      \/ (\E d \in Trees : RemoveTree(w, d)) \/ DirectoryRemoved(w)
      \/ FlatRemoved(w) => cmd[w].build \in Builds
  BY <1>8 DEF RemovePointer, RemoveRelease, RemoveTree, DirectoryRemoved,
              FlatRemoved
<1> QED BY <1>1, <1>3, <1>4, <1>5, <1>6, <1>7, <1>9 DEF DeleteNext

(* Steps that are no command's: the operator's files, plans, a restart. *)
LEMMA OtherStep ==
  ASSUME Inductive, FilesNext \/ PlanNext \/ Crash \/ UNCHANGED vars
  PROVE  Kept
<1>0. TypeOK /\ Locked /\ Builders /\ Commands
  BY DEF Inductive, Builders, Commands
<1>1. ASSUME UNCHANGED <<pointer, releases, legacy, used, torn, planned, busy, cmd>>
      PROVE  Kept
  <2>1. \A x : SameBuild(x)
    BY <1>1 DEF SameBuild
  <2>2. Builders'
    BY <1>0, <2>1, BuildKept DEF Builders
  <2>3. Locked'
    BY <1>0, <1>1 DEF Locked, Active
  <2>4. Commands'
    BY <1>0, <1>1, <2>1, WorkerKept DEF Commands, Active
  <2> QED BY <2>2, <2>3, <2>4 DEF Kept
<1>2. ASSUME NEW b \in Builds, NEW c \in Contents, Install(b, c)
      PROVE  Kept
  BY <1>1, <1>2 DEF Install
<1>3. ASSUME NEW b \in Builds, NEW c \in Contents, NEW d \in Trees,
             EditFiles(b, d, c)
      PROVE  Kept
  <2>1. PICK mixed \in Contents :
          cmd' = [w \in Workers |->
                    IF Reading(w, b) THEN [cmd[w] EXCEPT !.manifest = mixed]
                                     ELSE cmd[w]]
    BY <1>3 DEF EditFiles
  <2>2. UNCHANGED <<pointer, releases, legacy, used, torn, planned, busy>>
    BY <1>3 DEF EditFiles
  <2>3. \A x : SameBuild(x)
    BY <2>2 DEF SameBuild
  <2>4. ASSUME NEW w \in Workers
        PROVE  /\ cmd'[w].pc = cmd[w].pc /\ cmd'[w].build = cmd[w].build
               /\ cmd'[w].applies = cmd[w].applies
               /\ cmd'[w].meta = cmd[w].meta
               /\ cmd'[w].pc # "build" => cmd'[w] = cmd[w]
    <3>1. cmd[w] \in Command
      BY <1>0 DEF TypeOK
    <3> QED BY <2>1, <3>1 DEF Reading, Command
  <2>5. Builders'
    BY <1>0, <2>3, BuildKept DEF Builders
  <2>6. Locked'
    BY <1>0, <2>2, <2>4 DEF Locked, Active
  <2>7. ASSUME NEW w \in Workers, Active(w)'
        PROVE  WorkerOK(w)'
    <3>1. Active(w) /\ WorkerOK(w)
      BY <1>0, <2>4, <2>7 DEF Active, Commands
    <3>2. CASE cmd[w].pc = "build"
      BY <2>4, <3>1, <3>2 DEF WorkerOK
    <3>3. CASE cmd[w].pc # "build"
      BY <2>3, <2>4, <3>1, <3>3, WorkerKept
    <3> QED BY <3>2, <3>3
  <2> QED BY <2>5, <2>6, <2>7 DEF Kept, Commands
<1>4. ASSUME NEW b \in Builds, NEW i \in Inputs, PlanBuild(b, i)
      PROVE  Kept
  <2>1. /\ UNCHANGED <<pointer, releases, legacy, used, torn, busy, cmd>>
        /\ b \notin busy
        /\ \A x \in Builds : x # b => planned'[x] = planned[x]
    BY <1>0, <1>4 DEF PlanBuild, Alone, TypeOK
  <2>2. Builders'
    BY <1>0, <2>1 DEF Builders, PointerOK, ReleasesOK, Published, Referenced,
                      Retained
  <2>3. Locked'
    BY <1>0, <2>1 DEF Locked, Active
  <2>4. ASSUME NEW w \in Workers, Active(w)'
        PROVE  WorkerOK(w)'
    <3>1. Active(w) /\ WorkerOK(w) /\ cmd'[w] = cmd[w]
      BY <1>0, <2>1, <2>4 DEF Active, Commands
    <3>2. cmd[w].build \in Builds /\ cmd[w].build # b
      BY <1>0, <2>1, <3>1, ActiveBuild DEF Locked, Active
    <3>3. SameBuild(cmd[w].build)
      BY <2>1, <3>2 DEF SameBuild
    <3> QED BY <3>1, <3>3, WorkerKept
  <2> QED BY <2>2, <2>3, <2>4 DEF Kept, Commands
<1>5. CASE Crash
  <2>1. UNCHANGED <<diskVars, planned>> /\ \A w \in Workers : ~Active(w)'
    BY <1>5 DEF Crash, Active, Idle
  <2>2. \A x : SameBuild(x)
    BY <2>1 DEF SameBuild, diskVars
  <2>3. Builders'
    BY <1>0, <2>2, BuildKept DEF Builders
  <2> QED BY <2>1, <2>3 DEF Kept, Locked, Commands
<1>6. CASE UNCHANGED vars
  BY <1>1, <1>6 DEF vars
<1> QED BY <1>2, <1>3, <1>4, <1>5, <1>6 DEF FilesNext, PlanNext

-----------------------------------------------------------------------------
(* The inductive invariant holds of a server that has published nothing yet. *)
THEOREM InductiveInit == Init => Inductive
<1> SUFFICES ASSUME Init
             PROVE  Inductive
  OBVIOUS
<1>1. TypeOK
  BY Constants DEF Init, TypeOK, OrNone, Revisions, NoRevision
<1>2. \A w \in Workers : ~Active(w)
  <2>1. cmd = [w \in Workers |-> Idle]
    BY DEF Init
  <2> QED BY <2>1 DEF Active, Idle
<1>3. \A b \in Builds : pointer[b] = NoPointer
  <2>1. pointer = [b \in Builds |-> NoPointer]
    BY DEF Init
  <2> QED BY <2>1
<1>4. ASSUME NEW b \in Builds
      PROVE  ~Published(b) /\ Referenced(b) = {} /\ PointerOK(b)
  <2>1. pointer[b].current = None /\ pointer[b].retained = <<>>
    BY <1>3 DEF NoPointer
  <2>2. ~Published(b) /\ Referenced(b) = {}
    BY <2>1 DEF Published, Referenced
  <2> QED BY <1>3, <2>1, <2>2 DEF PointerOK
<1>5. \A b \in Builds : PointerOK(b)
  BY <1>4
<1>6. \A b \in Builds : ReleasesOK(b)
  BY <1>4 DEF ReleasesOK, Init, Truthful, NoRelease, NoMeta
<1> QED BY <1>1, <1>2, <1>5, <1>6 DEF Inductive, Locked

(* Every step of a command, of the operator and of a restart keeps it. *)
THEOREM InductiveStep == Inductive /\ [Next]_vars => Inductive'
<1> SUFFICES ASSUME Inductive, [Next]_vars
             PROVE  Inductive'
  OBVIOUS
<1>1. TypeOK'
  BY TypeStep DEF Inductive
<1>2. Kept
  BY FinishStep, PublishStep, ApplyStep, ReleaseStep, RollbackStep, DeleteStep,
     OtherStep DEF Next, CommandNext
<1> QED BY <1>1, <1>2 DEF Kept, Inductive, Builders, Commands

(***************************************************************************)
(* The invariant holds of every reachable state: whatever commands run     *)
(* concurrently, fail or are cut off by a restart, on any number of builds *)
(* and workers.                                                            *)
(***************************************************************************)
THEOREM InductiveInvariant == Spec => []Inductive
BY InductiveInit, InductiveStep, PTL DEF Spec

(***************************************************************************)
(* All variables keep their types.                                         *)
(***************************************************************************)
THEOREM TypeCorrect == Spec => []TypeOK
<1>1. Inductive => TypeOK
  BY DEF Inductive
<1> QED BY <1>1, InductiveInvariant, PTL

(***************************************************************************)
(* ReadRelease accepts every pointer the commands write.                   *)
(***************************************************************************)
THEOREM HistoryAlwaysReadable == Spec => []HistoryReadable
<1>1. Inductive => HistoryReadable
  BY DEF Inductive, HistoryReadable, PointerOK
<1> QED BY <1>1, InductiveInvariant, PTL

(***************************************************************************)
(* Every release the pointer names is completely written, unless delete    *)
(* has started to remove the build.                                        *)
(***************************************************************************)
THEOREM ReferencedAlwaysComplete == Spec => []ReferencedComplete
<1>1. Inductive => ReferencedComplete
  BY DEF Inductive, ReferencedComplete, ReleasesOK
<1> QED BY <1>1, InductiveInvariant, PTL

(***************************************************************************)
(* A publication of the old format stays available for rollback.           *)
(***************************************************************************)
THEOREM LegacyAlwaysKept == Spec => []LegacyKept
<1>1. Inductive => LegacyKept
  BY DEF Inductive, LegacyKept, ReleasesOK
<1> QED BY <1>1, InductiveInvariant, PTL

(***************************************************************************)
(* noOp is answered only when the served release was built from that       *)
(* description and the tree still is what was published.                   *)
(***************************************************************************)
THEOREM NoOpAlwaysSound == Spec => []NoOpSound
<1>1. ASSUME Inductive, NEW b \in Builds, NEW i \in Inputs, NoOp(b, i),
             b \notin torn
      PROVE  /\ releases[b][pointer[b].current].manifest = Tree(b)
             /\ releases[b][pointer[b].current].meta.input = i
  <2>1. /\ Published(b) /\ pointer[b].meta.input = i
        /\ pointer[b].meta.digest = Tree(b)
    BY <1>1 DEF NoOp
  <2>2. pointer[b].meta = releases[b][pointer[b].current].meta
    BY <1>1, <2>1 DEF Inductive, ReleasesOK
  <2>3. pointer[b].current \in Ids
    BY <1>1, <2>1, ReadTypes DEF Inductive
  <2>4. Truthful(pointer[b].meta, releases[b][pointer[b].current].manifest)
    BY <1>1, <2>2, <2>3 DEF Inductive, ReleasesOK
  <2> QED BY <2>1, <2>2, <2>4, NoneIsNoValue DEF Truthful
<1>2. Inductive => NoOpSound
  BY <1>1 DEF NoOpSound
<1> QED BY <1>2, InductiveInvariant, PTL

(***************************************************************************)
(* build-apply replaces only the publication its plan was made for.        *)
(***************************************************************************)
THEOREM ApplyAlwaysReplacesPlanned == Spec => []ApplyReplacesPlanned
<1>1. Inductive => ApplyReplacesPlanned
  BY DEF Inductive, ApplyReplacesPlanned, WorkerOK, Active
<1> QED BY <1>1, InductiveInvariant, PTL

-----------------------------------------------------------------------------
(***************************************************************************)
(* Which steps touch the pointer and the release directories.              *)
(***************************************************************************)
LEMMA PointerChanges ==
  ASSUME Inductive, [Next]_vars
  PROVE  \/ pointer' = pointer
         \/ \E w \in Workers : Commit(w)
         \/ \E w \in Workers, b \in Builds, id \in Ids : Rollback(w, b, id)
         \/ \E w \in Workers : RemovePointer(w)
<1>1. FilesNext \/ PlanNext \/ Crash \/ UNCHANGED vars => pointer' = pointer
  BY DEF FilesNext, PlanNext, Install, EditFiles, PlanBuild, Crash, diskVars, vars
<1>2. ASSUME NEW w \in Workers
      PROVE  PublishNext(w) \/ ApplyNext(w) \/ Fail(w) \/ Refresh(w)
               => pointer' = pointer
  BY DEF PublishNext, ApplyNext, Fail, Refresh, PublishStart, PublishBuilt,
         ApplyStart, ApplyStage, ApplyCheck, ApplyMove, diskVars
<1>3. ASSUME NEW w \in Workers, ReleaseNext(w)
      PROVE  pointer' = pointer \/ Commit(w)
  BY <1>3 DEF ReleaseNext, ReadPrevious, LegacyDirectory, LegacyWritten,
              ReleaseDirectory, ReleaseWritten, SyncDone, SyncFailed, diskVars
<1>4. ASSUME NEW w \in Workers, DeleteNext(w)
      PROVE  pointer' = pointer \/ RemovePointer(w)
  BY <1>4 DEF DeleteNext, DeleteStart, RemoveRelease, RemoveTree,
              DirectoryRemoved, FlatRemoved, diskVars
<1> QED BY <1>1, <1>2, <1>3, <1>4 DEF Next, CommandNext, RollbackNext

(***************************************************************************)
(* The pointer files implement the promise of ReleaseHistory.              *)
(***************************************************************************)
THEOREM RefinesHistory == Spec => ImplementsHistory
<1> DEFINE cur == [b \in Builds |-> pointer[b].current]
           his == [b \in Builds |-> Retained(b)]
<1>1. Init => History!Init
  <2> SUFFICES ASSUME Init
               PROVE  History!Init
    OBVIOUS
  <2>1. pointer = [b \in Builds |-> NoPointer]
    BY DEF Init
  <2>2. \A b \in Builds : pointer[b].current = None /\ pointer[b].retained = <<>>
    BY <2>1 DEF NoPointer
  <2>3. ASSUME NEW b \in Builds
        PROVE  Retained(b) = {}
    <3>1. DOMAIN pointer[b].retained = {}
      BY <2>2
    <3> QED BY <3>1 DEF Retained
  <2> QED BY <2>2, <2>3 DEF History!Init
<1>2. Inductive /\ [Next]_vars => [History!Next]_(History!historyVars)
  <2> SUFFICES ASSUME Inductive, [Next]_vars
               PROVE  History!Next \/ UNCHANGED History!historyVars
    BY DEF History!historyVars
  <2>0. TypeOK /\ \A b \in Builds : PointerOK(b)
    BY DEF Inductive
  <2>1. CASE pointer' = pointer
    BY <2>1 DEF History!historyVars, Retained
  <2>2. ASSUME NEW b \in Builds, NEW p, pointer' = [pointer EXCEPT ![b] = p]
        PROVE  /\ cur' = [cur EXCEPT ![b] = p.current]
               /\ his' = [his EXCEPT ![b] = Elements(p.retained)]
    <3>1. pointer'[b] = p /\ \A x \in Builds : x # b => pointer'[x] = pointer[x]
      BY <2>0, <2>2 DEF TypeOK
    <3>2. \A x \in Builds : x # b => Retained(x)' = Retained(x)
      BY <3>1 DEF Retained
    <3>3. Retained(b)' = Elements(p.retained)
      BY <3>1 DEF Retained, Elements
    <3>4. his' = [x \in Builds |-> Retained(x)']
      OBVIOUS
    <3> QED BY <3>1, <3>2, <3>3, <3>4
  <2>3. ASSUME NEW w \in Workers, Commit(w)
        PROVE  History!Next
    <3>1. PICK b \in Builds : b = cmd[w].build
      BY <2>3, ActiveBuild DEF Commit, Inductive
    <3>2. PICK id \in Ids : id = cmd[w].id
      BY <2>3, <3>1 DEF Commit, Inductive, Active, WorkerOK
    <3>3. /\ cmd[w].pc = "commit" /\ WorkerOK(w)
          /\ pointer' = [pointer EXCEPT ![b] =
               [current |-> id, retained |-> cmd[w].retained,
                meta |-> cmd[w].meta]]
      BY <2>3, <3>1, <3>2 DEF Commit, Inductive, Active
    <3>4. /\ cur' = [cur EXCEPT ![b] = id]
          /\ his' = [his EXCEPT ![b] = Elements(cmd[w].retained)]
      <4> DEFINE p == [current |-> id, retained |-> cmd[w].retained,
                       meta |-> cmd[w].meta]
      <4>1. p.current = id /\ p.retained = cmd[w].retained
        OBVIOUS
      <4>2. pointer' = [pointer EXCEPT ![b] = p]
        BY <3>3
      <4> HIDE DEF p
      <4>3. /\ cur' = [cur EXCEPT ![b] = p.current]
            /\ his' = [his EXCEPT ![b] = Elements(p.retained)]
        BY <2>2, <4>2
      <4> QED BY <4>1, <4>3
    <3>5. HistoryRead(w) /\ id \notin Elements(cmd[w].retained)
      BY <3>2, <3>3 DEF WorkerOK, Elements
    <3>6. /\ Published(b) => Elements(cmd[w].retained) = Referenced(b)
          /\ ~Published(b) =>
               Elements(cmd[w].retained) \in {{}} \cup {{l} : l \in Ids}
      BY <2>0, <3>1, <3>5, HistoryFacts
    <3>7. CASE Published(b)
      <4>1. cur[b] # None /\ id \notin his[b] \cup {cur[b]}
        BY <3>5, <3>6, <3>7 DEF Published, Referenced
      <4>2. his' = [his EXCEPT ![b] = @ \cup {cur[b]}]
        <5>1. Elements(cmd[w].retained) = his[b] \cup {cur[b]}
          BY <3>6, <3>7 DEF Referenced
        <5> QED BY <3>4, <5>1
      <4> QED BY <3>4, <4>1, <4>2 DEF History!Next, History!PublishNext
    <3>8. CASE ~Published(b)
      <4>1. cur[b] = None
        BY <3>8 DEF Published
      <4> QED BY <3>4, <3>5, <3>6, <3>8, <4>1
              DEF History!Next, History!PublishFirst
    <3> QED BY <3>7, <3>8
  <2>4. ASSUME NEW w \in Workers, NEW b \in Builds, NEW id \in Ids,
               Rollback(w, b, id)
        PROVE  History!Next
    <3> DEFINE t == <<pointer[b].current>> \o Without(pointer[b].retained, id)
    <3>1. /\ Published(b) /\ id \in Retained(b)
          /\ pointer' = [pointer EXCEPT ![b] =
               [current |-> id, retained |-> t,
                meta |-> releases[b][id].meta]]
      BY <2>4 DEF Rollback
    <3>2. Elements(t) = Referenced(b) \ {id}
      BY <2>0, <3>1, RollbackHistory
    <3> HIDE DEF t
    <3>3. /\ cur' = [cur EXCEPT ![b] = id]
          /\ his' = [his EXCEPT ![b] = Elements(t)]
      <4> DEFINE p == [current |-> id, retained |-> t,
                       meta |-> releases[b][id].meta]
      <4>1. p.current = id /\ p.retained = t
        OBVIOUS
      <4>2. pointer' = [pointer EXCEPT ![b] = p]
        BY <3>1
      <4> HIDE DEF p
      <4> QED BY <2>2, <4>1, <4>2
    <3>4. id # cur[b] /\ id \in his[b]
      BY <2>0, <3>1 DEF PointerOK, Retained
    <3>5. Elements(t) = (his[b] \ {id}) \cup {cur[b]}
      BY <3>1, <3>2, <3>4 DEF Referenced
    <3>6. his' = [his EXCEPT ![b] = (@ \ {id}) \cup {cur[b]}]
      BY <3>3, <3>5
    <3> QED BY <3>3, <3>4, <3>6 DEF History!Next, History!Rollback
  <2>5. ASSUME NEW w \in Workers, RemovePointer(w)
        PROVE  History!Next
    <3>1. PICK b \in Builds : b = cmd[w].build
      BY <2>5, ActiveBuild DEF RemovePointer, Inductive
    <3>2. Published(b) /\ pointer' = [pointer EXCEPT ![b] = NoPointer]
      BY <2>5, <3>1 DEF RemovePointer
    <3>3. /\ cur' = [cur EXCEPT ![b] = NoPointer.current]
          /\ his' = [his EXCEPT ![b] = Elements(NoPointer.retained)]
      BY <2>2, <3>2
    <3>4. NoPointer.current = None /\ Elements(NoPointer.retained) = {}
      BY DEF NoPointer, Elements
    <3>5. cur' = [cur EXCEPT ![b] = None] /\ his' = [his EXCEPT ![b] = {}]
      BY <3>3, <3>4
    <3>6. cur[b] # None
      BY <3>2 DEF Published
    <3> QED BY <3>5, <3>6 DEF History!Next, History!Withdraw
  <2> QED BY <2>1, <2>3, <2>4, <2>5, PointerChanges
<1> QED BY <1>1, <1>2, InductiveInvariant, PTL
        DEF Spec, ImplementsHistory, History!Spec

(***************************************************************************)
(* A published release is never rewritten while it is in the history.      *)
(***************************************************************************)
THEOREM PublishedNeverRewritten == Spec => PublishedImmutable
<1> DEFINE Same == \A b \in Builds : \A id \in Referenced(b) :
                     \/ id \notin Referenced(b)'
                     \/ b \in torn'
                     \/ releases'[b][id] = releases[b][id]
<1>1. Inductive /\ [Next]_vars => [Same]_vars
  <2> SUFFICES ASSUME Inductive, [Next]_vars
               PROVE  Same
    OBVIOUS
  <2>0. TypeOK /\ \A b \in Builds : PointerOK(b)
    BY DEF Inductive
  <2>1. CASE releases' = releases
    BY <2>1
  <2>2. ASSUME NEW b \in Builds, NEW id \in Ids, id \notin Referenced(b), NEW r,
               releases' = [releases EXCEPT ![b][id] = r]
        PROVE  Same
    BY <2>0, <2>2 DEF TypeOK
  <2>3. ASSUME NEW w \in Workers, NEW id \in Ids,
               LegacyDirectory(w, id) \/ ReleaseDirectory(w, id)
        PROVE  Same
    <3>1. PICK b \in Builds : b = cmd[w].build
      BY <2>3, ActiveBuild DEF LegacyDirectory, ReleaseDirectory, Inductive
    <3>2. MakeDirectory(b, id)
      BY <2>3, <3>1 DEF LegacyDirectory, ReleaseDirectory
    <3>3. id \notin Referenced(b)
      BY <2>0, <3>2, FreshId DEF MakeDirectory
    <3> QED BY <2>2, <3>2, <3>3 DEF MakeDirectory
  <2>4. ASSUME NEW w \in Workers, LegacyWritten(w) \/ ReleaseWritten(w)
        PROVE  Same
    <3>1. PICK b \in Builds : b = cmd[w].build
      BY <2>4, ActiveBuild DEF LegacyWritten, ReleaseWritten, Inductive
    <3>2. cmd[w].id \in Ids /\ cmd[w].id \notin Referenced(b)
      BY <2>4, <3>1 DEF LegacyWritten, ReleaseWritten, Inductive, Active, WorkerOK
    <3>3. PICK id \in Ids : id = cmd[w].id
      BY <3>2
    <3>4. \E r : releases' = [releases EXCEPT ![b][id] = r]
      BY <2>4, <3>1, <3>3 DEF LegacyWritten, ReleaseWritten
    <3> QED BY <2>2, <3>2, <3>3, <3>4
  <2>5. ASSUME NEW w \in Workers, NEW id \in Ids, RemoveRelease(w, id)
        PROVE  Same
    <3>1. PICK b \in Builds : b = cmd[w].build
      BY <2>5, ActiveBuild DEF RemoveRelease, Inductive
    <3>2. \A x \in Builds : x # b => releases'[x] = releases[x]
      BY <2>0, <2>5, <3>1 DEF RemoveRelease, TypeOK
    <3>3. Published(b) => b \in torn'
      BY <2>5, <3>1 DEF RemoveRelease
    <3>4. ~Published(b) => Referenced(b) = {}
      BY DEF Referenced
    <3> QED BY <3>2, <3>3, <3>4
  <2>6. \/ releases' = releases
        \/ \E w \in Workers, id \in Ids :
             \/ LegacyDirectory(w, id)
             \/ ReleaseDirectory(w, id)
             \/ RemoveRelease(w, id)
        \/ \E w \in Workers : LegacyWritten(w) \/ ReleaseWritten(w)
    <3>1. FilesNext \/ PlanNext \/ Crash \/ UNCHANGED vars => releases' = releases
      BY DEF FilesNext, PlanNext, Install, EditFiles, PlanBuild, Crash, diskVars,
             vars
    <3>2. ASSUME NEW w \in Workers
          PROVE  PublishNext(w) \/ ApplyNext(w) \/ Fail(w) \/ Refresh(w)
                   \/ RollbackNext(w) => releases' = releases
      BY DEF PublishNext, ApplyNext, Fail, Refresh, PublishStart, PublishBuilt,
             ApplyStart, ApplyStage, ApplyCheck, ApplyMove, RollbackNext,
             Rollback, diskVars
    <3>3. ASSUME NEW w \in Workers, ReleaseNext(w)
          PROVE  \/ releases' = releases
                 \/ \E id \in Ids : LegacyDirectory(w, id)
                                     \/ ReleaseDirectory(w, id)
                 \/ LegacyWritten(w) \/ ReleaseWritten(w)
      BY <3>3 DEF ReleaseNext, ReadPrevious, Commit, SyncDone, SyncFailed,
                  diskVars
    <3>4. ASSUME NEW w \in Workers, DeleteNext(w)
          PROVE  releases' = releases \/ \E id \in Ids : RemoveRelease(w, id)
      BY <3>4 DEF DeleteNext, DeleteStart, RemovePointer, RemoveTree,
                  DirectoryRemoved, FlatRemoved, diskVars
    <3> QED BY <3>1, <3>2, <3>3, <3>4 DEF Next, CommandNext
  <2> QED BY <2>1, <2>3, <2>4, <2>5, <2>6
<1> QED BY <1>1, InductiveInvariant, PTL DEF Spec, PublishedImmutable
=============================================================================
