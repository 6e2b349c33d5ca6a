--------------------------- MODULE LauncherRelease ---------------------------
(***************************************************************************)
(* The server's own release and the players' launcher: selfupdate replaces *)
(* the server's binary by a newer one from GitHub, a restarted server      *)
(* rebuilds the launcher for its version (launchersvc.Catch), publish      *)
(* signs a launcher release into two files, and Releases.Current serves    *)
(* the pair from a cache.  Versions are numbers.                           *)
(***************************************************************************)
EXTENDS Integers, Sequences, FiniteSets

CONSTANTS Updaters,    \* watchUpdates, the update command
          Releasers,  \* launcher build, launcher publish and Catch
          Readers,     \* API calls that ask for the launcher
          MaxVersion,  \* releases on GitHub
          MaxTrouble   \* failures and restarts

ASSUME LauncherAssumption == MaxVersion \in Nat \ {0} /\ MaxTrouble \in Nat

VARIABLES currentVersion,     \* version.Current of the process, 0 when it cannot start
          target, previous,  \* the files at BinaryPath and beside it (.old)
          update,      \* updater -> where it is in Run and Apply
          templates,   \* server versions whose launcher templates are on disk
          folder,      \* version -> launcher files in its folder
          publishing,  \* publisher -> where it is in build and publish
          release, signature,  \* current.release and current.release.sig
          cached,      \* Releases.cached
          reading,     \* reader -> what it has read in Current
          answered,    \* reader -> the pair Current returned to it last
          halfDone,    \* history: a publish stopped between its two files, or another one came
                       \* between, and none was whole and alone since
          clashed,     \* history: an update removed .old while nothing was at the path
          stranded,    \* history: an update could not put the binary back
          mishaps

binaryVars == <<currentVersion, target, previous, update, clashed, stranded>>
releaseVars == <<templates, folder, publishing, release, signature, halfDone>>
readVars == <<cached, reading, answered>>
launcherVars == <<binaryVars, releaseVars, readVars, mishaps>>

Versions == 1..MaxVersion
Missing == 0
Templates == {"linux", "windows", "mac"}

\* A file of the binary: the version it says it is, and whether it is what the release holds.
Binary(v) == [version |-> v, whole |-> TRUE]
NoBinary == [version |-> Missing, whole |-> FALSE]
\* A release file: its version and which write it was, for the file's time and size.
NoRelease == [version |-> Missing, write |-> 0]

Sleeping == [pc |-> "idle", version |-> Missing]
NotReading == [pc |-> "idle"]

----------------------------------------------------------------------------
(* selfupdate *)

(* Latest, asked again every interval: only a newer version is downloaded. *)
Latest(u) ==
    /\ currentVersion # Missing /\ update[u] = Sleeping
    /\ \E v \in Versions : /\ v > currentVersion
                           /\ update' = [update EXCEPT ![u] = [pc |-> "download", version |-> v]]
    /\ UNCHANGED <<currentVersion, target, previous, clashed, stranded, releaseVars, readVars, mishaps>>

(* ghrelease.Download and verifyVersion: the checksum of the release and   *)
(* the version the file says must be right, else nothing of it is kept.    *)
Accept(file, v) == file.whole /\ file.version = v

Download(u) ==
    /\ update[u].pc = "download"
    /\ \E file \in {Binary(v) : v \in Versions} \union {NoBinary} :
         update' = [update EXCEPT ![u] = IF Accept(file, update[u].version)
                                         THEN [pc |-> "remove", version |-> update[u].version, staged |-> file]
                                         ELSE Sleeping]
    /\ UNCHANGED <<currentVersion, target, previous, clashed, stranded, releaseVars, readVars, mishaps>>

(* Install: the old .old is removed, the binary becomes .old, the staged   *)
(* file becomes the binary; when that fails the old one is put back, and   *)
(* when that fails too it stays beside.  Nothing keeps two updates apart,  *)
(* and .old is removed although nothing may be at the path.                *)
InstallRemove(u) ==
    /\ update[u].pc = "remove"
    /\ previous' = NoBinary
    /\ update' = [update EXCEPT ![u].pc = "aside"]
    /\ clashed' = (clashed \/ target = NoBinary)
    /\ UNCHANGED <<currentVersion, target, stranded, releaseVars, readVars, mishaps>>

InstallAside(u) ==
    /\ update[u].pc = "aside"
    /\ \/ /\ target # NoBinary /\ previous' = target /\ target' = NoBinary
          /\ update' = [update EXCEPT ![u].pc = "replace"] /\ UNCHANGED mishaps
       \/ /\ target = NoBinary \/ mishaps < MaxTrouble
          /\ mishaps' = IF target = NoBinary THEN mishaps ELSE mishaps + 1
          /\ update' = [update EXCEPT ![u] = Sleeping]
          /\ UNCHANGED <<target, previous>>
    /\ UNCHANGED <<currentVersion, clashed, stranded, releaseVars, readVars>>

Install(u) ==
    /\ update[u].pc = "replace"
    /\ \/ /\ target' = update[u].staged
          /\ update' = [update EXCEPT ![u] = Sleeping] /\ UNCHANGED mishaps
       \/ /\ mishaps < MaxTrouble /\ mishaps' = mishaps + 1
          /\ update' = [update EXCEPT ![u] = [pc |-> "back", version |-> update[u].version]] /\ UNCHANGED target
    /\ UNCHANGED <<currentVersion, previous, clashed, stranded, releaseVars, readVars>>

PutBack(u) ==
    /\ update[u].pc = "back"
    /\ \/ /\ previous # NoBinary /\ target' = previous /\ previous' = NoBinary
          /\ UNCHANGED <<stranded, mishaps>>
       \/ /\ previous = NoBinary \/ mishaps < MaxTrouble
          /\ mishaps' = IF previous = NoBinary THEN mishaps ELSE mishaps + 1
          /\ stranded' = TRUE /\ UNCHANGED <<target, previous>>
    /\ update' = [update EXCEPT ![u] = Sleeping]
    /\ UNCHANGED <<currentVersion, clashed, releaseVars, readVars>>

(* RequestRestart, restart, or a crash at any point: what was in memory is *)
(* gone, the new process runs the binary that is there, and Catch rebuilds *)
(* a published launcher that is older than the server.                     *)
LauncherRestart ==
    /\ mishaps < MaxTrouble /\ mishaps' = mishaps + 1
    /\ currentVersion' = target.version
    /\ update' = [u \in Updaters |-> Sleeping]
    /\ cached' = NotReading
    /\ reading' = [r \in Readers |-> NotReading] /\ answered' = [r \in Readers |-> NotReading]
    /\ halfDone' = (halfDone \/ \E p \in Releasers : publishing[p].pc = "signed")
    /\ \/ publishing' = [p \in Releasers |-> Sleeping]
       \/ /\ release # NoRelease /\ currentVersion' > release.version
          /\ \E c \in Releasers : publishing' = [p \in Releasers |->
                 IF p = c THEN [pc |-> "bake", version |-> currentVersion'] ELSE Sleeping]
    /\ UNCHANGED <<target, previous, clashed, stranded, templates, folder, release, signature>>

----------------------------------------------------------------------------
(* launchersvc *)

(* The command: build only with room for its version, publish as it is.    *)
BeginLauncher(p) ==
    /\ currentVersion # Missing /\ publishing[p] = Sleeping
    /\ \E v \in Versions :
         \/ v > release.version /\ publishing' = [publishing EXCEPT ![p] = [pc |-> "bake", version |-> v]]
         \/ publishing' = [publishing EXCEPT ![p] = [pc |-> "publish", version |-> v]]
    /\ UNCHANGED <<binaryVars, templates, folder, release, signature, halfDone, readVars, mishaps>>

(* build: the templates of the server's version, from disk or GitHub, with *)
(* the project's settings attached, into the folder of the version; the    *)
(* macOS one may be missing.  An error leaves what was written.            *)
Bake(p) ==
    /\ publishing[p].pc = "bake"
    /\ LET v == publishing[p].version IN
       \/ /\ templates' = templates \union {currentVersion}
          /\ \E baked \in {Templates, Templates \ {"mac"}} : folder' = [folder EXCEPT ![v] = @ \union baked]
          /\ publishing' = [publishing EXCEPT ![p].pc = "publish"]
          /\ UNCHANGED mishaps
       \/ /\ currentVersion \notin templates /\ mishaps < MaxTrouble /\ mishaps' = mishaps + 1
          /\ \E baked \in {{}, {"linux"}} : folder' = [folder EXCEPT ![v] = @ \union baked]
          /\ publishing' = [publishing EXCEPT ![p] = Sleeping]
          /\ UNCHANGED templates
    /\ UNCHANGED <<binaryVars, release, signature, halfDone, readVars>>

(* publish: a newer version with at least one file, whose release is       *)
(* signed.                                                                 *)
Sign(p) ==
    /\ publishing[p].pc = "publish"
    /\ LET v == publishing[p].version IN
       publishing' = [publishing EXCEPT ![p] = IF v > release.version /\ folder[v] # {}
                                               THEN [pc |-> "write", version |-> v] ELSE Sleeping]
    /\ UNCHANGED <<binaryVars, templates, folder, release, signature, halfDone, readVars, mishaps>>

(* The first of the two files, and the second.  A publish is alone when no *)
(* other one is between its files while it is.                             *)
Signing(p) == publishing[p].pc = "signed"
NobodySigns == \A p \in Releasers : ~ Signing(p)

WriteFirst(p) ==
    /\ publishing[p].pc = "write"
    /\ \/ /\ signature' = publishing[p].version
          /\ publishing' = [q \in Releasers |->
                 IF q = p THEN [pc |-> "signed", version |-> publishing[p].version, alone |-> NobodySigns]
                 ELSE IF Signing(q) THEN [publishing[q] EXCEPT !.alone = FALSE] ELSE publishing[q]]
          /\ halfDone' = (halfDone \/ ~ NobodySigns)
          /\ reading' = [r \in Readers |-> IF reading[r] = NotReading THEN NotReading
                                           ELSE [reading[r] EXCEPT !.overlapped = TRUE]]
          /\ UNCHANGED mishaps
       \/ /\ mishaps < MaxTrouble /\ mishaps' = mishaps + 1
          /\ publishing' = [publishing EXCEPT ![p] = Sleeping]
          /\ UNCHANGED <<signature, halfDone, reading>>
    /\ UNCHANGED <<binaryVars, templates, folder, release, cached, answered>>

WriteSecond(p) ==
    /\ publishing[p].pc = "signed"
    /\ publishing' = [publishing EXCEPT ![p] = Sleeping]
    /\ \/ /\ release' = [version |-> publishing[p].version, write |-> release.write + 1]
          /\ halfDone' = (halfDone /\ ~ publishing[p].alone)
          /\ UNCHANGED mishaps
       \/ /\ mishaps < MaxTrouble /\ mishaps' = mishaps + 1
          /\ halfDone' = TRUE /\ UNCHANGED release
    /\ UNCHANGED <<binaryVars, templates, folder, signature, readVars>>

----------------------------------------------------------------------------
(* Releases.Current, one step for every file operation.  A call overlaps a *)
(* publish when its signature is written before the call returns and its   *)
(* release is not yet there when the call begins.                          *)

Returns(r, version, its, overlapped) ==
    answered' = [answered EXCEPT ![r] =
        [version |-> version, signature |-> its, at |-> release.write, troubled |-> overlapped \/ halfDone]]

Stat(r) ==
    /\ reading[r] = NotReading
    /\ IF cached # NotReading /\ cached.seen = release.write
       THEN /\ Returns(r, cached.version, cached.signature, ~ NobodySigns)
            /\ UNCHANGED reading
       ELSE /\ reading' = [reading EXCEPT ![r] =
                    [pc |-> "release", seen |-> release.write, overlapped |-> ~ NobodySigns]]
            /\ answered' = [answered EXCEPT ![r] = NotReading]
    /\ UNCHANGED <<binaryVars, releaseVars, cached, mishaps>>

ReadRelease(r) ==
    /\ reading[r].pc = "release"
    /\ reading' = [reading EXCEPT ![r] =
           IF release = NoRelease THEN NotReading
           ELSE [pc |-> "signature", seen |-> reading[r].seen, version |-> release.version,
                 overlapped |-> reading[r].overlapped]]
    /\ UNCHANGED <<binaryVars, releaseVars, cached, answered, mishaps>>

(* Read and returned, and remembered under the time and size seen before   *)
(* the read; a file that was not there has none.                           *)
SignatureRead(r, seen) ==
    /\ reading[r].pc = "signature"
    /\ reading' = [reading EXCEPT ![r] = NotReading]
    /\ IF signature = Missing THEN UNCHANGED <<cached, answered>>
       ELSE /\ Returns(r, reading[r].version, signature, reading[r].overlapped)
            /\ cached' = IF reading[r].seen = 0 THEN cached
                         ELSE [seen |-> seen, version |-> reading[r].version, signature |-> signature]
    /\ UNCHANGED <<binaryVars, releaseVars, mishaps>>
ReadSignatureRestamped(r) == SignatureRead(r, release.write)
ReadSignature(r) == SignatureRead(r, reading[r].seen)

----------------------------------------------------------------------------
LauncherInit ==
    /\ currentVersion = 1 /\ target = Binary(1) /\ previous = NoBinary
    /\ update = [u \in Updaters |-> Sleeping] /\ clashed = FALSE /\ stranded = FALSE
    /\ templates = {} /\ folder = [v \in Versions |-> {}]
    /\ publishing = [p \in Releasers |-> Sleeping]
    /\ release = NoRelease /\ signature = Missing /\ halfDone = FALSE
    /\ cached = NotReading
    /\ reading = [r \in Readers |-> NotReading] /\ answered = [r \in Readers |-> NotReading]
    /\ mishaps = 0

UpdateNext ==
    \/ \E u \in Updaters :
         \/ Latest(u) \/ Download(u) \/ InstallRemove(u) \/ InstallAside(u) \/ Install(u) \/ PutBack(u)
    \/ LauncherRestart

PublishNext == \E p \in Releasers : BeginLauncher(p) \/ Bake(p) \/ Sign(p) \/ WriteFirst(p) \/ WriteSecond(p)
ReadNext == \E r \in Readers : Stat(r) \/ ReadRelease(r) \/ ReadSignature(r)

LauncherNext == UpdateNext \/ PublishNext \/ ReadNext

LauncherSpec == LauncherInit /\ [][LauncherNext]_launcherVars

----------------------------------------------------------------------------
(* Properties *)

(* A call that asks for the launcher is given a release with its own       *)
(* signature, and the release that is published then, unless a publish     *)
(* overlaps the call itself: a mixed pair that another call read between   *)
(* the two writes is never served from the cache afterwards (publish       *)
(* writes the signature first; Releases.Current).  A publish that is cut   *)
(* off between its files, or overlaps another, leaves a pair that does not *)
(* verify until the next one is whole.                                     *)
ServedPairVerifies ==
    \A r \in Readers : (answered[r] # NotReading /\ ~ answered[r].troubled) =>
        /\ answered[r].signature = answered[r].version
        /\ answered[r].at = release.write => answered[r].version = release.version

(* However an update is interrupted, and whatever of it fails, the server  *)
(* that ran or the one that replaces it, as its release has it, is at the  *)
(* path or beside it, as long as no update removes .old while nothing is   *)
(* at the path (selfupdate.go:105, though :116 tells the administrator     *)
(* that the binary lies there); and it is at the path unless the           *)
(* replacement is under way, was cut off by a restart, or could not be put *)
(* back (Install, ghrelease.Download, verifyVersion).                      *)
BinaryKept ==
    /\ target # NoBinary => target.whole
    /\ ~ clashed => target.whole \/ previous.whole
    /\ ( ~ clashed /\ ~ stranded /\ currentVersion # Missing
         /\ \A u \in Updaters : update[u].pc \notin {"replace", "back"} ) => target # NoBinary

(* An update leaves players and the server with a working program: what is *)
(* served of a launcher verifies, and a whole server binary is at hand,    *)
(* within the limits both state.                                           *)
UpdatesSafe == ServedPairVerifies /\ BinaryKept
=============================================================================
