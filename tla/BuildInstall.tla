---------------------------- MODULE BuildInstall ----------------------------
(***************************************************************************)
(* install of one build (buildsvc.prepare over prepare.Prepare): the old   *)
(* layout with one directory for each platform is first moved to the       *)
(* shared one, file by file; the command records what it is about to       *)
(* install, then prepares its platforms one after another, and the launch  *)
(* profile, written last, carries the stamp that publish compares.  Any    *)
(* download may fail, which skips the platform, and the process may stop   *)
(* between any two file operations.  An install line stands for its        *)
(* version, loader, recipe and Java.  Flat builds of one platform and the  *)
(* wording are left out.                                                   *)
(***************************************************************************)
EXTENDS Integers, Sequences, SequencesExt, FiniteSets

CONSTANTS Order,         \* the platforms, in the order of their directories
          Lines,         \* install lines an operator may give
          FlatMods,      \* contents the mod of a platform had in the old layout, 0 for none
          MaxInstalls, MaxFailures    \* bounds

Platforms == Range(Order)
NoLine == "none"

ASSUME InstallAssumption ==
    /\ Order \in Seq(Range(Order)) /\ IsInjective(Order) /\ NoLine \notin Lines
    /\ FlatMods \subseteq Nat /\ {MaxInstalls, MaxFailures} \subseteq Nat

VARIABLES mark,       \* the migration mark
          oldDir,     \* platforms with a directory of the old layout
          oldParts,   \* platform -> what is still in it: launch, mod, runtime
          rootMod,    \* content of the mod in the shared root, 0 for none
          ownMod,     \* platform -> its own copy of the mod
          launch,     \* platform -> stamp of its launch profile, in either layout
          moved,      \* platforms whose launch profile is under platforms/
          runtime,    \* platform -> the line whose Java it has
          shared,     \* the line whose files the shared root has, "mixed" for several
          install,    \* settings.Install
          recipe,     \* settings.Compat, by the line that asked for it
          run,        \* the command under way
          installs, failures,
          orig,       \* history: the mod each platform had
          wentBack    \* history: a line was recorded again after another one

installVars == <<mark, oldDir, oldParts, rootMod, ownMod, launch, moved, runtime, shared, install,
                 recipe, run, installs, failures, orig, wentBack>>
layoutVars == <<mark, oldDir, oldParts, rootMod, ownMod, moved, orig>>
stampVars == <<install, recipe, wentBack>>
NoRun == [pc |-> "none"]

----------------------------------------------------------------------------
(* layout: which platforms there are and whether they share a root. *)

Precedes(p, q) == \E i, j \in DOMAIN Order : i <= j /\ Order[i] = p /\ Order[j] = q
First(S) == CHOOSE p \in S : \A q \in S : Precedes(p, q)
leftovers == {p \in oldDir : "launch" \in oldParts[p]}
layoutShared == moved # {} /\ leftovers = {} /\ ~mark
layoutPlatforms == moved \union leftovers

(* What the players of a platform get: its own file over the shared one.   *)
PlatformView(p) == IF ownMod[p] # 0 THEN ownMod[p] ELSE rootMod

----------------------------------------------------------------------------
(* install. *)

prepareStart(line, targets) ==
    /\ run = NoRun /\ installs < MaxInstalls
    /\ installs' = installs + 1
    /\ run' = [pc |-> IF ~layoutShared /\ layoutPlatforms # {} THEN "share" ELSE "record",
               line |-> line, todo |-> targets, built |-> {}, first |-> TRUE, left |-> layoutPlatforms]
    /\ mark' = (mark \/ (~layoutShared /\ layoutPlatforms # {}))
    /\ UNCHANGED <<oldDir, oldParts, rootMod, ownMod, moved, orig, launch, runtime, shared, stampVars, failures>>

belongsToPlatform(part) == part \in {"launch", "runtime"}

(* mergePlatforms: those that have moved come first.                       *)
Sharing == IF run.left \intersect moved # {} THEN First(run.left \intersect moved) ELSE First(run.left)

(* One file of sharePlatform; the walk is in the order of the names.  The  *)
(* first platform gives its files to the root; a copy that is the same is  *)
(* left to be removed with the old directory.                              *)
NextPart(p) == IF "launch" \in oldParts[p] THEN "launch" ELSE IF "mod" \in oldParts[p] THEN "mod" ELSE "runtime"

MovePart(p, part) ==
    /\ oldParts' = [oldParts EXCEPT ![p] = oldParts[p] \ {part}]
    /\ moved' = IF part = "launch" THEN moved \union {p} ELSE moved
    /\ rootMod' = IF ~belongsToPlatform(part) /\ run.first THEN orig[p] ELSE rootMod
    /\ ownMod' = IF ~belongsToPlatform(part) /\ ~run.first /\ rootMod # orig[p]
                 THEN [ownMod EXCEPT ![p] = orig[p]] ELSE ownMod

(* shareCommonFiles: a platform whose old directory is gone ends it with   *)
(* an error; the mark goes last.                                           *)
SharePlatform(p) ==
    \/ /\ p \notin oldDir
       /\ run' = NoRun /\ UNCHANGED <<mark, oldDir, oldParts, rootMod, ownMod, moved>>
    \/ /\ p \in oldDir /\ oldParts[p] # {}
       /\ MovePart(p, NextPart(p)) /\ UNCHANGED <<mark, oldDir, run>>
    \/ /\ p \in oldDir /\ oldParts[p] = {}
       /\ oldDir' = oldDir \ {p} /\ run' = [run EXCEPT !.left = run.left \ {p}, !.first = FALSE]
       /\ UNCHANGED <<mark, oldParts, rootMod, ownMod, moved>>

shareCommonFiles ==
    /\ run.pc = "share"
    /\ \/ /\ run.left = {} /\ mark' = FALSE /\ run' = [run EXCEPT !.pc = "record"]
          /\ UNCHANGED <<oldDir, oldParts, rootMod, ownMod, moved>>
       \/ run.left # {} /\ SharePlatform(Sharing)
    /\ UNCHANGED <<orig, launch, runtime, shared, stampVars, installs, failures>>

RecordOnce ==
    /\ run.pc = "record"
    /\ install' = IF install = NoLine THEN run.line ELSE install
    /\ wentBack' = (wentBack \/ (install # run.line /\ \E p \in Platforms : launch[p] = run.line))
    /\ run' = [run EXCEPT !.pc = "files"]
    /\ UNCHANGED <<layoutVars, launch, runtime, shared, recipe, installs, failures>>
recordInstall ==
    /\ run.pc = "record"
    /\ install' = run.line
    /\ wentBack' = (wentBack \/ (install # run.line /\ \E p \in Platforms : launch[p] = run.line))
    /\ run' = [run EXCEPT !.pc = "files"]
    /\ UNCHANGED <<layoutVars, launch, runtime, shared, recipe, installs, failures>>

Target == First(run.todo)
Preparing == run.pc \in {"files", "unpack", "swap", "extra", "launch"} /\ run.todo # {}

(* dl.run and downloadAssets: the game's files into the shared root, over  *)
(* whatever an earlier line left under the same names; files already there *)
(* stay.                                                                   *)
downloadFiles ==
    /\ Preparing /\ run.pc = "files"
    /\ shared' = IF shared = run.line THEN shared ELSE "mixed"
    /\ run' = [run EXCEPT !.pc = "unpack"]
    /\ UNCHANGED <<layoutVars, launch, runtime, stampVars, installs, failures>>

(* movedToAnotherJava: the platform has a launch profile, of another line  *)
(* or of the old layout; its Java may be the same all the same.            *)
MayHaveAnotherJava(p) == p \in moved /\ launch[p] # run.line

(* downloadRuntime: another Java is unpacked beside the one in use and     *)
(* then takes its place in two file operations.                            *)
downloadRuntime ==
    /\ Preparing /\ run.pc = "unpack"
    /\ \/ /\ MayHaveAnotherJava(Target)
          /\ runtime' = [runtime EXCEPT ![Target] = NoLine] /\ run' = [run EXCEPT !.pc = "swap"]
       \/ runtime' = [runtime EXCEPT ![Target] = run.line] /\ run' = [run EXCEPT !.pc = "extra"]
    /\ UNCHANGED <<layoutVars, launch, shared, stampVars, installs, failures>>

swapRuntime ==
    /\ Preparing /\ run.pc = "swap"
    /\ runtime' = [runtime EXCEPT ![Target] = run.line]
    /\ run' = [run EXCEPT !.pc = "extra"]
    /\ UNCHANGED <<layoutVars, launch, shared, stampVars, installs, failures>>

(* runInstaller, downloadExtraFiles and ensureAuthlib complete the root.   *)
downloadExtraFiles ==
    /\ Preparing /\ run.pc = "extra"
    /\ shared' = run.line
    /\ run' = [run EXCEPT !.pc = "launch"]
    /\ UNCHANGED <<layoutVars, launch, runtime, stampVars, installs, failures>>

writeLaunchProfile ==
    /\ Preparing /\ run.pc = "launch"
    /\ launch' = [launch EXCEPT ![Target] = run.line]
    /\ moved' = moved \union {Target}
    /\ run' = [run EXCEPT !.pc = "files", !.todo = run.todo \ {Target}, !.built = run.built \union {Target}]
    /\ UNCHANGED <<mark, oldDir, oldParts, rootMod, ownMod, orig, runtime, shared, stampVars, installs, failures>>

(* A file that did not come, or came broken after every attempt: the       *)
(* platform is skipped with what was written so far.                       *)
PrepareFails ==
    /\ Preparing /\ failures < MaxFailures
    /\ failures' = failures + 1
    /\ shared' \in {shared} \union (IF run.pc = "files" /\ shared # run.line THEN {"mixed"} ELSE {})
    /\ run' = [run EXCEPT !.pc = "files", !.todo = run.todo \ {Target}]
    /\ UNCHANGED <<layoutVars, launch, runtime, stampVars, installs>>

(* The end: the recipe is remembered only when some platform was built.    *)
rememberRecipe ==
    /\ run.pc = "files" /\ run.todo = {}
    /\ recipe' = IF run.built # {} THEN run.line ELSE recipe
    /\ run' = NoRun
    /\ UNCHANGED <<layoutVars, launch, runtime, shared, install, wentBack, installs, failures>>

(* The process stops in the middle of the command.                         *)
InstallCrash ==
    /\ run # NoRun /\ failures < MaxFailures
    /\ failures' = failures + 1
    /\ run' = NoRun
    /\ UNCHANGED <<layoutVars, launch, runtime, shared, stampVars, installs>>

InstallNext ==
    \/ \E line \in Lines, targets \in (SUBSET Platforms) \ {{}} : prepareStart(line, targets)
    \/ shareCommonFiles \/ recordInstall \/ downloadFiles \/ downloadRuntime \/ swapRuntime
    \/ downloadExtraFiles \/ writeLaunchProfile \/ PrepareFails \/ rememberRecipe \/ InstallCrash

(* A new build, or one installed by an older version, one directory for    *)
(* each platform and no recorded line.                                     *)
InstallInit ==
    /\ \E old \in SUBSET Platforms, mods \in [Platforms -> FlatMods] :
        /\ oldDir = old
        /\ orig = [p \in Platforms |-> IF p \in old THEN mods[p] ELSE 0]
        /\ oldParts = [p \in Platforms |-> IF p \notin old THEN {}
                        ELSE {"launch", "runtime"} \union (IF mods[p] # 0 THEN {"mod"} ELSE {})]
    /\ mark = FALSE /\ rootMod = 0 /\ ownMod = [p \in Platforms |-> 0]
    /\ launch = [p \in Platforms |-> NoLine] /\ moved = {}
    /\ runtime = [p \in Platforms |-> NoLine] /\ shared = NoLine
    /\ install = NoLine /\ recipe = NoLine /\ wentBack = FALSE /\ run = NoRun /\ installs = 0 /\ failures = 0

InstallSpec == InstallInit /\ [][InstallNext]_installVars

----------------------------------------------------------------------------
(* Properties. *)

(* refuseStalePlatforms, as publish asks it.                               *)
publishAccepts ==
    /\ run = NoRun /\ layoutPlatforms # {}
    /\ install = NoLine \/ \A p \in layoutPlatforms :
                              (IF layoutShared THEN launch[p] ELSE NoLine) = install

(* migrate_test.go:35: moving to the shared layout keeps every file; what  *)
(* a platform had is what its players still get once the move is over,     *)
(* wherever it was interrupted.                                            *)
SharingKeepsFiles ==
    layoutShared => \A p \in moved : orig[p] # 0 => PlatformView(p) = orig[p]

Complete == \A p \in layoutPlatforms : runtime[p] = install /\ shared = install

(* What publish accepts has the Java and the shared files of the recorded  *)
(* install, however an install was interrupted (install.go:42), as long as *)
(* nobody went back to a line that is still stamped on a platform.         *)
PublishedComplete == publishAccepts /\ install # NoLine /\ ~wentBack => Complete

(* docs/builds/preparing.mdx:97: an old build moves to the shared layout at *)
(* the next install.  So a move meets no platform it cannot move, also     *)
(* when an earlier one was cut off.                                        *)
MoveFinishes == run.pc = "share" /\ run.left # {} => Sharing \in oldDir

(* Players of every platform get whole files: the move to the shared       *)
(* layout loses none, and publish takes only a build whose platforms all   *)
(* have the last install, wherever the installs and the move were cut off. *)
PlatformsWhole == SharingKeepsFiles /\ PublishedComplete

=============================================================================
