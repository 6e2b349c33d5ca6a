------------------------------ MODULE MCServer ------------------------------
(***************************************************************************)
(* Small instances, for TLC, of how the server is run: installing builds   *)
(* and uploading their files, the settings file, who may control the       *)
(* server, backups, starting and stopping; and what an operator and a site *)
(* see of it: the console, modules and their events, the log, launcher     *)
(* releases and the server's own update, mirrored pictures and news.  The  *)
(* components share no state in memory, so the run explores one of them at *)
(* a time: `part` says which, and the others rest in their initial state.  *)
(***************************************************************************)
EXTENDS BuildInstall, Settings, ControlAccess, ServerFiles, Lifecycle,
        Console, Modules, LogBus, LauncherRelease, Media, TLC

VARIABLE part

PlatformOrder == <<"linux", "windows">>
SmallContent == [d \in Digests |-> IF d = "x" THEN <<1, 2>> ELSE <<3>>]
SmallDrafts == {<<1>>, <<3, 2>>}
(* A section of the schema with a default adapter, an entry without.       *)
SmallDefaults == [k \in Blocks |-> IF k = "skins" THEN "a1" ELSE Unset]
SourcesListed == <<"config", "db", "config">>

(* Each Minecraft version has a loader of its own; only one has a recipe.  *)
SmallLoaders == [x \in MinecraftVersions \X LoaderNames |-> {x[1]}]
SmallRecipes == [x \in MinecraftVersions \X LoaderNames |-> IF x[1] = "m1" THEN {x[1]} ELSE {}]
SmallRows == {<<"build", "p1">>, <<"p1", "build">>, <<"build">>}

(* Two modules that want the same name, and one name of the server's own.  *)
TwoModules == <<"a", "b">>
Cms == <<"auth", "cms">>
Json == <<"auth", "json">>
SkinCms == <<"skin", "cms">>
TwoGive == "a" :> <<Cms, SkinCms>> @@ "b" :> <<Cms, Json>>
OwnProviders == {Json}
WantedProviders == {Cms, SkinCms, Json}

PictureSizes == [p \in Pictures |-> p]

(* The settings have one block at a time: blocks do not touch each other.  *)
OneBlock == \A doc \in {document} \union {screen[e].page : e \in Editors}
                       \union (IF saving = NoSave THEN {} ELSE {saving.doc}) : Cardinality(DOMAIN doc) <= 1

Parts == {"install", "settings", "tokens", "web", "uploads", "backup", "lifecycle",
          "console", "calls", "events", "log", "update", "launcher", "mirror", "news"}

(* Only the chosen component starts in each of its initial states; what    *)
(* the others would start with is fixed.                                   *)
Init ==
    /\ part \in Parts
    /\ InstallInit /\ (part # "install" => oldDir = {} /\ orig = [p \in Platforms |-> 0])
    /\ SettingsInit /\ (part # "settings" => document = <<>>)
    /\ BackupInit /\ (part # "backup" => DOMAIN pages = {})
    /\ LifecycleInit /\ (part # "lifecycle" => public)
    /\ ControlInit /\ UploadInit
    /\ ConsoleInit /\ ModulesInit /\ LogInit /\ LauncherInit /\ MediaInit

OthersRest ==
    /\ UNCHANGED part
    /\ part # "install" => UNCHANGED installVars
    /\ part # "settings" => UNCHANGED settingsVars
    /\ part \notin {"tokens", "web"} => UNCHANGED controlVars
    /\ part # "uploads" => UNCHANGED uploadVars
    /\ part # "backup" => UNCHANGED backupVars
    /\ part # "lifecycle" => UNCHANGED lifecycleVars
    /\ part # "console" => UNCHANGED consoleVars
    /\ part \notin {"calls", "events"} => UNCHANGED modulesVars
    /\ part # "log" => UNCHANGED logVars
    /\ part \notin {"update", "launcher"} => UNCHANGED launcherVars
    /\ part \notin {"mirror", "news"} => UNCHANGED mediaVars

Next ==
    \/ part = "install" /\ InstallNext /\ OthersRest
    \/ part = "settings" /\ SettingsNext /\ OneBlock' /\ OthersRest
    \/ part = "tokens" /\ TokenNext /\ OthersRest
    \/ part = "web" /\ WebNext /\ OthersRest
    \/ part = "uploads" /\ UploadNext /\ OthersRest
    \/ part = "backup" /\ BackupNext /\ OthersRest
    \/ part = "lifecycle" /\ LifecycleNext /\ OthersRest
    \/ part = "console" /\ ConsoleNext /\ OthersRest
    \/ part = "calls" /\ ModuleCalls /\ OthersRest
    \/ part = "events" /\ ModuleEvents /\ OthersRest
    \/ part = "log" /\ LogNext /\ OthersRest
    \/ part = "update" /\ (UpdateNext \/ PublishNext) /\ OthersRest
    \/ part = "launcher" /\ (LauncherRestart \/ PublishNext \/ ReadNext) /\ OthersRest
    \/ part = "mirror" /\ MirrorNext /\ OthersRest
    \/ part = "news" /\ NewsNext /\ OthersRest

Spec == Init /\ [][Next]_<<part, installVars, settingsVars, controlVars, uploadVars, backupVars,
                           lifecycleVars, consoleVars, modulesVars, logVars, launcherVars, mediaVars>>

(* The callers of every component are the same model values, and alike.    *)
Permuted == Permutations(Requests)
=============================================================================
