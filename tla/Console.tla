------------------------------ MODULE Console ------------------------------
(***************************************************************************)
(* The terminal console (tui): one Model moved by keys and by the replies  *)
(* of the server, which come back later and in any order.  The screens are *)
(* the log with its confirmation and its command line, the picker of a     *)
(* build, the install wizard, the players, the card of a build and the     *)
(* settings (their editor is module Settings).  Layout and wording are     *)
(* left out; a list is the set of what may be picked from it, but for the  *)
(* menu of the players, where the cursor and the rows matter.              *)
(***************************************************************************)
EXTENDS Integers, Sequences, SequencesExt, FiniteSets

CONSTANTS ConsoleBuilds, MinecraftVersions, LoaderNames,
          LoaderVersions,        \* versions ListLoaders gives for a Minecraft version and a loader
          Recipes,               \* recipes it gives for them
          PlayerRows,            \* the rows a ListPlayers reply may fill
          SecretCommands, OpenCommands,   \* what may be typed, by secretArguments
          GamePlatforms,
          MaxRequests, MaxPending, MaxExecuting       \* bounds

VARIABLES view,          \* m.state with what its screen holds, m.confirm, m.commandMode
          pickerAction,
          replies,       \* what the server has still to answer
          requested,     \* wizardRequest values made so far
          executing,     \* commands being executed
          running,
          secretsOf,     \* m.commandSecrets: FALSE before the reply
          lines          \* m.history

consoleVars == <<view, pickerAction, replies, requested, executing, running, secretsOf, lines>>

None == "none"

(* ListLoaders answers for every Minecraft version and loader of the       *)
(* wizard's lists; a row of the players has a text of its own.             *)
ASSUME ConsoleAssumption ==
    /\ DOMAIN LoaderVersions = MinecraftVersions \X LoaderNames
    /\ DOMAIN Recipes = MinecraftVersions \X LoaderNames
    /\ PlayerRows \subseteq Seq(STRING \ {None})

NoConfirm == [op |-> None]
Show(state, content) == [view EXCEPT !.state = state, !.content = content]
Main == Show("main", None)
Ask(op, name) == [Main EXCEPT !.confirm = [op |-> op, name |-> name]]

Send(request) ==
    /\ Cardinality(replies) < MaxPending
    /\ replies' = replies \union {request}

(* What a screen holds is built again whenever it is entered.              *)
wizard == view.content      \* in state wizard
picker == view.content      \* in state pick: the title and the items
menu == view.content        \* in state players: the rows and the cursor
build == view.content       \* in state card, and in settings opened from it

----------------------------------------------------------------------------
(* Menu: the cursor rests on rows that can be opened.                      *)

Static(row) == row = "build"
clamp(rows, cursor) ==
    LET at == IF rows = <<>> THEN 0
              ELSE IF cursor >= Len(rows) THEN Len(rows) - 1 ELSE IF cursor < 0 THEN 0 ELSE cursor
        loose == {i \in 0 .. Len(rows) - 1 : ~ Static(rows[i + 1])}
        below == {i \in loose : i >= at}
    IN  IF loose = {} THEN at
        ELSE IF below # {} THEN CHOOSE i \in below : \A j \in below : i <= j
        ELSE CHOOSE i \in loose : \A j \in loose : j <= i

setItems(list, rows) == [rows |-> rows, cursor |-> clamp(rows, list.cursor)]

(* The next row that can be opened, around the ends; none: it stays.       *)
move(list, from, delta) ==
    LET n == Len(list.rows)
        at(step) == (from + delta * step + n * step) % n
        found == {step \in 1 .. n : ~ Static(list.rows[at(step) + 1])}
    IN  IF found = {} THEN [list EXCEPT !.cursor = from]
        ELSE [list EXCEPT !.cursor = at(CHOOSE s \in found : \A t \in found : s <= t)]

Current(list) == IF list.cursor \in 0 .. Len(list.rows) - 1 THEN list.rows[list.cursor + 1] ELSE None

----------------------------------------------------------------------------
(* Commands                                                                *)

commandLabel(line) == [secret |-> ~ secretsOf \/ line \in SecretCommands]

startCommand(command) ==
    /\ Len(executing) < MaxExecuting
    /\ executing' = Append(executing, command)
    /\ running' = TRUE
    /\ lines' = IF command.op = "typed" /\ ~ commandLabel(command.line).secret
                THEN lines \union {command.line} ELSE lines

Quiet == UNCHANGED <<executing, running, lines>>

(* execDoneMsg of any command clears the flag.                             *)
execDone ==
    /\ \E i \in DOMAIN executing : executing' = RemoveAt(executing, i)
    /\ running' = FALSE
    /\ UNCHANGED <<view, pickerAction, replies, requested, secretsOf, lines>>

commandsMsg ==
    /\ [kind |-> "commands"] \in replies
    /\ replies' = replies \ {[kind |-> "commands"]}
    /\ secretsOf' \in {FALSE, TRUE}     \* a failed reply has no commands
    /\ Quiet
    /\ UNCHANGED <<view, pickerAction, requested>>

----------------------------------------------------------------------------
(* The wizard.  index is the Minecraft version whose reply filled          *)
(* loaderIndex and recipes; history the wizards Esc goes back to.          *)

NewWizard(name, request) ==
    [step |-> "version", loading |-> TRUE, request |-> request, problem |-> FALSE,
     mc |-> None, loader |-> None, loaderVersion |-> None, recipe |-> None, index |-> None,
     name |-> name, platforms |-> GamePlatforms, history |-> <<>>]

newWizard(name) ==
    /\ requested < MaxRequests
    /\ requested' = requested + 1
    /\ view' = Show("wizard", NewWizard(name, requested + 1))
    /\ Send([kind |-> "versions", request |-> requested + 1])

Wizard(w) == view' = Show("wizard", w)
fetchLoaders(w) ==
    /\ requested < MaxRequests
    /\ requested' = requested + 1
    /\ Wizard([w EXCEPT !.loading = TRUE, !.problem = FALSE, !.request = requested + 1])
    /\ Send([kind |-> "loaders", request |-> requested + 1, mc |-> w.mc])

(* The history, as far as back() brings it again.                          *)
Kept == [wizard EXCEPT !.history = <<>>, !.name = None, !.platforms = {},
                       !.loading = FALSE, !.request = 0, !.problem = FALSE]
Remembered == [wizard EXCEPT !.history = Append(@, Kept)]

askName(w) == [w EXCEPT !.step = "name"]
askLoaderVersion(w) ==
    IF w.loader = "vanilla" \/ LoaderVersions[<<w.index, w.loader>>] = {}
    THEN askName(w) ELSE [w EXCEPT !.step = "loaderVersion"]
askRecipe(w) ==
    IF Recipes[<<w.index, w.loader>>] = {} THEN askLoaderVersion(w) ELSE [w EXCEPT !.step = "recipe"]

advance ==
    \/ /\ wizard.step = "version"
       /\ \E mc \in MinecraftVersions :
              fetchLoaders([Remembered EXCEPT !.mc = mc, !.loader = None,
                                              !.loaderVersion = None, !.recipe = None])
    \/ /\ UNCHANGED <<requested, replies>>
       /\ \/ /\ wizard.step = "loader"
             /\ \E loader \in LoaderNames :
                    Wizard(askRecipe([Remembered EXCEPT !.loader = loader,
                                                        !.loaderVersion = None, !.recipe = None]))
          \/ /\ wizard.step = "recipe"
             /\ \/ Wizard(askLoaderVersion([Remembered EXCEPT !.recipe = "declined"]))
                \/ \E r \in Recipes[<<wizard.index, wizard.loader>>] :
                       Wizard(askName([Remembered EXCEPT !.recipe = r]))
          \/ /\ wizard.step = "loaderVersion"
             /\ \E v \in LoaderVersions[<<wizard.index, wizard.loader>>] :
                    Wizard(askName([Remembered EXCEPT !.loaderVersion = v]))
          \/ /\ wizard.step = "name"
             /\ \/ /\ wizard.name # None
                   /\ Wizard([Remembered EXCEPT !.step = "platforms"])
                \/ \E b \in ConsoleBuilds : Wizard([wizard EXCEPT !.name = b])

updatePlatforms ==
    /\ wizard.step = "platforms"
    /\ \/ \E p \in GamePlatforms : Wizard([wizard EXCEPT !.platforms = (@ \ {p}) \union ({p} \ @)])
       \/ wizard.platforms # {} /\ Wizard([Remembered EXCEPT !.step = "review"])
    /\ UNCHANGED <<requested, replies>>

back == [Last(wizard.history) EXCEPT !.history = Front(wizard.history),
                                     !.name = wizard.name, !.platforms = wizard.platforms]

buildArguments ==
    [op |-> "install", name |-> wizard.name, mc |-> wizard.mc, loader |-> wizard.loader,
     loaderVersion |-> wizard.loaderVersion, recipe |-> wizard.recipe, platforms |-> wizard.platforms]

updateWizard ==
    /\ view.state = "wizard"
    /\ UNCHANGED <<pickerAction, secretsOf>>
    /\ \/ /\ view' = IF wizard.history = <<>> THEN Main ELSE Show("wizard", back)     \* Esc
          /\ Quiet /\ UNCHANGED <<requested, replies>>
       \/ /\ wizard.problem                   \* Enter: the failed question again
          /\ IF wizard.mc = None THEN newWizard(wizard.name) ELSE fetchLoaders(wizard)
          /\ Quiet
       \/ /\ ~ wizard.loading /\ ~ wizard.problem
          /\ \/ (advance \/ updatePlatforms) /\ Quiet
             \/ /\ wizard.step = "review"
                /\ view' = Main
                /\ startCommand(buildArguments)
                /\ UNCHANGED <<requested, replies>>

(* A reply is for the wizard only while it waits for that very request.    *)
WaitedLoose(reply) == view.state = "wizard" /\ wizard.loading
Waited(reply) ==
    /\ view.state = "wizard"
    /\ wizard.loading
    /\ reply.request = wizard.request
    /\ reply.kind = "loaders" => reply.mc = wizard.mc

wizardMsg ==
    \E reply \in {r \in replies : r.kind \in {"versions", "loaders"}} :
        /\ replies' = replies \ {reply}
        /\ IF ~ Waited(reply) THEN UNCHANGED view
           ELSE \/ Wizard([wizard EXCEPT !.loading = FALSE, !.problem = TRUE])
                \/ Wizard([wizard EXCEPT !.loading = FALSE,
                              !.step = IF reply.kind = "loaders" THEN "loader" ELSE "version",
                              !.index = IF reply.kind = "loaders" THEN reply.mc ELSE @])
        /\ Quiet
        /\ UNCHANGED <<pickerAction, requested, secretsOf>>

----------------------------------------------------------------------------
(* The builds: one picker, asked for by four keys.                         *)

fetchBuilds == Send([kind |-> "builds"])
fetchPlayers == Send([kind |-> "players"])

onBuilds ==
    /\ [kind |-> "builds"] \in replies
    /\ replies' = replies \ {[kind |-> "builds"]}
    /\ \/ /\ view.state # "settings"
          /\ \E builds \in SUBSET ConsoleBuilds :
                 view' = IF builds = {} THEN Main
                         ELSE Show("pick", [title |-> pickerAction, items |-> builds])
       \/ view.state = "settings" /\ UNCHANGED view
       \/ view' = IF view.state = "wizard" THEN Main ELSE view      \* errMsg
    /\ Quiet
    /\ UNCHANGED <<pickerAction, requested, secretsOf>>

updateBuildPick ==
    /\ view.state = "pick"
    /\ UNCHANGED <<pickerAction, secretsOf>>
    /\ \/ view' = Main /\ Quiet /\ UNCHANGED <<requested, replies>>      \* Esc
       \/ \E b \in picker.items :
            \/ /\ pickerAction = "card"
               /\ view' = Show("card", b) /\ fetchPlayers
               /\ Quiet /\ UNCHANGED requested
            \/ /\ pickerAction = "publish"
               /\ view' = Main
               /\ startCommand([op |-> "publish", name |-> b])
               /\ UNCHANGED <<requested, replies>>
            \/ /\ pickerAction = "delete"
               /\ view' = Ask("delete", b)
               /\ Quiet /\ UNCHANGED <<requested, replies>>
            \/ pickerAction = "update" /\ newWizard(b) /\ Quiet

----------------------------------------------------------------------------
(* Players and the card of a build                                         *)

playersMsg ==
    /\ [kind |-> "players"] \in replies
    /\ replies' = replies \ {[kind |-> "players"]}
    /\ \/ /\ view.state = "players"
          /\ \E rows \in PlayerRows : view' = Show("players", setItems(menu, rows))
       \/ UNCHANGED view            \* another screen, or an error
    /\ Quiet
    /\ UNCHANGED <<pickerAction, requested, secretsOf>>

updatePlayers ==
    /\ view.state = "players"
    /\ Quiet
    /\ UNCHANGED <<pickerAction, requested, secretsOf>>
    /\ \/ /\ menu.rows # <<>>
          /\ \E moved \in {move(menu, menu.cursor, -1), move(menu, menu.cursor, 1),
                           move(menu, -1, 1), move(menu, Len(menu.rows), -1)} :  \* home, end
                 view' = Show("players", moved)
          /\ UNCHANGED replies
       \/ /\ Current(menu) \notin {None, "build"}        \* Enter
          /\ view' = Ask("ban", Current(menu))
          /\ UNCHANGED replies
       \/ view' = Main /\ UNCHANGED replies
       \/ fetchPlayers /\ UNCHANGED view       \* r, and every 10 s

updateCard ==
    /\ view.state = "card"
    /\ UNCHANGED <<pickerAction, secretsOf>>
    /\ \/ /\ view' \in {Show("settings", build), Main, Ask("delete", build)}
          /\ Quiet /\ UNCHANGED <<requested, replies>>
       \/ /\ view' = Main
          /\ startCommand([op |-> "publish", name |-> build])
          /\ UNCHANGED <<requested, replies>>
       \/ newWizard(build) /\ Quiet

(* The settings screen, left to the card when it was opened there; a saved *)
(* build asks for the builds again.                                        *)
updateSettings ==
    /\ view.state = "settings"
    /\ \/ view' = Show(IF build = None THEN "main" ELSE "card", build) /\ UNCHANGED replies
       \/ build # None /\ fetchBuilds /\ UNCHANGED view
    /\ Quiet
    /\ UNCHANGED <<pickerAction, requested, secretsOf>>

----------------------------------------------------------------------------
(* The log: a question first, then the command line, then the keys.        *)

Keys ==
    \/ /\ view' \in {[view EXCEPT !.typing = TRUE], Show("help", None), Show("settings", None)}
       /\ UNCHANGED <<pickerAction, requested, replies>>
    \/ newWizard(None) /\ UNCHANGED pickerAction
    \/ /\ pickerAction' \in {"card", "publish", "update", "delete"}
       /\ fetchBuilds
       /\ UNCHANGED <<view, requested>>
    \/ /\ view' = Show("players", [rows |-> <<>>, cursor |-> 0])
       /\ fetchPlayers
       /\ UNCHANGED <<pickerAction, requested>>

updateMain ==
    /\ view.state = "main"
    /\ UNCHANGED secretsOf
    /\ \/ /\ view.confirm # NoConfirm
          /\ view' = [view EXCEPT !.confirm = NoConfirm]
          /\ startCommand(view.confirm) \/ Quiet
          /\ UNCHANGED <<pickerAction, requested, replies>>
       \/ /\ view.confirm = NoConfirm /\ view.typing
          /\ view' = [view EXCEPT !.typing = FALSE]
          /\ \/ \E line \in SecretCommands \union OpenCommands :
                    startCommand([op |-> "typed", line |-> line])
             \/ Quiet
          /\ UNCHANGED <<pickerAction, requested, replies>>
       \/ view.confirm = NoConfirm /\ ~ view.typing /\ Keys /\ Quiet

updateHelp ==
    /\ view.state = "help"
    /\ view' = Main
    /\ Quiet
    /\ UNCHANGED <<pickerAction, replies, requested, secretsOf>>

ConsoleInit ==
    /\ view = [state |-> "main", content |-> None, confirm |-> NoConfirm, typing |-> FALSE]
    /\ pickerAction = None
    /\ replies = {[kind |-> "commands"]}
    /\ requested = 0
    /\ executing = <<>>
    /\ running = FALSE
    /\ secretsOf = FALSE
    /\ lines = {}

ConsoleNext ==
    \/ updateMain
    \/ updateHelp
    \/ updateBuildPick
    \/ updateWizard
    \/ updatePlayers
    \/ updateCard
    \/ updateSettings
    \/ onBuilds
    \/ playersMsg
    \/ commandsMsg
    \/ wizardMsg
    \/ execDone

ConsoleSpec == ConsoleInit /\ [][ConsoleNext]_consoleVars

----------------------------------------------------------------------------
(* Properties                                                              *)

Offered(line) ==
    /\ <<line.mc, line.loader>> \in DOMAIN LoaderVersions
    /\ line.loaderVersion # None => line.loaderVersion \in LoaderVersions[<<line.mc, line.loader>>]
    /\ line.recipe \notin {None, "declined"} => line.recipe \in Recipes[<<line.mc, line.loader>>]
    /\ line.recipe = "declined" => Recipes[<<line.mc, line.loader>>] # {}
    /\ line.platforms # {}
Shown(command) ==
    CASE command.op \in {"delete", "ban"} -> view.state = "main" /\ view.confirm = command
      [] command.op = "publish" ->
           \/ view.state = "pick" /\ picker.title = "publish" /\ command.name \in picker.items
           \/ view.state = "card" /\ build = command.name
      [] command.op = "install" -> view.state = "wizard" /\ wizard.step = "review" /\ Offered(command)
      [] command.op = "typed" -> view.typing

(* A command leaves the console only as the screen in front of the user    *)
(* asked for it: a deletion or a ban after the question that names it, a   *)
(* publication from the picker with that title or from the build's card,   *)
(* an installation from the review, with a loader, a version and a recipe  *)
(* that the server offers for the Minecraft version in the same line,      *)
(* whatever replies came late in between (wizard.Update, onBuilds).        *)
SentAsShown == Len(executing') > Len(executing) => Shown(Last(executing'))

(* A line whose command takes secret arguments is never kept in the        *)
(* history, also while the list of the commands has not come yet           *)
(* (startCommand, commandLabel).                                           *)
SecretsNotRemembered == lines \intersect SecretCommands = {}

(* While some player is listed the cursor is on a player: Enter never      *)
(* lands on the heading of a build, whatever rows a refresh brings         *)
(* (menu.clamp, menu.move).                                                *)
CursorOnPlayer ==
    view.state = "players" /\ (\E i \in DOMAIN menu.rows : ~ Static(menu.rows[i])) =>
        Current(menu) \notin {None, "build"}

(* In every step: a command is sent only as the screen asked for it,       *)
(* secrets are not kept in the history of lines, and the cursor stays on a *)
(* player, whatever replies come late.                                     *)
ConsoleFaithful == [][SentAsShown /\ SecretsNotRemembered' /\ CursorOnPlayer']_consoleVars
=============================================================================
