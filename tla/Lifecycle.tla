------------------------------ MODULE Lifecycle ------------------------------
(***************************************************************************)
(* Starting, stopping and restarting the server (cli start, daemon.Run,    *)
(* control.Listen, ReleasePid, relaunch).  A server process takes its      *)
(* public port, if an address is configured, the control socket and the    *)
(* pid file one after the other and gives them up in another order, one    *)
(* after the other too, while somebody may already start the next one:     *)
(* stop only sends a signal.  The listener for remote consoles is left     *)
(* out, but for its failure.                                               *)
(***************************************************************************)
EXTENDS Integers, FiniteSets

CONSTANTS Processes,   \* by pid
          MaxStarts, MaxKills  \* bounds: starts; kills and failures

VARIABLES public,      \* an address for the public handler is configured
          phase,       \* process -> how far daemon.Run is
          port,        \* who listens on the public address
          socketFile, listening,  \* who made the socket file; whose listener is open
          pidFile,
          jobsOpen,    \* processes with a jobs.Manager
          served,      \* processes whose handlers and goroutines were started
          quit, restarting, signalled,  \* Daemon.quit, Daemon.restarting, ctx.Done
          crossed,     \* history: see BindSocket and WritePid
          starts, kills

heldVars == <<public, port, socketFile, listening, pidFile, jobsOpen, served, crossed>>
requestVars == <<quit, restarting, signalled>>
lifecycleVars == <<phase, heldVars, requestVars, starts, kills>>

Free == "free"

ASSUME FreeAssumption == Free \notin Processes

Goes(p, to) == phase' = [phase EXCEPT ![p] = to]
Others(p) == Processes \ {p}

----------------------------------------------------------------------------
(* Start.  A step that fails ends Run, and what was deferred so far runs:  *)
(* from "unbinding" on when there is a listener, from "releasing" on else. *)

(* The configuration is loaded, the parts are wired and the commands       *)
(* registered.                                                             *)
Start(p) ==
    /\ phase[p] = "off" /\ starts < MaxStarts
    /\ starts' = starts + 1
    /\ Goes(p, "wired")
    /\ UNCHANGED <<heldVars, requestVars, kills>>

OpenPort(p) ==
    /\ phase[p] = "wired"
    /\ port' = IF public /\ port = Free THEN p ELSE port
    /\ Goes(p, IF public /\ port # Free THEN "off" ELSE "port")
    /\ UNCHANGED <<public, socketFile, listening, pidFile, jobsOpen, served, crossed, requestVars, starts, kills>>

(* Listen: a socket that answers belongs to a server that runs; a file     *)
(* nobody answers on is removed and made anew.                             *)
Answers == socketFile # Free /\ socketFile \in listening

DialSocket(p) ==
    /\ phase[p] = "port"
    /\ Goes(p, IF Answers THEN "releasing" ELSE "dialled")
    /\ UNCHANGED <<heldVars, requestVars, starts, kills>>

RemoveSocket(p) ==
    /\ phase[p] = "dialled"
    /\ socketFile' = Free
    /\ Goes(p, "removed")
    /\ UNCHANGED <<public, port, listening, pidFile, jobsOpen, served, crossed, requestVars, starts, kills>>

(* An address that is in use is refused.  The socket is crossed by another *)
(* process that has dialled and will remove the file, or whose listener is *)
(* open and will take the file along when it closes.                       *)
BindSocket(p) ==
    /\ phase[p] = "removed"
    /\ IF socketFile = Free
       THEN /\ socketFile' = p /\ listening' = listening \union {p}
            /\ crossed' = IF \E q \in Others(p) : phase[q] = "dialled" \/ q \in listening
                          THEN crossed \union {p} ELSE crossed
            /\ Goes(p, "socket")
       ELSE Goes(p, "releasing") /\ UNCHANGED <<socketFile, listening, crossed>>
    /\ UNCHANGED <<public, port, pidFile, jobsOpen, served, requestVars, starts, kills>>

(* The pid file is crossed by another process that has found its own pid   *)
(* in it and will remove it.                                               *)
PidWritten(p, content) ==
    /\ phase[p] = "socket"
    /\ pidFile' = content
    /\ crossed' = IF \E q \in Others(p) : phase[q] = "matched" THEN crossed \union {p} ELSE crossed
    /\ Goes(p, "pid")
    /\ UNCHANGED <<public, port, socketFile, listening, jobsOpen, served, requestVars, starts, kills>>
WritePidOnce(p) == PidWritten(p, IF pidFile = Free THEN p ELSE pidFile)
WritePid(p) == PidWritten(p, p)

(* The runtime directory, the socket file or the pid file cannot be        *)
(* written; a pid file that was opened is empty by then.                   *)
StartFails(p) ==
    /\ phase[p] \in {"dialled", "removed", "socket"} /\ kills < MaxKills
    /\ kills' = kills + 1
    /\ IF phase[p] = "socket" THEN pidFile' \in {pidFile, Free} ELSE UNCHANGED pidFile
    /\ Goes(p, IF phase[p] = "socket" THEN "unbinding" ELSE "releasing")
    /\ UNCHANGED <<public, port, socketFile, listening, jobsOpen, served, crossed, requestVars, starts>>

(* The job history is opened, and everything serves; or it cannot be.      *)
Serve(p) ==
    /\ phase[p] = "pid"
    /\ \/ /\ jobsOpen' = jobsOpen \union {p} /\ served' = served \union {p}
          /\ Goes(p, "serving")
       \/ Goes(p, "leaving") /\ UNCHANGED <<jobsOpen, served>>
    /\ UNCHANGED <<public, port, socketFile, listening, pidFile, crossed, requestVars, starts, kills>>

----------------------------------------------------------------------------
(* Requests, from consoles, the updater and stop, whatever the phase.      *)

RequestRestart(p) ==
    /\ p \in served \ restarting
    /\ restarting' = restarting \union {p} /\ quit' = quit \union {p}
    /\ UNCHANGED <<phase, heldVars, signalled, starts, kills>>

RequestStop(p) ==
    /\ p \in served \ quit
    /\ quit' = quit \union {p}
    /\ UNCHANGED <<phase, heldVars, restarting, signalled, starts, kills>>

(* stop: SIGTERM to the process the pid file names.                        *)
SignalStop ==
    /\ pidFile \in served \ signalled
    /\ signalled' = signalled \union {pidFile}
    /\ UNCHANGED <<phase, heldVars, quit, restarting, starts, kills>>

----------------------------------------------------------------------------
(* Stop *)

(* The public server first: it waits for its calls with its port closed.   *)
FreedPort(p) == port' = IF port = p THEN Free ELSE port

StopPublic(p) ==
    /\ phase[p] = "serving" /\ p \in quit \union signalled
    /\ FreedPort(p)
    /\ Goes(p, "draining")
    /\ UNCHANGED <<public, socketFile, listening, pidFile, jobsOpen, served, crossed, requestVars, starts, kills>>

(* Then the control server.  Closing a listener removes the file at its    *)
(* path, whoever made it; a second time it does nothing.                   *)
Closed(p) == /\ listening' = listening \ {p}
             /\ socketFile' = IF p \in listening THEN Free ELSE socketFile

StopControl(p) ==
    /\ phase[p] = "draining"
    /\ Closed(p)
    /\ Goes(p, "closing")
    /\ UNCHANGED <<public, port, pidFile, jobsOpen, served, crossed, requestVars, starts, kills>>

(* A server that fails by itself leaves at once, its own listener closed.  *)
ServeFails(p) ==
    /\ phase[p] = "serving" /\ kills < MaxKills
    /\ kills' = kills + 1
    /\ \/ FreedPort(p) /\ UNCHANGED <<listening, socketFile>>
       \/ Closed(p) /\ UNCHANGED port
       \/ UNCHANGED <<port, listening, socketFile>>
    /\ Goes(p, "closing")
    /\ UNCHANGED <<public, pidFile, jobsOpen, served, crossed, requestVars, starts>>

(* What is deferred, last first: the jobs, the pid file, the socket, the   *)
(* port.                                                                   *)
CloseJobs(p) ==
    /\ phase[p] = "closing"
    /\ jobsOpen' = jobsOpen \ {p}
    /\ Goes(p, "leaving")
    /\ UNCHANGED <<public, port, socketFile, listening, pidFile, served, crossed, requestVars, starts, kills>>

ReleasePid(p) ==
    /\ phase[p] = "leaving"
    /\ Goes(p, IF pidFile = p THEN "matched" ELSE "unbinding")
    /\ UNCHANGED <<heldVars, requestVars, starts, kills>>

RemovePid(p) ==
    /\ phase[p] = "matched"
    /\ pidFile' = Free
    /\ Goes(p, "unbinding")
    /\ UNCHANGED <<public, port, socketFile, listening, jobsOpen, served, crossed, requestVars, starts, kills>>

CloseListener(p) ==
    /\ phase[p] = "unbinding"
    /\ Closed(p)
    /\ Goes(p, "releasing")
    /\ UNCHANGED <<public, port, pidFile, jobsOpen, served, crossed, requestVars, starts, kills>>

(* relaunch runs the program again under the same pid.                     *)
Ended(p) ==
    /\ FreedPort(p)
    /\ jobsOpen' = jobsOpen \ {p} /\ served' = served \ {p} /\ crossed' = crossed \ {p}
    /\ quit' = quit \ {p} /\ restarting' = restarting \ {p} /\ signalled' = signalled \ {p}

Leave(p) ==
    /\ phase[p] = "releasing"
    /\ Ended(p)
    /\ Goes(p, IF p \in restarting THEN "wired" ELSE "off")
    /\ UNCHANGED <<public, socketFile, listening, pidFile, starts, kills>>

(* Killed: its files stay.                                                 *)
KillServer(p) ==
    /\ phase[p] # "off" /\ kills < MaxKills
    /\ kills' = kills + 1
    /\ Ended(p)
    /\ listening' = listening \ {p}
    /\ Goes(p, "off")
    /\ UNCHANGED <<public, socketFile, pidFile, starts>>

LifecycleInit ==
    /\ public \in BOOLEAN
    /\ phase = [p \in Processes |-> "off"]
    /\ port = Free /\ socketFile = Free /\ listening = {} /\ pidFile = Free
    /\ jobsOpen = {} /\ served = {} /\ crossed = {}
    /\ quit = {} /\ restarting = {} /\ signalled = {}
    /\ starts = 0 /\ kills = 0

LifecycleNext ==
    \/ \E p \in Processes :
         \/ Start(p) \/ OpenPort(p) \/ DialSocket(p) \/ RemoveSocket(p) \/ BindSocket(p) \/ WritePid(p)
         \/ StartFails(p) \/ Serve(p) \/ RequestRestart(p) \/ RequestStop(p)
         \/ StopPublic(p) \/ StopControl(p) \/ ServeFails(p) \/ CloseJobs(p) \/ ReleasePid(p)
         \/ RemovePid(p) \/ CloseListener(p) \/ Leave(p) \/ KillServer(p)
    \/ SignalStop

LifecycleSpec == LifecycleInit /\ [][LifecycleNext]_lifecycleVars

----------------------------------------------------------------------------
(* Properties *)

(* A server that serves can be reached and stopped, although the one       *)
(* before it may still be leaving, was killed or starts again (daemon.Run, *)
(* control.Listen, ReleasePid).  The control socket is its own whenever    *)
(* there is a public address: its port is the lock of a start, and without *)
(* one two starts at once can remove each other's socket.  The pid file is *)
(* its own unless a process that was leaving had looked into it before     *)
(* this one wrote it and removes it afterwards: the code has that race.    *)
ServerReachable ==
    \A p \in Processes : phase[p] = "serving" =>
        /\ p \in listening /\ (public => port = p)
        /\ (public \/ p \notin crossed) => socketFile = p
        /\ p \notin crossed => pidFile = p

=============================================================================
