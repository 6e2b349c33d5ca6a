-------------------------------- MODULE Jobs --------------------------------
(***************************************************************************)
(* Background jobs of the administration API: the Manager of               *)
(* server/internal/jobs, which keeps <id>.json (the record) and            *)
(* <id>.events (the log, one JSON line per event) for every job, the       *)
(* daemon that opens and closes it, and the client of                      *)
(* server/internal/control that follows a job over reconnections.          *)
(*                                                                         *)
(* Every handler runs under m.mu and is one action here.  What it does to  *)
(* the disk may fail (at most MaxFaults times), and the process may end    *)
(* between any two actions or in the middle of a line of the log.          *)
(***************************************************************************)
EXTENDS Naturals, Sequences, FiniteSets

CONSTANTS Owners,        \* identities of tokens that start jobs
          Revocable,     \* those which can be revoked: all but "local"
          Keys,          \* idempotency keys
          NoKey,         \* the empty key of a request
          Commands,      \* digests of normalised command lines
          Ids,           \* identifiers rand.Text() returns
          Clients,       \* calls of WatchJob
          None,          \* the absent value
          MaxConcurrent, \* maxConcurrent, 4 in the code
          MaxJobs,       \* length of the history, 10000 in the code
          MaxLog,        \* events a log holds before output is dropped
          MaxPending,    \* bound: StartJob requests waiting for the lock
          MaxFaults,     \* bound: failing writes
          MaxCuts        \* bound: crashes, stops and lost connections

ASSUME Bounds == /\ MaxConcurrent \in Nat \ {0}
                 /\ MaxJobs \in Nat
                 /\ MaxLog \in Nat
                 /\ MaxPending \in Nat \ {0}
                 /\ MaxFaults \in Nat
                 /\ MaxCuts \in Nat
                 /\ Revocable \subseteq Owners
                 /\ NoKey \notin Keys
                 /\ None \notin Ids
                 /\ Keys \cap Ids = {}

VARIABLES
  phase,      \* of the process: "down", "starting", "up" or "closing"
  file,       \* <id>.json on disk
  log,        \* complete lines of <id>.events on disk
  tail,       \* <id>.events ends in an incomplete line
  jobs,       \* m.jobs, with what the worker of a job is doing
  running,    \* m.running
  pending,    \* StartJob requests past the checks made without the lock
  revoked,    \* tokens revoked or expired
  watch,      \* the clients following a job, with their streams
  told,       \* ghost: jobs StartJob answered, by owner and key
  succeeded,  \* ghost: jobs whose command returned without error
  faults,     \* writes that failed so far
  cuts        \* crashes, stops and lost connections so far

diskVars == <<file, log, tail>>
ghosts == <<told, succeeded>>
serverVars == <<phase, file, log, tail, jobs, running, pending, revoked,
                told, succeeded>>
vars == <<phase, file, log, tail, jobs, running, pending, revoked, watch,
          told, succeeded, faults, cuts>>

Final == {"succeeded", "failed", "cancelled", "interrupted"}
Info == [state : {"running"} \cup Final, last : Nat, owner : Owners,
         key : Keys \cup Ids, command : Commands]
NoFile == None

\* worker: "run" while the command runs, then its result until run() gets
\* the lock; "none" when there is no worker.
Job == [info : Info, writeError : BOOLEAN, cancelled : BOOLEAN,
        worker : {"run", "ok", "failed", "none"}]

Line == [seq : Nat, kind : {"output", "ok", "failed", "broken"}]
Request == [owner : Owners, key : Keys \cup {NoKey}, command : Commands]

Watching == [job : Ids \cup {None},
             at : {"off", "connect", "send", "wait", "ask", "done", "error"},
             after : Nat, upto : Nat, finished : BOOLEAN, signalled : BOOLEAN]
NotWatching == [job |-> None, at |-> "off", after |-> 0, upto |-> 0,
                finished |-> FALSE, signalled |-> FALSE]

\* The absent value is no record of a job.
ASSUME NoneIsNoRecord == None \notin Info /\ None \notin Job

Loaded(id) == jobs[id] # None
LoadedIds == {id \in Ids : Loaded(id)}
IsRunning(id) == Loaded(id) /\ jobs[id].info.state = "running"
Serving == phase \in {"up", "closing"}

Init ==
  /\ phase = "down"
  /\ file = [id \in Ids |-> NoFile]
  /\ log = [id \in Ids |-> <<>>]
  /\ tail = [id \in Ids |-> FALSE]
  /\ jobs = [id \in Ids |-> None]
  /\ running = 0
  /\ pending = {}
  /\ revoked = {}
  /\ watch = [c \in Clients |-> NotWatching]
  /\ told = [o \in Owners |-> [k \in Keys |-> {}]]
  /\ succeeded = {}
  /\ faults = 0
  /\ cuts = 0

-----------------------------------------------------------------------------
(***************************************************************************)
(* The log.  appendEvent yields the log after the call: all written; or    *)
(* nothing, an incomplete line, or a line whose Sync or Close failed, each *)
(* of which is an error and leaves LastSequence alone.  The next line goes *)
(* on where an incomplete one ended, and the two are one broken line.      *)
(***************************************************************************)
Written(id, kind) ==
  Append(log[id], [seq |-> jobs[id].info.last + 1,
                   kind |-> IF tail[id] THEN "broken" ELSE kind])

appendEvent(id, kind) ==
  LET none == [ok |-> TRUE, log |-> log[id], tail |-> tail[id],
               last |-> jobs[id].info.last]
      all == [none EXCEPT !.log = Written(id, kind), !.tail = FALSE,
                          !.last = @ + 1]
  IN  IF kind = "output" /\ none.last >= MaxLog THEN {none}
      ELSE {all} \cup
           IF faults = MaxFaults THEN {}
           ELSE {[none EXCEPT !.ok = FALSE],
                 [none EXCEPT !.ok = FALSE, !.tail = TRUE],
                 [all EXCEPT !.ok = FALSE, !.last = none.last]}

Appended(id, a) == /\ log' = [log EXCEPT ![id] = a.log]
                   /\ tail' = [tail EXCEPT ![id] = a.tail]

\* readEvents refuses a log with a line it cannot parse or a sequence number
\* out of order; an incomplete last line is left out.
Readable(l) == \A i \in DOMAIN l : l[i].kind # "broken" /\ l[i].seq = i

\* close(job.changed): streams that took the channel wake up.
Signal(id) ==
  watch' = [c \in Clients |-> IF watch[c].job = id
                              THEN [watch[c] EXCEPT !.signalled = TRUE]
                              ELSE watch[c]]

\* A disk operation of a handler fails or not.
Spend(ok) == faults' = IF ok THEN faults ELSE faults + 1
MayFail == faults < MaxFaults

-----------------------------------------------------------------------------
(***************************************************************************)
(* StartJob.  Submit stands for the checks made before the lock is taken,  *)
(* Authorize and active among them, so that the token may be revoked and   *)
(* the server stopped between them and the rest.                           *)
(***************************************************************************)
Submit(r) ==
  /\ phase = "up"
  /\ r.owner \notin revoked
  /\ Cardinality(pending) < MaxPending
  /\ pending' = pending \cup {r}
  /\ UNCHANGED <<phase, diskVars, jobs, running, revoked, watch, ghosts,
                 faults, cuts>>

\* The job that already has this owner and key.
Known(r) == {id \in LoadedIds : /\ jobs[id].info.owner = r.owner
                                /\ jobs[id].info.key = r.key}

Answer(r, id) ==
  told' = IF r.key = NoKey THEN told
          ELSE [told EXCEPT ![r.owner][r.key] = @ \cup {id}]

NewInfoKeyless(r, id) == [state |-> "running", last |-> 0, owner |-> r.owner,
                          key |-> r.key, command |-> r.command]

\* For an empty key rand.Text() invents one; the identifier stands for it.
NewInfo(r, id) == [state |-> "running", last |-> 0, owner |-> r.owner,
                   key |-> IF r.key = NoKey THEN id ELSE r.key,
                   command |-> r.command]

Room == running < MaxConcurrent /\ Cardinality(LoadedIds) < MaxJobs

StartJob(r, id) ==
  /\ jobs' = [jobs EXCEPT ![id] = [info |-> NewInfo(r, id), writeError |-> FALSE,
                                  cancelled |-> FALSE, worker |-> "run"]]
  /\ running' = running + 1
  /\ Answer(r, id)

StartUnsaved(r, id) ==
  /\ phase = "up" /\ r \in pending
  /\ Known(r) = {} /\ Room
  /\ file[id] = NoFile /\ ~Loaded(id)
  /\ StartJob(r, id)
  /\ pending' = pending \ {r}
  /\ UNCHANGED <<phase, diskVars, revoked, watch, succeeded, faults, cuts>>

Start(r, id) ==
  /\ phase = "up" /\ r \in pending
  /\ Known(r) = {} /\ Room
  /\ file[id] = NoFile
  /\ file' = [file EXCEPT ![id] = NewInfo(r, id)]
  /\ StartJob(r, id)
  /\ pending' = pending \ {r}
  /\ UNCHANGED <<phase, log, tail, revoked, watch, succeeded, faults, cuts>>

StartAgain(r, id) ==
  /\ phase = "up" /\ r \in pending
  /\ id \in Known(r)
  /\ jobs[id].info.command = r.command
  /\ Answer(r, id)
  /\ pending' = pending \ {r}
  /\ UNCHANGED <<phase, diskVars, jobs, running, revoked, watch, succeeded,
                 faults, cuts>>

StartRefused(r) ==
  /\ r \in pending
  /\ \/ /\ \/ phase = "closing"
           \/ \E id \in Known(r) : jobs[id].info.command # r.command
           \/ Known(r) = {} /\ ~Room
        /\ UNCHANGED faults
     \/ /\ phase = "up" /\ Known(r) = {} /\ Room   \* save fails
        /\ MayFail /\ Spend(FALSE)
  /\ pending' = pending \ {r}
  /\ UNCHANGED <<phase, diskVars, jobs, running, revoked, watch, ghosts, cuts>>

-----------------------------------------------------------------------------
(***************************************************************************)
(* The worker of a job: it writes output and progress while the command    *)
(* runs, writes the error the command returned, and then sets the final    *)
(* state, appends the result and saves the record under one lock.          *)
(***************************************************************************)
Wrote(id, a, j) ==
  /\ Appended(id, a)
  /\ jobs' = [jobs EXCEPT ![id] = [j EXCEPT
                 !.info.last = a.last,
                 !.writeError = @ \/ ~a.ok]]
  /\ IF a.last # jobs[id].info.last THEN Signal(id) ELSE UNCHANGED watch
  /\ Spend(a.ok)

Output(id) ==
  /\ Loaded(id) /\ jobs[id].worker = "run"
  /\ \E a \in appendEvent(id, "output") : Wrote(id, a, jobs[id])
  /\ UNCHANGED <<phase, file, running, pending, revoked, ghosts, cuts>>

CommandDone(id) ==
  /\ Loaded(id) /\ jobs[id].worker = "run"
  /\ jobs' = [jobs EXCEPT ![id].worker = "ok"]
  /\ succeeded' = succeeded \cup {id}
  /\ UNCHANGED <<phase, diskVars, running, pending, revoked, watch, told,
                 faults, cuts>>

CommandFailed(id) ==
  /\ Loaded(id) /\ jobs[id].worker = "run"
  /\ \E a \in appendEvent(id, "output") :
       Wrote(id, a, [jobs[id] EXCEPT !.worker = "failed"])
  /\ UNCHANGED <<phase, file, running, pending, revoked, ghosts, cuts>>

VerdictWithoutLog(j) == CASE j.cancelled -> "cancelled"
                          [] ~j.cancelled /\ j.worker = "failed" -> "failed"
                          [] OTHER -> "succeeded"

Verdict(j) == CASE j.cancelled -> "cancelled"
                [] ~j.cancelled /\ (j.worker = "failed" \/ j.writeError) -> "failed"
                [] OTHER -> "succeeded"

ResultKind(j) == IF Verdict(j) = "succeeded" THEN "ok" ELSE "failed"

WriteErrorUnlessSaved(j, a, saved) == j.writeError \/ ~a.ok

WriteError(j, a, saved) == j.writeError \/ ~a.ok \/ ~saved

FinishJob(id) ==
  LET j == jobs[id] IN
  /\ Loaded(id) /\ j.worker \in {"ok", "failed"}
  /\ \E a \in appendEvent(id, ResultKind(j)), saved \in BOOLEAN :
       LET info == [j.info EXCEPT !.last = a.last,
                                  !.state = IF a.ok THEN Verdict(j) ELSE "failed"]
           failures == (IF a.ok THEN 0 ELSE 1) + (IF saved THEN 0 ELSE 1)
       IN  /\ faults + failures <= MaxFaults
           /\ Appended(id, a)
           /\ file' = IF saved THEN [file EXCEPT ![id] = info] ELSE file
           /\ jobs' = [jobs EXCEPT ![id] =
                [info |-> [info EXCEPT !.state = IF saved THEN @ ELSE "failed"],
                 writeError |-> WriteError(j, a, saved),
                 cancelled |-> TRUE, worker |-> "none"]]
           /\ faults' = faults + failures
  /\ Signal(id)
  /\ running' = running - 1
  /\ UNCHANGED <<phase, pending, revoked, ghosts, cuts>>

\* jobs cancel: the context is cancelled only once the request is saved; a
\* save that fails changes nothing but the flag the client shows.
Cancel(id) ==
  /\ Serving /\ IsRunning(id)
  /\ file' = [file EXCEPT ![id] = jobs[id].info]
  /\ jobs' = [jobs EXCEPT ![id].cancelled = TRUE]
  /\ UNCHANGED <<phase, log, tail, running, pending, revoked, watch, ghosts,
                 faults, cuts>>

Revoke(o) ==
  /\ o \in Revocable
  /\ revoked' = revoked \cup {o}
  /\ UNCHANGED <<phase, diskVars, jobs, running, pending, watch, ghosts,
                 faults, cuts>>

\* The goroutine of run() that asks every two seconds whether the token of
\* the job is still active.
TokenWatchMissing(id) == FALSE /\ UNCHANGED vars

TokenWatch(id) ==
  /\ Loaded(id) /\ jobs[id].worker # "none" /\ ~jobs[id].cancelled
  /\ jobs[id].info.owner \in revoked
  /\ jobs' = [jobs EXCEPT ![id].cancelled = TRUE]
  /\ UNCHANGED <<phase, diskVars, running, pending, revoked, watch, ghosts,
                 faults, cuts>>
-----------------------------------------------------------------------------
(***************************************************************************)
(* The process.  New loads the records one by one in the order of their    *)
(* random names; a record still "running" gets the verdict its log holds,  *)
(* and is saved again.  An error there ends Daemon.Run, and the service    *)
(* manager starts the process again.                                       *)
(***************************************************************************)
Boot ==
  /\ phase = "down"
  /\ phase' = "starting"
  /\ UNCHANGED <<diskVars, jobs, running, pending, revoked, watch, ghosts,
                 faults, cuts>>

RecoveredState(l) ==
  CASE \E i \in DOMAIN l : l[i].kind = "ok" -> "succeeded"
    [] \E i \in DOMAIN l : l[i].kind = "failed" -> "failed"
    [] OTHER -> "interrupted"

RecoveredAll(id) ==
  [file[id] EXCEPT !.state = RecoveredState(log[id]),
                   !.last = IF Len(log[id]) > @ THEN Len(log[id]) ELSE @]

Recovered(id) ==
  IF file[id].state # "running" THEN file[id]
  ELSE [file[id] EXCEPT
          !.state = RecoveredState(log[id]),
          !.last = IF Len(log[id]) > @ THEN Len(log[id]) ELSE @]

NotLoaded(id) == phase = "starting" /\ file[id] # NoFile /\ ~Loaded(id)

Load(id) ==
  /\ NotLoaded(id)
  /\ file[id].state = "running" => Readable(log[id])
  /\ file' = [file EXCEPT ![id] = Recovered(id)]
  /\ jobs' = [jobs EXCEPT ![id] = [info |-> Recovered(id), writeError |-> FALSE,
                                  cancelled |-> TRUE, worker |-> "none"]]
  /\ UNCHANGED <<phase, log, tail, running, pending, revoked, watch, ghosts,
                 faults, cuts>>

\* The process ends: memory is lost, clients lose their connections.
End ==
  /\ phase' = "down"
  /\ jobs' = [id \in Ids |-> None]
  /\ running' = 0
  /\ pending' = {}
  /\ watch' = [c \in Clients |->
                 IF watch[c].at \in {"send", "wait", "ask"}
                 THEN [watch[c] EXCEPT !.at = "connect"] ELSE watch[c]]
  /\ UNCHANGED <<revoked, ghosts>>

LoadRefused(id) ==
  /\ NotLoaded(id)
  /\ file[id].state = "running"
  /\ \/ ~Readable(log[id]) /\ UNCHANGED faults
     \/ MayFail /\ Spend(FALSE)                        \* save fails
  /\ End
  /\ UNCHANGED <<diskVars, cuts>>

Up ==
  /\ phase = "starting"
  /\ \A id \in Ids : file[id] # NoFile => Loaded(id)
  /\ phase' = "up"
  /\ UNCHANGED <<diskVars, jobs, running, pending, revoked, watch, ghosts,
                 faults, cuts>>

\* SIGTERM, stop or restart: m.ctx is cancelled, Close cancels every job.
Close ==
  /\ phase = "up"
  /\ cuts < MaxCuts /\ cuts' = cuts + 1
  /\ phase' = "closing"
  /\ jobs' = [id \in Ids |-> IF Loaded(id)
                             THEN [jobs[id] EXCEPT !.cancelled = TRUE]
                             ELSE None]
  /\ UNCHANGED <<diskVars, running, pending, revoked, watch, ghosts, faults>>

\* m.workers.Wait() returned.  When the timeout comes first, that is Crash.
Exit ==
  /\ phase = "closing"
  /\ \A id \in LoadedIds : jobs[id].worker = "none"
  /\ End
  /\ UNCHANGED <<diskVars, faults, cuts>>

Crash ==
  /\ phase # "down"
  /\ cuts < MaxCuts /\ cuts' = cuts + 1
  /\ End
  /\ UNCHANGED <<diskVars, faults>>

\* The process dies inside appendEvent, or in run() after it and before
\* save: part of the line is written, or all of it.
CrashWriting(id) ==
  /\ Loaded(id) /\ jobs[id].worker # "none"
  /\ jobs[id].worker = "run" => jobs[id].info.last < MaxLog
  /\ cuts < MaxCuts /\ cuts' = cuts + 1
  /\ \/ /\ tail' = [tail EXCEPT ![id] = TRUE]
        /\ UNCHANGED log
     \/ /\ log' = [log EXCEPT ![id] =
                    Written(id, IF jobs[id].worker = "run" THEN "output"
                                ELSE ResultKind(jobs[id]))]
        /\ tail' = [tail EXCEPT ![id] = FALSE]
  /\ End
  /\ UNCHANGED <<file, faults>>

-----------------------------------------------------------------------------
(***************************************************************************)
(* WatchJob in the client and Stream in the server.  The server reads the  *)
(* log, the state and the channel under the lock, sends without it, and    *)
(* waits for the channel it took.  A client that loses the connection      *)
(* starts a new stream after the last event it received.                   *)
(***************************************************************************)
Watch(c, id) ==
  /\ watch[c].at = "off"
  /\ Serving /\ Loaded(id)
  /\ watch' = [watch EXCEPT ![c] = [NotWatching EXCEPT !.job = id,
                                                      !.at = "connect"]]
  /\ UNCHANGED <<serverVars, faults, cuts>>

StreamReady(c) == /\ Serving
                  /\ \/ watch[c].at = "connect"
                     \/ watch[c].at = "wait" /\ watch[c].signalled

StreamAccepts(c) == LET j == jobs[watch[c].job] IN
  /\ watch[c].after <= j.info.last
  /\ ~j.writeError
  /\ Readable(log[watch[c].job])

StreamRead(c) ==
  LET id == watch[c].job IN
  /\ StreamReady(c)
  /\ StreamAccepts(c)
  /\ watch' = [watch EXCEPT ![c] = [@ EXCEPT
       !.at = "send", !.upto = Len(log[id]), !.signalled = FALSE,
       !.finished = ~IsRunning(id)]]
  /\ UNCHANGED <<serverVars, faults, cuts>>

StreamRefused(c) ==
  /\ StreamReady(c)
  /\ ~StreamAccepts(c)
  /\ watch' = [watch EXCEPT ![c].at = "error"]
  /\ UNCHANGED <<serverVars, faults, cuts>>

Send(c) ==
  /\ watch[c].at = "send"
  /\ watch[c].after < watch[c].upto
  /\ watch' = [watch EXCEPT ![c].after = @ + 1]
  /\ UNCHANGED <<serverVars, faults, cuts>>

SentAskingLate(c) ==
  /\ watch[c].at = "send"
  /\ watch[c].after >= watch[c].upto
  /\ watch' = [watch EXCEPT ![c].at = IF ~IsRunning(watch[c].job) THEN "ask"
                                                                 ELSE "wait"]
  /\ UNCHANGED <<serverVars, faults, cuts>>

SentTakingChannel(c) ==
  /\ watch[c].at = "send"
  /\ watch[c].after >= watch[c].upto
  /\ watch' = [watch EXCEPT ![c].signalled = FALSE,
                            ![c].at = IF watch[c].finished THEN "ask"
                                                           ELSE "wait"]
  /\ UNCHANGED <<serverVars, faults, cuts>>

Sent(c) ==
  /\ watch[c].at = "send"
  /\ watch[c].after >= watch[c].upto
  /\ watch' = [watch EXCEPT ![c].at = IF watch[c].finished THEN "ask"
                                                          ELSE "wait"]
  /\ UNCHANGED <<serverVars, faults, cuts>>

\* GetJob after the stream ended.
Ask(c) ==
  LET j == jobs[watch[c].job] IN
  /\ Serving /\ watch[c].at = "ask"
  /\ watch' = [watch EXCEPT ![c].at =
                 CASE j.writeError -> "error"
                   [] ~j.writeError /\ j.info.state \in Final -> "done"
                   [] OTHER -> "connect"]
  /\ UNCHANGED <<serverVars, faults, cuts>>

Disconnect(c) ==
  /\ watch[c].at \in {"send", "wait", "ask"}
  /\ cuts < MaxCuts /\ cuts' = cuts + 1
  /\ watch' = [watch EXCEPT ![c].at = "connect"]
  /\ UNCHANGED <<serverVars, faults>>

\* The server stayed away for all attempts of WatchJob.
GiveUp(c) ==
  /\ watch[c].at = "connect" /\ ~Serving
  /\ watch' = [watch EXCEPT ![c].at = "error"]
  /\ UNCHANGED <<serverVars, faults, cuts>>
-----------------------------------------------------------------------------
StartNext == \E r \in Request :
               \/ Submit(r) \/ StartRefused(r)
               \/ \E id \in Ids : Start(r, id) \/ StartAgain(r, id)

WorkerNext(id) == \/ Output(id) \/ CommandDone(id) \/ CommandFailed(id)
                  \/ FinishJob(id) \/ Cancel(id) \/ TokenWatch(id)

ProcessNext == \/ Boot \/ Up \/ Close \/ Exit \/ Crash
               \/ \E id \in Ids : Load(id) \/ LoadRefused(id) \/ CrashWriting(id)

WatchNext(c) == \/ \E id \in Ids : Watch(c, id)
                \/ StreamRead(c) \/ StreamRefused(c) \/ Send(c) \/ Sent(c)
                \/ Ask(c) \/ Disconnect(c) \/ GiveUp(c)

Next == \/ StartNext \/ ProcessNext
        \/ \E id \in Ids : WorkerNext(id)
        \/ \E o \in Owners : Revoke(o)
        \/ \E c \in Clients : WatchNext(c)

Spec == Init /\ [][Next]_vars

(***************************************************************************)
(* The service manager starts the process again and New runs to its end;   *)
(* a worker gets the lock; the ticker of run() fires; handlers and clients *)
(* go on.  A command is assumed to return only once its context is         *)
(* cancelled: otherwise it may run for ever.                               *)
(***************************************************************************)
ProcessFairness ==
  /\ WF_vars(Boot) /\ WF_vars(Up) /\ WF_vars(Exit)
  /\ \A id \in Ids : WF_vars(Load(id))

WorkerFairness ==
  \A id \in Ids :
    /\ WF_vars(Loaded(id) /\ jobs[id].cancelled /\ CommandFailed(id))
    /\ WF_vars(FinishJob(id))
    /\ WF_vars(TokenWatch(id))

WatchFairness ==
  \A c \in Clients :
    WF_vars(StreamRead(c) \/ StreamRefused(c) \/ Send(c) \/ Sent(c) \/ Ask(c))

FairSpec == Spec /\ ProcessFairness /\ WorkerFairness /\ WatchFairness

-----------------------------------------------------------------------------
(***************************************************************************)
(* Records on disk and in memory, logs and streams have their types; the   *)
(* key the manager stores for a job is never the empty one of a request;   *)
(* and m.running is the number of workers, at most the limit, through      *)
(* every failure of run().                                                 *)
(***************************************************************************)
TypeOK ==
  /\ phase \in {"down", "starting", "up", "closing"}
  /\ \A id \in Ids : file[id] # NoFile => file[id] \in Info
  /\ log \in [Ids -> Seq(Line)]
  /\ tail \in [Ids -> BOOLEAN]
  /\ \A id \in Ids : Loaded(id) => jobs[id] \in Job
  /\ running = Cardinality({id \in LoadedIds : jobs[id].worker # "none"})
  /\ running <= MaxConcurrent
  /\ pending \in SUBSET Request
  /\ revoked \in SUBSET Revocable
  /\ watch \in [Clients -> Watching]
  /\ told \in [Owners -> [Keys -> SUBSET Ids]]
  /\ succeeded \in SUBSET Ids
  /\ faults \in 0 .. MaxFaults
  /\ cuts \in 0 .. MaxCuts

(***************************************************************************)
(* A key names one job for ever: however often an owner repeats a StartJob *)
(* whose answer was lost, before and after crashes and restarts, every     *)
(* answer names the same job, so the command ran at most once.             *)
(***************************************************************************)
OneJobPerKey ==
  \A o \in Owners, k \in Keys : Cardinality(told[o][k]) <= 1

(***************************************************************************)
(* A final state GetJob answers is on disk, so that it is also the answer  *)
(* after a restart.                                                        *)
(***************************************************************************)
AnsweredOnDisk ==
  \A id \in LoadedIds :
    jobs[id].info.state \in Final /\ ~jobs[id].writeError
      => file[id] = jobs[id].info

(***************************************************************************)
(* A job shown as succeeded, also after a recovery from its log, has a     *)
(* command that returned without error and a log that Stream can replay.   *)
(***************************************************************************)
SuccessTrue ==
  \A id \in LoadedIds :
    jobs[id].info.state = "succeeded" =>
      id \in succeeded /\ Readable(log[id])

(***************************************************************************)
(* A client whose WatchJob returned has received the whole log, result or  *)
(* not, across reconnections and restarts; and when no write failed, the   *)
(* position it resumes from is never beyond the end of the log as the      *)
(* (restarted) server knows it.                                            *)
(***************************************************************************)
WatchComplete ==
  \A c \in Clients :
    /\ watch[c].at = "done" => watch[c].after = Len(log[watch[c].job])
    /\ watch[c].at = "connect" /\ Serving /\ faults = 0 =>
         watch[c].after <= jobs[watch[c].job].info.last

(***************************************************************************)
(* A record that reached a final state is never rewritten with another,    *)
(* by a late cancel, a restart or a recovery.                              *)
(***************************************************************************)
FinalForever ==
  [][\A id \in Ids : file[id] # NoFile /\ file[id].state \in Final
                       => file'[id] = file[id]]_vars

(***************************************************************************)
(* administration.mdx: after a restart unfinished work becomes interrupted *)
(* and is not repeated.  New can do that only if it can read the log.      *)
(***************************************************************************)
UnfinishedRecovers ==
  \A id \in Ids : NotLoaded(id) /\ file[id].state = "running"
                     => Readable(log[id])

(***************************************************************************)
(* No wakeup is lost: a client that follows a job which has ended gets to  *)
(* the end of its WatchJob.                                                *)
(***************************************************************************)
WatchEnds ==
  \A c \in Clients :
    (/\ watch[c].at \in {"connect", "send", "wait", "ask"}
     /\ file[watch[c].job].state \in Final)
      ~> watch[c].at \in {"done", "error"}

(***************************************************************************)
(* A revoked token has no running jobs in the end, though a StartJob that  *)
(* was checked before the revocation may still start one after it.         *)
(***************************************************************************)
RevokedStops ==
  \A o \in Revocable :
    <>(o \in revoked)
      => <>[](\A id \in LoadedIds : jobs[id].info.owner = o => ~IsRunning(id))

=============================================================================
