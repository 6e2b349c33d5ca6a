----------------------------- MODULE JobsProofs -----------------------------
(***************************************************************************)
(* Proofs about Jobs, for any owners, keys, commands, identifiers and      *)
(* clients, any limits, and any number of failing writes and crashes.      *)
(***************************************************************************)
EXTENDS Jobs, FiniteSetTheorems, TLAPS

-----------------------------------------------------------------------------
(***************************************************************************)
(* The inductive invariant.  Types says more than TypeOK of the two maps   *)
(* that hold records or nothing; the history in memory is finite, which    *)
(* makes m.running a number of workers.                                    *)
(***************************************************************************)
Workers == {id \in LoadedIds : jobs[id].worker # "none"}

Types ==
  /\ phase \in {"down", "starting", "up", "closing"}
  /\ file \in [Ids -> Info \cup {None}]
  /\ log \in [Ids -> Seq(Line)]
  /\ tail \in [Ids -> BOOLEAN]
  /\ jobs \in [Ids -> Job \cup {None}]
  /\ pending \in SUBSET Request
  /\ revoked \in SUBSET Revocable
  /\ watch \in [Clients -> Watching]
  /\ told \in [Owners -> [Keys -> SUBSET Ids]]
  /\ succeeded \in SUBSET Ids
  /\ faults \in 0 .. MaxFaults
  /\ cuts \in 0 .. MaxCuts

Counted ==
  /\ IsFiniteSet(LoadedIds)
  /\ running = Cardinality(Workers)
  /\ running <= MaxConcurrent

(***************************************************************************)
(* What is on disk of one job, with or without a process: a log only with  *)
(* a record; an invented key is that of the job itself; a result in the    *)
(* log, or in the record, only of a command that returned without error.   *)
(***************************************************************************)
Stored(id) ==
  /\ file[id] = NoFile => log[id] = <<>> /\ ~tail[id] /\ ~Loaded(id)
  /\ file[id] # NoFile /\ file[id].key \in Ids => file[id].key = id
  /\ (\E i \in DOMAIN log[id] : log[id][i].kind = "ok") => id \in succeeded
  /\ file[id] # NoFile /\ file[id].state = "succeeded" =>
       id \in succeeded /\ Readable(log[id])
  /\ file[id] # NoFile /\ file[id].state \in Final /\ faults = 0 =>
       Len(log[id]) <= file[id].last

(***************************************************************************)
(* What the manager keeps of it: a worker as long as the job runs, on disk *)
(* too; the record on disk but for progress; and a log that grows with     *)
(* LastSequence until a write fails.                                       *)
(***************************************************************************)
Kept(id) ==
  LET j == jobs[id] IN
  /\ j.info.owner = file[id].owner /\ j.info.key = file[id].key
  /\ j.worker = "none" <=> j.info.state \in Final
  /\ j.worker # "none" => file[id].state = "running"
  /\ j.worker = "ok" => id \in succeeded
  /\ j.worker # "none" /\ ~j.writeError =>
       Readable(log[id]) /\ ~tail[id] /\ Len(log[id]) = j.info.last
  /\ j.info.state = "succeeded" => id \in succeeded /\ Readable(log[id])
  /\ j.info.state \in Final /\ ~j.writeError => file[id] = j.info
  /\ faults = 0 => ~j.writeError /\ Len(log[id]) <= j.info.last

JobOK(id) == Stored(id) /\ (Loaded(id) => Kept(id))

(* An owner's key names one record, and that is the one StartJob answers.  *)
OneRecord ==
  /\ \A i, j \in Ids : /\ file[i] # NoFile /\ file[j] # NoFile
                       /\ file[i].owner = file[j].owner
                       /\ file[i].key = file[j].key
                       => i = j
  /\ \A o \in Owners, k \in Keys : \A id \in told[o][k] :
       file[id] # NoFile /\ file[id].owner = o /\ file[id].key = k

(* A process that serves has loaded every record.                          *)
AllLoaded == Serving => \A id \in Ids : file[id] # NoFile => Loaded(id)

(***************************************************************************)
(* A client has received a part of the log; and all of it once the server  *)
(* saw the job finished before it sent what it had read.                   *)
(***************************************************************************)
StreamAt(w) ==
  w.at # "off" =>
    /\ w.job \in Ids /\ file[w.job] # NoFile
    /\ w.after <= Len(log[w.job])
    /\ w.at = "send" => w.upto <= Len(log[w.job])
    /\ w.at = "send" /\ w.finished =>
         file[w.job].state \in Final /\ w.upto = Len(log[w.job])
    /\ w.at \in {"ask", "done"} =>
         file[w.job].state \in Final /\ w.after = Len(log[w.job])

StreamOK(c) == StreamAt(watch[c])

IInv == /\ Types /\ Counted
        /\ \A id \in Ids : JobOK(id)
        /\ OneRecord /\ AllLoaded
        /\ \A c \in Clients : StreamOK(c)

-----------------------------------------------------------------------------
(* What a step may do to the disk: a record stays, a final one with its    *)
(* log as it is, and no log gets shorter.                                  *)
Grows ==
  \A id \in Ids :
    /\ file[id] # NoFile => file'[id] # NoFile
    /\ file[id] # NoFile /\ file[id].state \in Final =>
         file'[id] = file[id] /\ log'[id] = log[id]
    /\ Len(log[id]) <= Len(log'[id])

(* A job that a step does not touch stays as the invariant says. *)
LEMMA UntouchedJob ==
  ASSUME NEW id \in Ids, JobOK(id), Types, faults' >= faults, faults' \in Nat,
         file'[id] = file[id], log'[id] = log[id], tail'[id] = tail[id],
         jobs'[id] = jobs[id], succeeded \subseteq succeeded'
  PROVE  JobOK(id)'
<1>1. faults' = 0 => faults = 0
  BY DEF Types
<1> QED BY <1>1 DEF JobOK, Stored, Kept, Loaded, Readable, NoFile

(* A job whose process ended: what is on disk stays. *)
LEMMA EndedJob ==
  ASSUME NEW id \in Ids, JobOK(id), Types, faults' >= faults, faults' \in Nat,
         file'[id] = file[id], log'[id] = log[id], tail'[id] = tail[id],
         jobs'[id] = None, succeeded' = succeeded
  PROVE  JobOK(id)'
<1>1. faults' = 0 => faults = 0
  BY DEF Types
<1> QED BY <1>1 DEF JobOK, Stored, Loaded, Readable, NoFile

(* A stream that is not moved, or is cut, is still what it was. *)
LEMMA UntouchedStream ==
  ASSUME NEW c \in Clients, StreamOK(c), Types, Grows,
         watch'[c].at \in {watch[c].at, "connect"},
         watch[c].at = "off" => watch'[c].at = "off",
         watch'[c].job = watch[c].job, watch'[c].after = watch[c].after,
         watch'[c].upto = watch[c].upto, watch'[c].finished = watch[c].finished,
         log' \in [Ids -> Seq(Line)]
  PROVE  StreamOK(c)'
<1>1. CASE watch[c].at = "off"
  BY <1>1 DEF StreamOK, StreamAt
<1>2. CASE watch[c].at # "off"
  <2> DEFINE id == watch[c].job
  <2>1. id \in Ids /\ file[id] # NoFile /\ watch[c].after <= Len(log[id])
    BY <1>2 DEF StreamOK, StreamAt
  <2>2. watch[c] \in Watching
    BY DEF Types
  <2>3. watch[c].after \in Nat /\ watch[c].upto \in Nat
    BY <2>2 DEF Watching
  <2>4. Len(log[id]) \in Nat /\ Len(log'[id]) \in Nat
    BY <2>1 DEF Types
  <2>5. /\ file'[id] # NoFile
        /\ file[id].state \in Final => file'[id] = file[id] /\ log'[id] = log[id]
        /\ Len(log[id]) <= Len(log'[id])
    BY <2>1 DEF Grows
  <2>6. watch[c].after <= Len(log'[id])
    BY <2>1, <2>3, <2>4, <2>5
  <2>7. watch[c].at = "send" => watch[c].upto <= Len(log'[id])
    BY <1>2, <2>3, <2>4, <2>5 DEF StreamOK, StreamAt
  <2>8. NoFile' = NoFile
    BY DEF NoFile
  <2> QED BY <1>2, <2>1, <2>5, <2>6, <2>7, <2>8 DEF StreamOK, StreamAt
<1> QED BY <1>1, <1>2

(* What is in memory is a job, with the types of its fields. *)
LEMMA LoadedJob ==
  ASSUME Types, NEW id \in Ids, Loaded(id)
  PROVE  /\ jobs[id] \in Job
         /\ jobs[id].info \in Info
         /\ jobs[id].info.last \in Nat
         /\ jobs[id].worker \in {"run", "ok", "failed", "none"}
         /\ jobs[id].writeError \in BOOLEAN /\ jobs[id].cancelled \in BOOLEAN
<1>1. jobs[id] \in Job
  BY DEF Types, Loaded
<1>2. jobs[id].info \in Info
  BY <1>1 DEF Job
<1> QED BY <1>1, <1>2 DEF Job, Info

(* The same for a record on disk. *)
LEMMA FileInfo ==
  ASSUME Types, NEW id \in Ids, file[id] # NoFile
  PROVE  /\ file[id] \in Info
         /\ file[id].state \in {"running"} \cup Final
         /\ file[id].last \in Nat
         /\ file[id].owner \in Owners /\ file[id].key \in Keys \cup Ids
<1>1. file[id] \in Info
  BY DEF Types, NoFile
<1> QED BY <1>1 DEF Info

(* A job in memory has a record on disk. *)
LEMMA LoadedOnDisk ==
  ASSUME Types, NEW id \in Ids, JobOK(id), Loaded(id)
  PROVE  file[id] # NoFile /\ Kept(id)
BY DEF JobOK, Stored

(* What appendEvent can do. *)
LEMMA Appending ==
  ASSUME Types, NEW id \in Ids, Loaded(id),
         NEW kind \in {"output", "ok", "failed"}, NEW a \in appendEvent(id, kind)
  PROVE  /\ a.ok \in BOOLEAN /\ a.tail \in BOOLEAN /\ a.last \in Nat
         /\ a.log \in {log[id], Written(id, kind)}
         /\ a.ok => \/ /\ a.log = log[id] /\ a.tail = tail[id]
                       /\ a.last = jobs[id].info.last /\ kind = "output"
                    \/ /\ a.log = Written(id, kind) /\ ~a.tail
                       /\ a.last = jobs[id].info.last + 1
         /\ ~a.ok => faults # MaxFaults /\ a.last = jobs[id].info.last
<1>1. jobs[id].info.last \in Nat /\ tail[id] \in BOOLEAN
  BY LoadedJob DEF Types
<1> DEFINE none == [ok |-> TRUE, log |-> log[id], tail |-> tail[id],
                    last |-> jobs[id].info.last]
           all == [none EXCEPT !.log = Written(id, kind), !.tail = FALSE,
                               !.last = @ + 1]
<1>2. \/ a = none /\ kind = "output"
      \/ a = all
      \/ /\ faults # MaxFaults
         /\ \/ a = [none EXCEPT !.ok = FALSE]
            \/ a = [none EXCEPT !.ok = FALSE, !.tail = TRUE]
            \/ a = [all EXCEPT !.ok = FALSE, !.last = none.last]
  BY DEF appendEvent
<1>3. CASE a = none /\ kind = "output"
  BY <1>1, <1>3
<1>4. CASE a = all
  BY <1>1, <1>4
<1>5. CASE faults # MaxFaults /\ a = [none EXCEPT !.ok = FALSE]
  BY <1>1, <1>5
<1>6. CASE faults # MaxFaults /\ a = [none EXCEPT !.ok = FALSE, !.tail = TRUE]
  BY <1>1, <1>6
<1>7. CASE faults # MaxFaults /\ a = [all EXCEPT !.ok = FALSE, !.last = none.last]
  BY <1>1, <1>7
<1> QED BY <1>2, <1>3, <1>4, <1>5, <1>6, <1>7

(* The line appendEvent writes, and what it does to a readable log. *)
LEMMA WrittenLog ==
  ASSUME Types, NEW id \in Ids, Loaded(id), NEW kind \in {"output", "ok", "failed"}
  PROVE  /\ Written(id, kind) \in Seq(Line)
         /\ Len(Written(id, kind)) = Len(log[id]) + 1
         /\ \A i \in DOMAIN log[id] : Written(id, kind)[i] = log[id][i]
         /\ (\E i \in DOMAIN Written(id, kind) : Written(id, kind)[i].kind = "ok")
              => kind = "ok" \/ \E i \in DOMAIN log[id] : log[id][i].kind = "ok"
         /\ Readable(log[id]) /\ ~tail[id] /\ Len(log[id]) = jobs[id].info.last
              => Readable(Written(id, kind))
<1> DEFINE line == [seq |-> jobs[id].info.last + 1,
                    kind |-> IF tail[id] THEN "broken" ELSE kind]
<1>1. jobs[id].info.last \in Nat /\ log[id] \in Seq(Line)
  BY LoadedJob DEF Types
<1>2. line \in Line
  BY <1>1 DEF Line
<1>3. Written(id, kind) = Append(log[id], line)
  BY DEF Written
<1>a. line.kind # "ok" \/ kind = "ok"
  OBVIOUS
<1>b. ~tail[id] => line.kind # "broken"
  OBVIOUS
<1>c. line.seq = jobs[id].info.last + 1
  OBVIOUS
<1> HIDE DEF line
<1>4. /\ Append(log[id], line) \in Seq(Line)
      /\ Len(Append(log[id], line)) = Len(log[id]) + 1
      /\ \A i \in DOMAIN log[id] : Append(log[id], line)[i] = log[id][i]
      /\ Append(log[id], line)[Len(log[id]) + 1] = line
      /\ DOMAIN Append(log[id], line) = 1 .. Len(log[id]) + 1
      /\ DOMAIN log[id] = 1 .. Len(log[id])
      /\ Len(log[id]) \in Nat
  BY <1>1, <1>2
<1>5. \A i \in DOMAIN Append(log[id], line) :
         i \in DOMAIN log[id] \/ i = Len(log[id]) + 1
  BY <1>4
<1>6. (\E i \in DOMAIN Written(id, kind) : Written(id, kind)[i].kind = "ok")
         => kind = "ok" \/ \E i \in DOMAIN log[id] : log[id][i].kind = "ok"
  BY <1>3, <1>4, <1>5, <1>a
<1>7. Readable(log[id]) /\ ~tail[id] /\ Len(log[id]) = jobs[id].info.last
         => Readable(Written(id, kind))
  BY <1>3, <1>4, <1>5, <1>b, <1>c DEF Readable
<1> QED BY <1>3, <1>4, <1>6, <1>7

(* Every stream is where it was. *)
SameStreams ==
  \A c \in Clients :
    /\ watch'[c].at = watch[c].at /\ watch'[c].job = watch[c].job
    /\ watch'[c].after = watch[c].after /\ watch'[c].upto = watch[c].upto
    /\ watch'[c].finished = watch[c].finished

(* Waking the streams of a job moves none of them. *)
LEMMA Signalling ==
  ASSUME Types, NEW id \in Ids, Signal(id) \/ watch' = watch
  PROVE  watch' \in [Clients -> Watching] /\ SameStreams
<1>1. \A c \in Clients : watch[c] \in Watching
  BY DEF Types
<1>2. CASE watch' = watch
  BY <1>2 DEF Types, SameStreams
<1>3. CASE Signal(id)
  <2>1. ASSUME NEW c \in Clients
        PROVE  /\ [watch[c] EXCEPT !.signalled = TRUE] \in Watching
               /\ watch'[c] \in {watch[c], [watch[c] EXCEPT !.signalled = TRUE]}
    BY <1>1, <1>3 DEF Signal, Watching
  <2>2. \A c \in Clients : watch'[c] \in Watching
    BY <1>1, <2>1
  <2>3. watch' \in [Clients -> Watching]
    BY <1>3, <2>2 DEF Signal
  <2>4. ASSUME NEW c \in Clients
        PROVE  /\ watch'[c].at = watch[c].at /\ watch'[c].job = watch[c].job
               /\ watch'[c].after = watch[c].after /\ watch'[c].upto = watch[c].upto
               /\ watch'[c].finished = watch[c].finished
    <3>1. watch'[c] = watch[c] \/ watch'[c] = [watch[c] EXCEPT !.signalled = TRUE]
      BY <2>1
    <3>2. CASE watch'[c] = watch[c]
      BY <3>2
    <3>3. CASE watch'[c] = [watch[c] EXCEPT !.signalled = TRUE]
      BY <1>1, <3>3 DEF Watching
    <3> QED BY <3>1, <3>2, <3>3
  <2> QED BY <2>3, <2>4 DEF SameStreams
<1> QED BY <1>2, <1>3

(* A step that starts and ends no worker keeps their number. *)
LEMMA SameCount ==
  ASSUME Counted, UNCHANGED running, LoadedIds' = LoadedIds,
         \A id \in LoadedIds : jobs'[id].worker = "none" <=> jobs[id].worker = "none"
  PROVE  Counted'
<1>1. Workers' = Workers
  BY DEF Workers
<1> QED BY <1>1 DEF Counted

(* A step about one loaded job concerns no other job and no stream. *)
LEMMA LocalStep ==
  ASSUME IInv, Types', NEW id \in Ids, Loaded(id), Loaded(id)',
         \A k \in Ids \ {id} : /\ file'[k] = file[k] /\ log'[k] = log[k]
                               /\ tail'[k] = tail[k] /\ jobs'[k] = jobs[k],
         succeeded \subseteq succeeded', faults' >= faults, told' = told, phase' = phase,
         JobOK(id)', Kept(id)',
         file'[id].owner = file[id].owner, file'[id].key = file[id].key,
         file[id].state \in Final => file'[id] = file[id] /\ log'[id] = log[id],
         Len(log[id]) <= Len(log'[id]), SameStreams
  PROVE  /\ Grows
         /\ \A k \in Ids : JobOK(k)'
         /\ OneRecord' /\ AllLoaded'
         /\ \A c \in Clients : StreamOK(c)'
         /\ LoadedIds' = LoadedIds
<1>1. file[id] # NoFile /\ file'[id] # NoFile
  BY LoadedOnDisk DEF IInv, JobOK, Stored
<1>0. faults' \in Nat /\ Types
  BY DEF IInv, Types
<1>2. \A k \in Ids : JobOK(k)'
  <2> SUFFICES ASSUME NEW k \in Ids, k # id PROVE JobOK(k)'
    OBVIOUS
  <2> QED BY <1>0, UntouchedJob DEF IInv
<1>3. Grows
  <2>1. \A k \in Ids \ {id} : Len(log[k]) <= Len(log'[k])
    BY <1>0 DEF Types
  <2> QED BY <1>1, <2>1 DEF Grows
<1>4. \A k \in Ids : Loaded(k)' <=> Loaded(k)
  BY DEF Loaded
<1>5. LoadedIds' = LoadedIds
  BY <1>4 DEF LoadedIds
<1>6. AllLoaded'
  BY <1>1, <1>4 DEF IInv, AllLoaded, Serving, NoFile
<1>7. \A k \in Ids : /\ file'[k] # NoFile <=> file[k] # NoFile
                     /\ file'[k].owner = file[k].owner /\ file'[k].key = file[k].key
  BY <1>1
<1>8. OneRecord'
  <2>1. OneRecord /\ told \in [Owners -> [Keys -> SUBSET Ids]]
    BY <1>0 DEF IInv, Types
  <2> QED BY <1>7, <2>1 DEF OneRecord, NoFile
<1>9. \A c \in Clients : StreamOK(c)'
  BY <1>0, <1>3, UntouchedStream DEF IInv, SameStreams, Types
<1> QED BY <1>2, <1>3, <1>5, <1>6, <1>8, <1>9

-----------------------------------------------------------------------------
(* The steps of a worker. *)

(* What a worker relies on. *)
LEMMA WorkerFacts ==
  ASSUME IInv, NEW id \in Ids, Loaded(id), jobs[id].worker # "none"
  PROVE  /\ Types /\ file[id] # NoFile /\ Kept(id) /\ Stored(id)
         /\ file[id].state = "running" /\ jobs[id].info.state = "running"
         /\ jobs[id] \in Job /\ jobs[id].info \in Info
<1>1. Types /\ JobOK(id)
  BY DEF IInv
<1>2. file[id] # NoFile /\ Kept(id) /\ Stored(id)
  BY <1>1, LoadedOnDisk DEF JobOK
<1>3. jobs[id] \in Job /\ jobs[id].info \in Info
  BY <1>1, LoadedJob
<1>4. jobs[id].info.state = "running"
  BY <1>2, <1>3 DEF Kept, Info
<1> QED BY <1>1, <1>2, <1>3, <1>4 DEF Kept

(* Writing a line keeps the job in order, whatever becomes of the line. *)
LEMMA WroteStep ==
  ASSUME IInv, NEW id \in Ids, Loaded(id), jobs[id].worker = "run",
         NEW worker \in {"run", "failed"},
         NEW a \in appendEvent(id, "output"),
         Wrote(id, a, [jobs[id] EXCEPT !.worker = worker]),
         UNCHANGED <<phase, file, running, pending, revoked, ghosts, cuts>>
  PROVE  IInv' /\ Grows
<1> DEFINE j == jobs[id]
           new == [[j EXCEPT !.worker = worker] EXCEPT
                     !.info.last = a.last, !.writeError = @ \/ ~a.ok]
<1>1. /\ Types /\ file[id] # NoFile /\ Kept(id) /\ Stored(id)
      /\ file[id].state = "running" /\ j.info.state = "running"
      /\ j \in Job /\ j.info \in Info
  BY WorkerFacts
<1>2. /\ a.ok \in BOOLEAN /\ a.tail \in BOOLEAN /\ a.last \in Nat
      /\ a.log \in {log[id], Written(id, "output")}
      /\ a.ok => \/ a.log = log[id] /\ a.tail = tail[id] /\ a.last = j.info.last
                 \/ a.log = Written(id, "output") /\ ~a.tail /\ a.last = j.info.last + 1
      /\ ~a.ok => faults # MaxFaults /\ a.last = j.info.last
  BY <1>1, Appending
<1>3. new \in Job /\ new # None
  <2>1. [j.info EXCEPT !.last = a.last] \in Info
    BY <1>1, <1>2 DEF Info
  <2>2. (j.writeError \/ ~a.ok) \in BOOLEAN
    OBVIOUS
  <2>3. new \in Job
    BY <1>1, <2>1, <2>2 DEF Job
  <2> QED BY <2>3, NoneIsNoRecord
<1>4. jobs' = [jobs EXCEPT ![id] = new]
  BY DEF Wrote
<1>5. /\ log' = [log EXCEPT ![id] = a.log] /\ tail' = [tail EXCEPT ![id] = a.tail]
      /\ faults' = IF a.ok THEN faults ELSE faults + 1
      /\ Signal(id) \/ watch' = watch
  <2>1. IF a.last # jobs[id].info.last THEN Signal(id) ELSE UNCHANGED watch
    BY DEF Wrote
  <2>2. Signal(id) \/ watch' = watch
    BY <2>1
  <2> QED BY <2>2 DEF Wrote, Appended, Spend
<1>6. faults' \in 0 .. MaxFaults /\ faults' >= faults /\ (~a.ok => faults' # 0)
  <2>1. CASE a.ok
    BY <1>1, <1>5, <2>1, Bounds DEF Types
  <2>2. CASE ~a.ok
    BY <1>1, <1>2, <1>5, <2>2, Bounds DEF Types
  <2> QED BY <2>1, <2>2
<1>7. a.log \in Seq(Line) /\ Len(log[id]) <= Len(a.log) /\ Len(a.log) \in Nat
  BY <1>1, <1>2, WrittenLog DEF Types
<1>8. watch' \in [Clients -> Watching] /\ SameStreams
  BY <1>1, <1>5, Signalling
<1>9. Types'
  BY <1>1, <1>2, <1>3, <1>4, <1>5, <1>6, <1>7, <1>8 DEF Types, ghosts
<1>10. /\ jobs'[id] = new /\ log'[id] = a.log /\ tail'[id] = a.tail
       /\ \A k \in Ids \ {id} : /\ file'[k] = file[k] /\ log'[k] = log[k]
                                /\ tail'[k] = tail[k] /\ jobs'[k] = jobs[k]
       /\ file'[id] = file[id] /\ succeeded' = succeeded
  BY <1>1, <1>4, <1>5 DEF Types, ghosts
<1>11. Loaded(id)'
  BY <1>3, <1>10 DEF Loaded
<1> HIDE DEF new
<1>12. /\ new.info.owner = j.info.owner /\ new.info.key = j.info.key
       /\ new.info.state = "running" /\ new.info.last = a.last
       /\ new.worker = worker /\ new.writeError = (j.writeError \/ ~a.ok)
  BY <1>1 DEF new, Info
<1>13. Stored(id)'
  <2>1. (\E i \in DOMAIN a.log : a.log[i].kind = "ok") => id \in succeeded
    BY <1>1, <1>2, WrittenLog DEF Stored
  <2> QED BY <1>1, <1>10, <1>11, <2>1 DEF Stored, Final, NoFile
<1>14. Kept(id)'
  <2>1. ~new.writeError => Readable(a.log) /\ ~a.tail /\ Len(a.log) = a.last
    <3> SUFFICES ASSUME ~new.writeError
                 PROVE  Readable(a.log) /\ ~a.tail /\ Len(a.log) = a.last
      OBVIOUS
    <3>1. a.ok /\ ~j.writeError
      BY <1>12
    <3>2. Readable(log[id]) /\ ~tail[id] /\ Len(log[id]) = j.info.last
      BY <1>1, <3>1 DEF Kept
    <3>3. CASE a.log = log[id] /\ a.tail = tail[id] /\ a.last = j.info.last
      BY <3>2, <3>3
    <3>4. CASE a.log = Written(id, "output") /\ ~a.tail /\ a.last = j.info.last + 1
      BY <1>1, <3>2, <3>4, WrittenLog
    <3> QED BY <1>2, <3>1, <3>3, <3>4
  <2>2. faults' = 0 => ~new.writeError /\ Len(a.log) <= new.info.last
    <3>1. faults' = 0 => faults = 0 /\ a.ok
      BY <1>1, <1>2, <1>5, <1>6 DEF Types
    <3>2. faults' = 0 => ~new.writeError
      BY <1>1, <1>12, <3>1 DEF Kept
    <3> QED BY <1>7, <1>12, <2>1, <3>2
  <2> QED BY <1>1, <1>10, <1>12, <2>1, <2>2 DEF Kept, Final
<1>15. /\ Grows /\ (\A k \in Ids : JobOK(k)') /\ OneRecord' /\ AllLoaded'
       /\ (\A c \in Clients : StreamOK(c)') /\ LoadedIds' = LoadedIds
  <2>1. JobOK(id)'
    BY <1>13, <1>14 DEF JobOK
  <2>2. told' = told /\ phase' = phase
    BY DEF ghosts
  <2> QED BY <1>1, <1>6, <1>7, <1>8, <1>9, <1>10, <1>11, <1>14, <2>1, <2>2, LocalStep
          DEF Final
<1>16. Counted'
  BY <1>10, <1>12, <1>15, SameCount DEF IInv, LoadedIds
<1> QED BY <1>9, <1>15, <1>16 DEF IInv

(* Output and the error of a command are such lines. *)
LEMMA OutputStep ==
  ASSUME IInv, NEW id \in Ids, Output(id) \/ CommandFailed(id)
  PROVE  IInv' /\ Grows
<1>1. CASE Output(id)
  <2>1. Loaded(id) /\ jobs[id].worker = "run"
    BY <1>1 DEF Output
  <2>2. jobs[id] \in Job
    BY <2>1, WorkerFacts
  <2>3. jobs[id] = [jobs[id] EXCEPT !.worker = "run"]
    BY <2>1, <2>2 DEF Job
  <2>4. PICK a \in appendEvent(id, "output") : Wrote(id, a, jobs[id])
    BY <1>1 DEF Output
  <2>5. Wrote(id, a, [jobs[id] EXCEPT !.worker = "run"])
    BY <2>3, <2>4
  <2> QED BY <1>1, <2>1, <2>5, WroteStep DEF Output
<1>2. CASE CommandFailed(id)
  <2>1. Loaded(id) /\ jobs[id].worker = "run"
    BY <1>2 DEF CommandFailed
  <2>2. PICK a \in appendEvent(id, "output") :
          Wrote(id, a, [jobs[id] EXCEPT !.worker = "failed"])
    BY <1>2 DEF CommandFailed
  <2> QED BY <1>2, <2>1, <2>2, WroteStep DEF CommandFailed
<1> QED BY <1>1, <1>2

(***************************************************************************)
(* A worker or a handler that changes only its job's flags: a command that *)
(* returned, a cancellation, a token that is no longer active.  The record *)
(* a cancellation saves is the one in memory.                              *)
(***************************************************************************)
LEMMA FlagStep ==
  ASSUME IInv, NEW id \in Ids, Loaded(id), jobs[id].worker # "none",
         NEW worker \in {"run", "ok", "failed"}, NEW cancelled \in BOOLEAN,
         jobs' = [jobs EXCEPT ![id] = [@ EXCEPT !.worker = worker,
                                                !.cancelled = cancelled]],
         file' \in {file, [file EXCEPT ![id] = jobs[id].info]},
         succeeded' \in {succeeded, succeeded \cup {id}},
         worker = "ok" => id \in succeeded',
         UNCHANGED <<phase, log, tail, running, pending, revoked, watch, told,
                     faults, cuts>>
  PROVE  IInv' /\ Grows
<1> DEFINE j == jobs[id]
           new == [j EXCEPT !.worker = worker, !.cancelled = cancelled]
<1>1. /\ Types /\ file[id] # NoFile /\ Kept(id) /\ Stored(id)
      /\ file[id].state = "running" /\ j.info.state = "running"
      /\ j \in Job /\ j.info \in Info
  BY WorkerFacts
<1>2. new \in Job /\ new # None
  BY <1>1, NoneIsNoRecord DEF Job
<1>3. /\ new.info = j.info /\ new.worker = worker /\ new.writeError = j.writeError
  BY <1>1 DEF Job
<1>4. /\ jobs' = [jobs EXCEPT ![id] = new]
      /\ jobs'[id] = new /\ log' = log /\ tail' = tail
      /\ \A k \in Ids \ {id} : file'[k] = file[k] /\ jobs'[k] = jobs[k]
      /\ file'[id] \in {file[id], j.info}
      /\ succeeded \subseteq succeeded' /\ faults' = faults
  BY <1>1 DEF Types
<1> HIDE DEF new
<1>5. Types'
  <2>1. file' \in [Ids -> Info \cup {None}]
    BY <1>1 DEF Types
  <2>2. jobs' \in [Ids -> Job \cup {None}]
    BY <1>1, <1>2, <1>4 DEF Types
  <2>3. succeeded' \in SUBSET Ids
    BY <1>1 DEF Types
  <2> QED BY <1>1, <2>1, <2>2, <2>3 DEF Types
<1>6. /\ file'[id] \in Info /\ file'[id] # NoFile
      /\ file'[id].state = "running"
      /\ file'[id].owner = file[id].owner /\ file'[id].key = file[id].key
  <2>1. file'[id] = file[id] \/ file'[id] = j.info
    BY <1>4
  <2>2. file[id] \in Info
    BY <1>1, FileInfo
  <2> QED BY <1>1, <2>1, <2>2, NoneIsNoRecord DEF Kept, NoFile
<1>7. Loaded(id)'
  BY <1>2, <1>4 DEF Loaded
<1>8. Stored(id)'
  BY <1>1, <1>4, <1>6, <1>7 DEF Stored, Final, NoFile
<1>9. Kept(id)'
  BY <1>1, <1>3, <1>4, <1>6 DEF Kept, Final
<1>10. /\ Grows /\ (\A k \in Ids : JobOK(k)') /\ OneRecord' /\ AllLoaded'
       /\ (\A c \in Clients : StreamOK(c)') /\ LoadedIds' = LoadedIds
  <2>1. JobOK(id)'
    BY <1>8, <1>9 DEF JobOK
  <2>2. SameStreams
    BY DEF SameStreams
  <2>3. Len(log[id]) <= Len(log'[id]) /\ faults' >= faults
    BY <1>1, <1>4 DEF Types
  <2>4. \A k \in Ids \ {id} : /\ file'[k] = file[k] /\ log'[k] = log[k]
                              /\ tail'[k] = tail[k] /\ jobs'[k] = jobs[k]
    BY <1>4
  <2> QED BY <1>1, <1>4, <1>5, <1>6, <1>7, <1>9, <2>1, <2>2, <2>3, <2>4, LocalStep
          DEF Final
<1>11. Counted'
  BY <1>3, <1>4, <1>10, SameCount DEF IInv, LoadedIds
<1> QED BY <1>5, <1>10, <1>11 DEF IInv

(* CommandDone, Cancel and TokenWatch are such steps. *)
LEMMA FlagActions ==
  ASSUME IInv, NEW id \in Ids, CommandDone(id) \/ Cancel(id) \/ TokenWatch(id)
  PROVE  IInv' /\ Grows
<1>1. Loaded(id) /\ Types
  BY DEF IInv, CommandDone, Cancel, IsRunning, TokenWatch
<1> DEFINE j == jobs[id]
<1>2. j \in Job /\ jobs \in [Ids -> Job \cup {None}]
  BY <1>1, LoadedJob DEF Types
<1>3. j.cancelled \in BOOLEAN /\ j.worker \in {"run", "ok", "failed", "none"}
  BY <1>2 DEF Job
<1>4. CASE CommandDone(id)
  <2>1. jobs' = [jobs EXCEPT ![id] = [@ EXCEPT !.worker = "ok",
                                              !.cancelled = j.cancelled]]
    <3>1. [j EXCEPT !.worker = "ok"]
            = [j EXCEPT !.worker = "ok", !.cancelled = j.cancelled]
      BY <1>2 DEF Job
    <3>2. jobs' = [jobs EXCEPT ![id] = [j EXCEPT !.worker = "ok"]]
      BY <1>4 DEF CommandDone
    <3> QED BY <3>1, <3>2
  <2>2. /\ j.worker # "none" /\ id \in succeeded'
        /\ file' = file /\ succeeded' = succeeded \cup {id}
        /\ UNCHANGED <<phase, log, tail, running, pending, revoked, watch, told,
                       faults, cuts>>
    BY <1>4 DEF CommandDone, diskVars
  <2> QED BY <1>1, <1>3, <2>1, <2>2, FlagStep
<1>5. CASE Cancel(id) \/ TokenWatch(id)
  <2>1. jobs' = [jobs EXCEPT ![id] = [@ EXCEPT !.worker = j.worker,
                                              !.cancelled = TRUE]]
    <3>1. [j EXCEPT !.cancelled = TRUE]
            = [j EXCEPT !.worker = j.worker, !.cancelled = TRUE]
      BY <1>2 DEF Job
    <3>2. jobs' = [jobs EXCEPT ![id] = [j EXCEPT !.cancelled = TRUE]]
      BY <1>5 DEF Cancel, TokenWatch
    <3> QED BY <3>1, <3>2
  <2>2. j.worker # "none" /\ (j.worker = "ok" => id \in succeeded)
    <3>1. Kept(id)
      BY <1>1, LoadedOnDisk DEF IInv
    <3>2. CASE Cancel(id)
      BY <3>1, <3>2 DEF Cancel, IsRunning, Kept, Final
    <3> QED BY <1>5, <3>1, <3>2 DEF TokenWatch, Kept
  <2>3. /\ file' \in {file, [file EXCEPT ![id] = j.info]} /\ succeeded' = succeeded
        /\ UNCHANGED <<phase, log, tail, running, pending, revoked, watch, told,
                       faults, cuts>>
    BY <1>5 DEF Cancel, TokenWatch, diskVars, ghosts
  <2> QED BY <1>1, <1>3, <2>1, <2>2, <2>3, FlagStep
<1> QED BY <1>4, <1>5

(* The verdict on a job: success takes a command that returned without     *)
(* error, no cancellation and no failed write.                             *)
LEMMA VerdictTrue ==
  ASSUME NEW j \in Job
  PROVE  /\ Verdict(j) \in Final
         /\ Verdict(j) = "succeeded" => j.worker # "failed" /\ ~j.writeError
         /\ ResultKind(j) \in {"ok", "failed"}
         /\ ResultKind(j) = "ok" => Verdict(j) = "succeeded"
<1>1. j.cancelled \in BOOLEAN /\ j.writeError \in BOOLEAN
  BY DEF Job
<1>2. CASE j.cancelled
  BY <1>2 DEF Verdict, ResultKind, Final
<1>3. CASE ~j.cancelled /\ (j.worker = "failed" \/ j.writeError)
  BY <1>3 DEF Verdict, ResultKind, Final
<1>4. CASE ~j.cancelled /\ ~(j.worker = "failed" \/ j.writeError)
  BY <1>4 DEF Verdict, ResultKind, Final
<1> QED BY <1>1, <1>2, <1>3, <1>4

(* run() ends a job: one worker less, and a final state that is true. *)
LEMMA FinishStep ==
  ASSUME IInv, NEW id \in Ids, FinishJob(id)
  PROVE  IInv' /\ Grows
<1> DEFINE j == jobs[id]
<1>1. Loaded(id) /\ j.worker \in {"ok", "failed"}
  BY DEF FinishJob
<1>2. /\ Types /\ file[id] # NoFile /\ Kept(id) /\ Stored(id)
      /\ file[id].state = "running" /\ j.info.state = "running"
      /\ j \in Job /\ j.info \in Info
  BY <1>1, WorkerFacts
<1> DEFINE kind == ResultKind(j)
           info(a) == [j.info EXCEPT !.last = a.last,
                                     !.state = IF a.ok THEN Verdict(j) ELSE "failed"]
           failures(a, saved) == (IF a.ok THEN 0 ELSE 1) + (IF saved THEN 0 ELSE 1)
<1>3. PICK a \in appendEvent(id, kind), saved \in BOOLEAN :
        /\ faults + failures(a, saved) <= MaxFaults
        /\ Appended(id, a)
        /\ file' = IF saved THEN [file EXCEPT ![id] = info(a)] ELSE file
        /\ jobs' = [jobs EXCEPT ![id] =
             [info |-> [info(a) EXCEPT !.state = IF saved THEN @ ELSE "failed"],
              writeError |-> WriteError(j, a, saved),
              cancelled |-> TRUE, worker |-> "none"]]
        /\ faults' = faults + failures(a, saved)
  BY DEF FinishJob
<1>4. /\ kind \in {"ok", "failed"} /\ Verdict(j) \in Final
      /\ kind = "ok" => Verdict(j) = "succeeded"
      /\ Verdict(j) = "succeeded" => j.worker # "failed" /\ ~j.writeError
  BY <1>2, VerdictTrue
<1>5. /\ a.ok \in BOOLEAN /\ a.tail \in BOOLEAN /\ a.last \in Nat
      /\ a.log \in {log[id], Written(id, kind)}
      /\ a.ok => a.log = Written(id, kind) /\ ~a.tail /\ a.last = j.info.last + 1
      /\ ~a.ok => a.last = j.info.last
  <2>1. kind # "output" /\ kind \in {"output", "ok", "failed"}
    BY <1>4
  <2> HIDE DEF kind
  <2> QED BY <1>1, <1>2, <1>3, <2>1, Appending
<1> DEFINE new == info(a)
           mem == [new EXCEPT !.state = IF saved THEN @ ELSE "failed"]
           job == [info |-> mem, writeError |-> WriteError(j, a, saved),
                   cancelled |-> TRUE, worker |-> "none"]
<1>6. /\ new \in Info /\ new.state = (IF a.ok THEN Verdict(j) ELSE "failed")
      /\ new.last = a.last /\ new.owner = j.info.owner /\ new.key = j.info.key
  <2>1. (IF a.ok THEN Verdict(j) ELSE "failed") \in {"running"} \cup Final
    BY <1>4 DEF Final
  <2> QED BY <1>2, <1>5, <2>1 DEF Info
<1> HIDE DEF new
<1>7. /\ mem \in Info /\ mem.last = a.last /\ mem.owner = j.info.owner
      /\ mem.key = j.info.key
      /\ saved => mem = new
      /\ ~saved => mem.state = "failed"
  <2>1. CASE saved
    BY <1>6, <2>1 DEF Info
  <2>2. CASE ~saved
    BY <1>6, <2>2 DEF Info, Final
  <2> QED BY <2>1, <2>2
<1> HIDE DEF mem
<1>8. /\ job.info = mem /\ job.worker = "none"
      /\ job.writeError = (j.writeError \/ ~a.ok \/ ~saved)
      /\ job \in Job /\ job # None
  <2>1. WriteError(j, a, saved) = (j.writeError \/ ~a.ok \/ ~saved)
    BY DEF WriteError
  <2>2. WriteError(j, a, saved) \in BOOLEAN
    BY <2>1
  <2>3. job \in Job
    BY <1>7, <2>2 DEF Job
  <2> QED BY <2>1, <2>3, NoneIsNoRecord
<1> HIDE DEF job
<1>9. /\ jobs' = [jobs EXCEPT ![id] = job]
      /\ file' = IF saved THEN [file EXCEPT ![id] = new] ELSE file
      /\ log' = [log EXCEPT ![id] = a.log] /\ tail' = [tail EXCEPT ![id] = a.tail]
      /\ running' = running - 1 /\ Signal(id)
      /\ succeeded' = succeeded /\ told' = told /\ phase' = phase
      /\ pending' = pending /\ revoked' = revoked /\ cuts' = cuts
  BY <1>3 DEF FinishJob, Appended, ghosts, job, mem, new
<1>10. /\ faults' \in 0 .. MaxFaults /\ faults' >= faults
       /\ faults' = 0 => faults = 0 /\ a.ok /\ saved
  <2>1. failures(a, saved) \in Nat /\ (failures(a, saved) = 0 => a.ok /\ saved)
    BY <1>5
  <2>2. faults \in Nat /\ faults' = faults + failures(a, saved)
        /\ faults + failures(a, saved) <= MaxFaults
    BY <1>2, <1>3 DEF Types
  <2> HIDE DEF failures
  <2> QED BY <2>1, <2>2, Bounds
<1>11. a.log \in Seq(Line) /\ Len(log[id]) <= Len(a.log) /\ Len(a.log) \in Nat
  BY <1>1, <1>2, <1>4, <1>5, WrittenLog DEF Types
<1>12. watch' \in [Clients -> Watching] /\ SameStreams
  BY <1>2, <1>9, Signalling
<1>13. Types'
  <2>1. file' \in [Ids -> Info \cup {None}]
    BY <1>2, <1>6, <1>9 DEF Types
  <2> QED BY <1>2, <1>5, <1>8, <1>9, <1>10, <1>11, <1>12, <2>1 DEF Types
<1>14. /\ jobs'[id] = job /\ log'[id] = a.log /\ tail'[id] = a.tail
       /\ \A k \in Ids \ {id} : /\ file'[k] = file[k] /\ log'[k] = log[k]
                                /\ tail'[k] = tail[k] /\ jobs'[k] = jobs[k]
       /\ file'[id] = IF saved THEN new ELSE file[id]
  BY <1>2, <1>9 DEF Types
<1>15. Loaded(id)'
  BY <1>8, <1>14 DEF Loaded
<1>16. /\ file'[id] # NoFile /\ file'[id].owner = file[id].owner
       /\ file'[id].key = file[id].key
  BY <1>2, <1>6, <1>14, NoneIsNoRecord DEF Kept, NoFile
<1>17. a.ok /\ Verdict(j) = "succeeded" => id \in succeeded /\ Readable(a.log)
  <2> SUFFICES ASSUME a.ok, Verdict(j) = "succeeded"
               PROVE  id \in succeeded /\ Readable(a.log)
    OBVIOUS
  <2>1. j.worker = "ok" /\ ~j.writeError
    BY <1>1, <1>4
  <2>2. id \in succeeded /\ Readable(log[id]) /\ ~tail[id] /\ Len(log[id]) = j.info.last
    BY <1>2, <2>1 DEF Kept
  <2> QED BY <1>1, <1>2, <1>4, <1>5, <2>2, WrittenLog
<1>18. faults' = 0 => ~job.writeError /\ Len(a.log) <= a.last
  <2> SUFFICES ASSUME faults' = 0
               PROVE  ~job.writeError /\ Len(a.log) <= a.last
    OBVIOUS
  <2>1. faults = 0 /\ a.ok /\ saved
    BY <1>10
  <2>2. ~j.writeError /\ Len(log[id]) = j.info.last
    BY <1>1, <1>2, <2>1 DEF Kept
  <2>3. j.info.last \in Nat /\ Len(a.log) = Len(log[id]) + 1
    BY <1>1, <1>2, <1>4, <1>5, <2>1, WrittenLog DEF Info
  <2> QED BY <1>5, <1>8, <2>1, <2>2, <2>3
<1>19. Stored(id)'
  <2>1. (\E i \in DOMAIN a.log : a.log[i].kind = "ok") => id \in succeeded
    <3>1. kind = "ok" => id \in succeeded
      BY <1>1, <1>2, <1>4 DEF Kept
    <3> QED BY <1>1, <1>2, <1>4, <1>5, <3>1, WrittenLog DEF Stored
  <2>2. file'[id].state = "succeeded" => id \in succeeded /\ Readable(a.log)
    BY <1>2, <1>6, <1>14, <1>17
  <2>3. faults' = 0 => Len(a.log) <= file'[id].last
    BY <1>6, <1>10, <1>14, <1>18
  <2>4. file'[id].key \in Ids => file'[id].key = id
    BY <1>2, <1>16 DEF Stored
  <2> QED BY <1>9, <1>14, <1>16, <2>1, <2>2, <2>3, <2>4 DEF Stored, NoFile, Readable
<1>20. Kept(id)'
  <2>1. mem.state \in Final
    BY <1>4, <1>6, <1>7 DEF Final
  <2>2. mem.state = "succeeded" => id \in succeeded /\ Readable(a.log)
    BY <1>6, <1>7, <1>17
  <2>3. ~job.writeError => file'[id] = mem
    BY <1>7, <1>8, <1>14
  <2>4. mem.owner = file'[id].owner /\ mem.key = file'[id].key
    BY <1>2, <1>7, <1>16 DEF Kept
  <2> QED BY <1>7, <1>8, <1>9, <1>14, <1>18, <2>1, <2>2, <2>3, <2>4 DEF Kept, Readable
<1>21. /\ Grows /\ (\A k \in Ids : JobOK(k)') /\ OneRecord' /\ AllLoaded'
       /\ (\A c \in Clients : StreamOK(c)') /\ LoadedIds' = LoadedIds
  <2>1. JobOK(id)'
    BY <1>19, <1>20 DEF JobOK
  <2>2. file[id].state \notin Final
    BY <1>2 DEF Final
  <2> QED BY <1>1, <1>9, <1>10, <1>11, <1>12, <1>13, <1>14, <1>15, <1>16, <1>20, <2>1,
             <2>2, LocalStep
<1>22. Counted'
  <2>1. Workers' = Workers \ {id} /\ id \in Workers
    BY <1>1, <1>8, <1>14, <1>21 DEF Workers, LoadedIds
  <2>2. IsFiniteSet(Workers)
    <3>1. IsFiniteSet(LoadedIds) /\ Workers \subseteq LoadedIds
      BY DEF IInv, Counted, Workers
    <3> QED BY <3>1, FS_Subset
  <2>3. Cardinality(Workers') = Cardinality(Workers) - 1
    BY <2>1, <2>2, FS_RemoveElement
  <2>4. Cardinality(Workers) \in Nat
    BY <2>2, FS_CardinalityType
  <2> QED BY <1>9, <1>21, <2>3, <2>4, Bounds DEF IInv, Counted
<1> QED BY <1>13, <1>21, <1>22 DEF IInv

-----------------------------------------------------------------------------
(* The steps of StartJob. *)

(* A step that leaves every stream where it was leaves it in order. *)
LEMMA SameStreamsOK ==
  ASSUME IInv, Types', Grows, SameStreams
  PROVE  \A c \in Clients : StreamOK(c)'
BY UntouchedStream DEF IInv, SameStreams, Types

(* A step that changes nothing that is known of a job. *)
LEMMA QuietStep ==
  ASSUME IInv, Types',
         file' = file, log' = log, tail' = tail, jobs' = jobs, running' = running,
         succeeded' = succeeded, faults' >= faults
  PROVE  /\ Grows /\ Counted' /\ (\A id \in Ids : JobOK(id)')
         /\ told' = told => OneRecord'
         /\ phase' = phase => AllLoaded'
         /\ SameStreams => \A c \in Clients : StreamOK(c)'
<1>1. Grows
  BY DEF Grows, IInv, Types
<1>2. Counted'
  BY DEF IInv, Counted, Workers, LoadedIds, Loaded
<1>3. \A id \in Ids : JobOK(id)'
  <2>1. Types /\ faults' \in Nat
    BY DEF IInv, Types
  <2> QED BY <2>1, UntouchedJob DEF IInv
<1>4. told' = told => OneRecord'
  BY DEF IInv, OneRecord, NoFile
<1>5. phase' = phase => AllLoaded'
  BY DEF IInv, AllLoaded, Serving, Loaded, NoFile
<1> QED BY <1>1, <1>2, <1>3, <1>4, <1>5, SameStreamsOK

(* Requests that come and are refused, and revocations, are such steps. *)
LEMMA RequestStep ==
  ASSUME IInv,
         \/ \E r \in Request : Submit(r) \/ StartRefused(r)
         \/ \E o \in Owners : Revoke(o)
  PROVE  IInv' /\ Grows
<1>1. Types
  BY DEF IInv
<1>2. /\ file' = file /\ log' = log /\ tail' = tail /\ jobs' = jobs
      /\ running' = running /\ succeeded' = succeeded /\ told' = told
      /\ phase' = phase /\ watch' = watch /\ cuts' = cuts
  BY DEF Submit, StartRefused, Revoke, diskVars, ghosts
<1>3. faults' >= faults /\ faults' \in 0 .. MaxFaults
  <2>1. faults \in 0 .. MaxFaults
    BY <1>1 DEF Types
  <2>2. CASE faults' = faults
    BY <2>1, <2>2, Bounds
  <2>3. CASE MayFail /\ Spend(FALSE)
    BY <2>1, <2>3, Bounds DEF MayFail, Spend
  <2> QED BY <2>2, <2>3 DEF Submit, StartRefused, Revoke
<1>4. pending' \in SUBSET Request /\ revoked' \in SUBSET Revocable
  BY <1>1 DEF Types, Submit, StartRefused, Revoke
<1>5. Types'
  BY <1>1, <1>2, <1>3, <1>4 DEF Types
<1>6. SameStreams
  BY <1>2 DEF SameStreams
<1> QED BY <1>2, <1>3, <1>5, <1>6, QuietStep DEF IInv

(* What an answer adds to the jobs a key was answered with. *)
LEMMA Answered ==
  ASSUME Types, NEW r \in Request, NEW id \in Ids, Answer(r, id)
  PROVE  /\ told' \in [Owners -> [Keys -> SUBSET Ids]]
         /\ \A o \in Owners, k \in Keys : \A x \in told'[o][k] :
              x \in told[o][k] \/ (x = id /\ o = r.owner /\ k = r.key)
<1>1. told \in [Owners -> [Keys -> SUBSET Ids]] /\ r.owner \in Owners
  BY DEF Types, Request
<1>2. CASE r.key = NoKey
  BY <1>1, <1>2 DEF Answer
<1>3. CASE r.key # NoKey
  <2>1. r.key \in Keys
    BY <1>3 DEF Request
  <2>2. told' = [told EXCEPT ![r.owner] =
                   [told[r.owner] EXCEPT ![r.key] = told[r.owner][r.key] \cup {id}]]
    BY <1>1, <1>3, <2>1 DEF Answer
  <2>3. [told[r.owner] EXCEPT ![r.key] = told[r.owner][r.key] \cup {id}]
          \in [Keys -> SUBSET Ids]
    BY <1>1, <2>1
  <2> QED BY <1>1, <2>1, <2>2, <2>3
<1> QED BY <1>2, <1>3

(* A repeated request is answered with the job that has its key. *)
LEMMA AgainStep ==
  ASSUME IInv, NEW r \in Request, NEW id \in Ids, StartAgain(r, id)
  PROVE  IInv' /\ Grows
<1>1. Types /\ OneRecord /\ JobOK(id)
  BY DEF IInv
<1>2. /\ file' = file /\ log' = log /\ tail' = tail /\ jobs' = jobs
      /\ running' = running /\ succeeded' = succeeded /\ faults' = faults
      /\ phase' = phase /\ watch' = watch /\ cuts' = cuts /\ revoked' = revoked
      /\ pending' = pending \ {r} /\ Answer(r, id)
      /\ Loaded(id) /\ jobs[id].info.owner = r.owner /\ jobs[id].info.key = r.key
  BY DEF StartAgain, diskVars, Known, LoadedIds
<1>3. /\ told' \in [Owners -> [Keys -> SUBSET Ids]]
      /\ \A o \in Owners, k \in Keys : \A x \in told'[o][k] :
           x \in told[o][k] \/ (x = id /\ o = r.owner /\ k = r.key)
  BY <1>1, <1>2, Answered
<1>4. Types'
  BY <1>1, <1>2, <1>3 DEF Types
<1>5. file[id] # NoFile /\ file[id].owner = r.owner /\ file[id].key = r.key
  BY <1>1, <1>2, LoadedOnDisk DEF Kept
<1>6. OneRecord'
  BY <1>1, <1>2, <1>3, <1>5 DEF OneRecord, NoFile
<1>7. SameStreams /\ faults' >= faults
  BY <1>1, <1>2 DEF SameStreams, Types
<1> QED BY <1>2, <1>4, <1>6, <1>7, QuietStep DEF IInv

(* A new job has an owner and key that no record has. *)
LEMMA StartStep ==
  ASSUME IInv, NEW r \in Request, NEW id \in Ids, Start(r, id)
  PROVE  IInv' /\ Grows
<1> DEFINE info == NewInfo(r, id)
           job == [info |-> info, writeError |-> FALSE, cancelled |-> FALSE,
                   worker |-> "run"]
<1>1. Types /\ Counted /\ OneRecord /\ AllLoaded /\ JobOK(id)
  BY DEF IInv
<1>2. /\ phase = "up" /\ Known(r) = {} /\ Room /\ file[id] = NoFile
      /\ file' = [file EXCEPT ![id] = info] /\ jobs' = [jobs EXCEPT ![id] = job]
      /\ running' = running + 1 /\ Answer(r, id) /\ pending' = pending \ {r}
      /\ phase' = phase /\ log' = log /\ tail' = tail /\ revoked' = revoked
      /\ watch' = watch /\ succeeded' = succeeded /\ faults' = faults /\ cuts' = cuts
  BY DEF Start, StartJob
<1>3. log[id] = <<>> /\ ~tail[id] /\ ~Loaded(id)
  BY <1>1, <1>2 DEF JobOK, Stored
<1>4. /\ info \in Info /\ info.state = "running" /\ info.last = 0
      /\ info.owner = r.owner
      /\ info.key = (IF r.key = NoKey THEN id ELSE r.key)
      /\ info # None
  <2>1. (IF r.key = NoKey THEN id ELSE r.key) \in Keys \cup Ids
    BY DEF Request
  <2>2. info \in Info
    BY <2>1 DEF NewInfo, Info, Request
  <2> QED BY <2>2, NoneIsNoRecord DEF NewInfo
<1>5. info.key \in Ids => info.key = id
  BY <1>4, Bounds DEF Request
<1> HIDE DEF info
<1>6. /\ job \in Job /\ job # None /\ job.info = info /\ job.worker = "run"
      /\ ~job.writeError
  <2>1. job \in Job
    BY <1>4 DEF Job
  <2> QED BY <2>1, NoneIsNoRecord
<1> HIDE DEF job
<1>7. /\ told' \in [Owners -> [Keys -> SUBSET Ids]]
      /\ \A o \in Owners, k \in Keys : \A x \in told'[o][k] :
           x \in told[o][k] \/ (x = id /\ o = r.owner /\ k = r.key)
  BY <1>1, <1>2, Answered
<1>8. Types'
  BY <1>1, <1>2, <1>4, <1>6, <1>7 DEF Types
<1>9. /\ file'[id] = info /\ jobs'[id] = job
      /\ \A k \in Ids \ {id} : file'[k] = file[k] /\ jobs'[k] = jobs[k]
      /\ faults' >= faults /\ faults' \in Nat
  BY <1>1, <1>2 DEF Types
<1>10. Grows
  BY <1>1, <1>2, <1>9 DEF Grows, Types
<1>11. \A k \in Ids : JobOK(k)'
  <2>1. ASSUME NEW k \in Ids, k # id PROVE JobOK(k)'
    BY <1>1, <1>2, <1>9, <2>1, UntouchedJob DEF IInv
  <2>2. Readable(<<>>) /\ Len(<<>>) = 0
    BY DEF Readable
  <2>3. Stored(id)'
    BY <1>2, <1>3, <1>4, <1>5, <1>9 DEF Stored, Final, NoFile
  <2>4. Kept(id)'
    BY <1>2, <1>3, <1>4, <1>6, <1>9, <2>2 DEF Kept, Final, Readable
  <2> QED BY <2>1, <2>3, <2>4 DEF JobOK
<1>12. ASSUME NEW j \in Ids, j # id, file[j] # NoFile, file[j].owner = info.owner,
              file[j].key = info.key
       PROVE  FALSE
  <2>1. Loaded(j) /\ JobOK(j)
    BY <1>1, <1>2, <1>12 DEF AllLoaded, Serving, IInv
  <2>2. jobs[j].info.owner = r.owner /\ jobs[j].info.key = info.key
    BY <1>1, <1>4, <1>12, <2>1, LoadedOnDisk DEF Kept
  <2>3. CASE r.key = NoKey
    BY <1>4, <1>12, <2>1, <2>3 DEF JobOK, Stored
  <2>4. CASE r.key # NoKey
    BY <1>2, <1>4, <2>1, <2>2, <2>4 DEF Known, LoadedIds
  <2> QED BY <2>3, <2>4
<1>13. OneRecord'
  <2>1. ASSUME NEW i \in Ids, NEW j \in Ids, file'[i] # NoFile, file'[j] # NoFile,
               file'[i].owner = file'[j].owner, file'[i].key = file'[j].key
        PROVE  i = j
    BY <1>1, <1>9, <1>12, <2>1 DEF OneRecord
  <2>2. ASSUME NEW o \in Owners, NEW k \in Keys, NEW x \in told'[o][k]
        PROVE  file'[x] # NoFile /\ file'[x].owner = o /\ file'[x].key = k
    <3>1. CASE x \in told[o][k]
      <4>1. x \in Ids /\ file[x] # NoFile /\ file[x].owner = o /\ file[x].key = k
        BY <1>1, <3>1 DEF OneRecord, Types
      <4> QED BY <1>2, <1>9, <4>1
    <3>2. CASE x = id /\ o = r.owner /\ k = r.key
      BY <1>4, <1>9, <3>2, Bounds DEF NoFile
    <3> QED BY <1>7, <2>2, <3>1, <3>2
  <2> QED BY <2>1, <2>2 DEF OneRecord, NoFile
<1>14. AllLoaded'
  BY <1>1, <1>2, <1>6, <1>9 DEF AllLoaded, Serving, Loaded, NoFile
<1>15. Counted'
  <2>1. /\ LoadedIds' = LoadedIds \cup {id} /\ id \notin LoadedIds
        /\ Workers' = Workers \cup {id} /\ id \notin Workers
    BY <1>3, <1>6, <1>9 DEF LoadedIds, Loaded, Workers
  <2>2. IsFiniteSet(LoadedIds) /\ IsFiniteSet(Workers)
    <3>1. IsFiniteSet(LoadedIds) /\ Workers \subseteq LoadedIds
      BY <1>1 DEF Counted, Workers
    <3> QED BY <3>1, FS_Subset
  <2>3. /\ IsFiniteSet(LoadedIds') /\ Cardinality(Workers') = Cardinality(Workers) + 1
    BY <2>1, <2>2, FS_AddElement
  <2>4. Cardinality(Workers) \in Nat
    BY <2>2, FS_CardinalityType
  <2> QED BY <1>1, <1>2, <2>3, <2>4, Bounds DEF Counted, Room
<1>16. \A c \in Clients : StreamOK(c)'
  <2>1. SameStreams
    BY <1>2 DEF SameStreams
  <2> QED BY <1>8, <1>10, <2>1, SameStreamsOK
<1> QED BY <1>8, <1>10, <1>11, <1>13, <1>14, <1>15, <1>16 DEF IInv

-----------------------------------------------------------------------------
(* The steps of the process. *)

(* The two changes of phase that touch nothing else. *)
LEMMA PhaseStep ==
  ASSUME IInv, Boot \/ Up
  PROVE  IInv' /\ Grows
<1>1. Types
  BY DEF IInv
<1>2. /\ file' = file /\ log' = log /\ tail' = tail /\ jobs' = jobs
      /\ running' = running /\ succeeded' = succeeded /\ told' = told
      /\ faults' = faults /\ watch' = watch /\ cuts' = cuts /\ pending' = pending
      /\ revoked' = revoked /\ phase' \in {"starting", "up"}
  BY DEF Boot, Up, diskVars, ghosts
<1>3. Types'
  BY <1>1, <1>2 DEF Types
<1>4. AllLoaded'
  BY <1>2 DEF Boot, Up, AllLoaded, Serving, Loaded, NoFile
<1>5. SameStreams /\ faults' >= faults
  BY <1>1, <1>2 DEF SameStreams, Types
<1> QED BY <1>2, <1>3, <1>4, <1>5, QuietStep DEF IInv

(* What New makes of a record: a final state, and a success only if the    *)
(* log says so.                                                            *)
LEMMA RecoveredRecord ==
  ASSUME Types, NEW id \in Ids, Stored(id), file[id] # NoFile,
         file[id].state = "running" => Readable(log[id])
  PROVE  /\ Recovered(id) \in Info /\ Recovered(id).state \in Final
         /\ Recovered(id).owner = file[id].owner /\ Recovered(id).key = file[id].key
         /\ Recovered(id).state = "succeeded" => id \in succeeded /\ Readable(log[id])
         /\ file[id].state \in Final => Recovered(id) = file[id]
         /\ faults = 0 => Len(log[id]) <= Recovered(id).last
<1>1. file[id] \in Info /\ file[id].last \in Nat /\ Len(log[id]) \in Nat
  BY FileInfo DEF Types
<1>2. CASE file[id].state # "running"
  <2>1. Recovered(id) = file[id] /\ file[id].state \in Final
    BY <1>1, <1>2 DEF Recovered, Info
  <2> QED BY <1>1, <1>2, <2>1 DEF Stored
<1>3. CASE file[id].state = "running"
  <2> DEFINE state == RecoveredState(log[id])
             last == IF Len(log[id]) > file[id].last THEN Len(log[id])
                                                    ELSE file[id].last
  <2>1. Recovered(id) = [file[id] EXCEPT !.state = state, !.last = last]
    BY <1>3 DEF Recovered
  <2>2. state \in Final /\ (state = "succeeded" => id \in succeeded)
    <3>1. CASE \E i \in DOMAIN log[id] : log[id][i].kind = "ok"
      BY <3>1 DEF RecoveredState, Stored, Final
    <3>2. CASE /\ ~\E i \in DOMAIN log[id] : log[id][i].kind = "ok"
               /\ \E i \in DOMAIN log[id] : log[id][i].kind = "failed"
      BY <3>2 DEF RecoveredState, Final
    <3>3. CASE /\ ~\E i \in DOMAIN log[id] : log[id][i].kind = "ok"
               /\ ~\E i \in DOMAIN log[id] : log[id][i].kind = "failed"
      BY <3>3 DEF RecoveredState, Final
    <3> QED BY <3>1, <3>2, <3>3
  <2>3. last \in Nat /\ Len(log[id]) <= last
    BY <1>1
  <2> HIDE DEF state, last
  <2>4. /\ Recovered(id) \in Info /\ Recovered(id).state = state
        /\ Recovered(id).last = last /\ Recovered(id).owner = file[id].owner
        /\ Recovered(id).key = file[id].key
    BY <1>1, <2>1, <2>2, <2>3 DEF Info
  <2>5. file[id].state \notin Final
    BY <1>3 DEF Final
  <2> QED BY <1>3, <2>2, <2>3, <2>4, <2>5
<1> QED BY <1>2, <1>3

(* New loads a record. *)
LEMMA LoadStep ==
  ASSUME IInv, NEW id \in Ids, Load(id)
  PROVE  IInv' /\ Grows
<1> DEFINE info == Recovered(id)
           job == [info |-> info, writeError |-> FALSE, cancelled |-> TRUE,
                   worker |-> "none"]
<1>1. Types /\ Counted /\ OneRecord /\ JobOK(id) /\ Stored(id)
  BY DEF IInv, JobOK
<1>2. /\ phase = "starting" /\ file[id] # NoFile /\ ~Loaded(id)
      /\ file[id].state = "running" => Readable(log[id])
      /\ file' = [file EXCEPT ![id] = info] /\ jobs' = [jobs EXCEPT ![id] = job]
      /\ phase' = phase /\ log' = log /\ tail' = tail /\ running' = running
      /\ pending' = pending /\ revoked' = revoked /\ watch' = watch
      /\ told' = told /\ succeeded' = succeeded /\ faults' = faults /\ cuts' = cuts
  BY DEF Load, NotLoaded, ghosts
<1>3. /\ info \in Info /\ info.state \in Final
      /\ info.owner = file[id].owner /\ info.key = file[id].key
      /\ info.state = "succeeded" => id \in succeeded /\ Readable(log[id])
      /\ file[id].state \in Final => info = file[id]
      /\ faults = 0 => Len(log[id]) <= info.last
      /\ info # None
  BY <1>1, <1>2, RecoveredRecord, NoneIsNoRecord
<1> HIDE DEF info
<1>4. /\ job \in Job /\ job # None /\ job.info = info /\ job.worker = "none"
      /\ ~job.writeError
  <2>1. job \in Job
    BY <1>3 DEF Job
  <2> QED BY <2>1, NoneIsNoRecord
<1> HIDE DEF job
<1>5. Types'
  BY <1>1, <1>2, <1>3, <1>4 DEF Types
<1>6. /\ file'[id] = info /\ jobs'[id] = job
      /\ \A k \in Ids \ {id} : file'[k] = file[k] /\ jobs'[k] = jobs[k]
      /\ faults' >= faults /\ faults' \in Nat
  BY <1>1, <1>2 DEF Types
<1>7. Grows
  BY <1>1, <1>2, <1>3, <1>6 DEF Grows, Types, NoFile
<1>8. \A k \in Ids : JobOK(k)'
  <2>1. ASSUME NEW k \in Ids, k # id PROVE JobOK(k)'
    BY <1>1, <1>2, <1>6, <2>1, UntouchedJob DEF IInv
  <2>2. Stored(id)'
    BY <1>1, <1>2, <1>3, <1>6 DEF Stored, NoFile, Readable
  <2>3. Kept(id)'
    BY <1>2, <1>3, <1>4, <1>6 DEF Kept, Readable
  <2> QED BY <2>1, <2>2, <2>3 DEF JobOK
<1>9. OneRecord'
  <2>1. \A k \in Ids : /\ file'[k] # NoFile <=> file[k] # NoFile
                       /\ file'[k].owner = file[k].owner /\ file'[k].key = file[k].key
    BY <1>2, <1>3, <1>6 DEF NoFile
  <2>2. told \in [Owners -> [Keys -> SUBSET Ids]]
    BY <1>1 DEF Types
  <2> QED BY <1>1, <1>2, <2>1, <2>2 DEF OneRecord, NoFile
<1>10. AllLoaded'
  BY <1>2 DEF AllLoaded, Serving
<1>11. Counted'
  <2>1. LoadedIds' = LoadedIds \cup {id} /\ Workers' = Workers
    BY <1>2, <1>4, <1>6 DEF LoadedIds, Loaded, Workers
  <2>2. IsFiniteSet(LoadedIds')
    BY <1>1, <2>1, FS_AddElement DEF Counted
  <2> QED BY <1>1, <1>2, <2>1, <2>2 DEF Counted
<1>12. \A c \in Clients : StreamOK(c)'
  <2>1. SameStreams
    BY <1>2 DEF SameStreams
  <2> QED BY <1>5, <1>7, <2>1, SameStreamsOK
<1> QED BY <1>5, <1>7, <1>8, <1>9, <1>10, <1>11, <1>12 DEF IInv

(* Close cancels every job and changes nothing else of it. *)
LEMMA CloseStep ==
  ASSUME IInv, Close
  PROVE  IInv' /\ Grows
<1>1. Types /\ Counted /\ AllLoaded
  BY DEF IInv
<1>2. /\ phase = "up" /\ cuts < MaxCuts /\ cuts' = cuts + 1 /\ phase' = "closing"
      /\ jobs' = [id \in Ids |-> IF Loaded(id)
                                 THEN [jobs[id] EXCEPT !.cancelled = TRUE]
                                 ELSE None]
      /\ file' = file /\ log' = log /\ tail' = tail /\ running' = running
      /\ pending' = pending /\ revoked' = revoked /\ watch' = watch
      /\ told' = told /\ succeeded' = succeeded /\ faults' = faults
  BY DEF Close, diskVars, ghosts
<1>3. ASSUME NEW id \in Ids, Loaded(id)
      PROVE  /\ jobs'[id] \in Job /\ Loaded(id)'
             /\ jobs'[id].info = jobs[id].info /\ jobs'[id].worker = jobs[id].worker
             /\ jobs'[id].writeError = jobs[id].writeError
  <2>1. jobs[id] \in Job /\ jobs'[id] = [jobs[id] EXCEPT !.cancelled = TRUE]
    BY <1>1, <1>2, <1>3, LoadedJob
  <2>2. jobs'[id] \in Job
    BY <2>1 DEF Job
  <2> QED BY <2>1, <2>2, NoneIsNoRecord DEF Job, Loaded
<1>4. ASSUME NEW id \in Ids, ~Loaded(id)
      PROVE  jobs'[id] = None /\ ~Loaded(id)'
  BY <1>2, <1>4 DEF Loaded
<1>5. Types'
  <2>1. \A id \in Ids : jobs'[id] \in Job \cup {None}
    BY <1>3, <1>4
  <2>2. jobs' \in [Ids -> Job \cup {None}]
    BY <1>2, <2>1
  <2>3. cuts' \in 0 .. MaxCuts
    BY <1>1, <1>2, Bounds DEF Types
  <2> QED BY <1>1, <1>2, <2>2, <2>3 DEF Types
<1>6. Grows
  BY <1>1, <1>2 DEF Grows, Types
<1>7. \A id \in Ids : JobOK(id)'
  <2> SUFFICES ASSUME NEW id \in Ids PROVE JobOK(id)'
    OBVIOUS
  <2>1. JobOK(id)
    BY DEF IInv
  <2>2. CASE Loaded(id)
    <3>1. file[id] # NoFile /\ Kept(id) /\ Stored(id)
      BY <1>1, <2>1, <2>2, LoadedOnDisk DEF JobOK
    <3>2. Stored(id)'
      BY <1>2, <3>1 DEF Stored, NoFile, Readable
    <3>3. Kept(id)'
      BY <1>2, <1>3, <2>2, <3>1 DEF Kept, Readable
    <3> QED BY <3>2, <3>3 DEF JobOK
  <2>3. CASE ~Loaded(id)
    BY <1>2, <1>4, <2>1, <2>3 DEF JobOK, Stored, NoFile, Readable
  <2> QED BY <2>2, <2>3
<1>8. OneRecord'
  BY <1>2 DEF IInv, OneRecord, NoFile
<1>9. LoadedIds' = LoadedIds
  BY <1>3, <1>4 DEF LoadedIds
<1>10. AllLoaded'
  BY <1>1, <1>2, <1>3 DEF AllLoaded, Serving, NoFile
<1>11. Counted'
  BY <1>1, <1>2, <1>3, <1>9, SameCount DEF LoadedIds
<1>12. \A c \in Clients : StreamOK(c)'
  <2>1. SameStreams
    BY <1>2 DEF SameStreams
  <2> QED BY <1>5, <1>6, <2>1, SameStreamsOK
<1> QED BY <1>5, <1>6, <1>7, <1>8, <1>10, <1>11, <1>12 DEF IInv

(* The end of the process, given what it leaves on disk. *)
LEMMA EndStep ==
  ASSUME IInv, End, file' = file,
         log' \in [Ids -> Seq(Line)], tail' \in [Ids -> BOOLEAN],
         faults' \in 0 .. MaxFaults, cuts' \in 0 .. MaxCuts,
         \A id \in Ids : JobOK(id)', Grows
  PROVE  IInv'
<1>1. Types /\ OneRecord
  BY DEF IInv
<1>2. /\ phase' = "down" /\ jobs' = [id \in Ids |-> None] /\ running' = 0
      /\ pending' = {} /\ revoked' = revoked /\ told' = told /\ succeeded' = succeeded
      /\ watch' = [c \in Clients |->
                     IF watch[c].at \in {"send", "wait", "ask"}
                     THEN [watch[c] EXCEPT !.at = "connect"] ELSE watch[c]]
  BY DEF End, ghosts
<1>3. ASSUME NEW c \in Clients
      PROVE  /\ watch'[c] \in Watching
             /\ watch'[c].at \in {watch[c].at, "connect"}
             /\ watch[c].at = "off" => watch'[c].at = "off"
             /\ watch'[c].job = watch[c].job /\ watch'[c].after = watch[c].after
             /\ watch'[c].upto = watch[c].upto
             /\ watch'[c].finished = watch[c].finished
  <2>1. watch[c] \in Watching
    BY <1>1 DEF Types
  <2>2. CASE watch[c].at \in {"send", "wait", "ask"}
    <3>1. watch'[c] = [watch[c] EXCEPT !.at = "connect"]
      BY <1>2, <2>2
    <3> QED BY <2>1, <2>2, <3>1 DEF Watching
  <2>3. CASE watch[c].at \notin {"send", "wait", "ask"}
    <3>1. watch'[c] = watch[c]
      BY <1>2, <2>3
    <3> QED BY <2>1, <3>1
  <2> QED BY <2>2, <2>3
<1>4. Types'
  <2>1. watch' \in [Clients -> Watching]
    BY <1>2, <1>3
  <2> QED BY <1>1, <1>2, <2>1 DEF Types
<1>5. Counted'
  <2>1. LoadedIds' = {} /\ Workers' = {}
    BY <1>2 DEF LoadedIds, Loaded, Workers
  <2> QED BY <1>2, <2>1, FS_EmptySet, Bounds DEF Counted
<1>6. OneRecord' /\ AllLoaded'
  BY <1>1, <1>2 DEF OneRecord, AllLoaded, Serving, NoFile
<1>7. \A c \in Clients : StreamOK(c)'
  BY <1>1, <1>3, UntouchedStream DEF IInv
<1> QED BY <1>4, <1>5, <1>6, <1>7 DEF IInv

(* The process ends between two writes. *)
LEMMA ExitStep ==
  ASSUME IInv, Exit \/ Crash \/ \E id \in Ids : LoadRefused(id)
  PROVE  IInv' /\ Grows
<1>1. Types /\ End /\ file' = file /\ log' = log /\ tail' = tail
  BY DEF IInv, Exit, Crash, LoadRefused, diskVars
<1>2. faults' >= faults /\ faults' \in 0 .. MaxFaults /\ faults' \in Nat
  <2>1. faults \in 0 .. MaxFaults
    BY <1>1 DEF Types
  <2>2. CASE faults' = faults
    BY <2>1, <2>2, Bounds
  <2>3. CASE MayFail /\ Spend(FALSE)
    BY <2>1, <2>3, Bounds DEF MayFail, Spend
  <2> QED BY <2>2, <2>3 DEF Exit, Crash, LoadRefused
<1>3. cuts' \in 0 .. MaxCuts
  <2>1. cuts' = cuts \/ (cuts < MaxCuts /\ cuts' = cuts + 1)
    BY DEF Exit, Crash, LoadRefused
  <2> QED BY <1>1, <2>1, Bounds DEF Types
<1>4. Grows
  BY <1>1 DEF Grows, Types
<1>5. \A id \in Ids : JobOK(id)'
  <2>1. succeeded' = succeeded /\ \A id \in Ids : jobs'[id] = None
    BY <1>1 DEF End, ghosts
  <2> QED BY <1>1, <1>2, <2>1, EndedJob DEF IInv
<1> QED BY <1>1, <1>2, <1>3, <1>4, <1>5, EndStep DEF Types

(* The process ends in the middle of a write. *)
LEMMA CrashWritingStep ==
  ASSUME IInv, NEW id \in Ids, CrashWriting(id)
  PROVE  IInv' /\ Grows
<1> DEFINE j == jobs[id]
           kind == IF j.worker = "run" THEN "output" ELSE ResultKind(j)
<1>1. /\ Loaded(id) /\ j.worker # "none" /\ End /\ file' = file /\ faults' = faults
      /\ cuts < MaxCuts /\ cuts' = cuts + 1
      /\ \/ tail' = [tail EXCEPT ![id] = TRUE] /\ log' = log
         \/ /\ log' = [log EXCEPT ![id] = Written(id, kind)]
            /\ tail' = [tail EXCEPT ![id] = FALSE]
  BY DEF CrashWriting
<1>2. /\ Types /\ file[id] # NoFile /\ Kept(id) /\ Stored(id)
      /\ file[id].state = "running" /\ j \in Job
  BY <1>1, WorkerFacts
<1>3. kind \in {"output", "ok", "failed"} /\ (kind = "ok" => id \in succeeded)
  <2>1. j.worker \in {"run", "ok", "failed"}
    BY <1>1, <1>2 DEF Job
  <2>2. CASE j.worker = "run"
    BY <2>2
  <2>3. CASE j.worker # "run"
    <3>1. kind = ResultKind(j)
      BY <2>3
    <3>2. kind = "ok" => j.worker = "ok"
      BY <1>2, <2>1, <2>3, <3>1, VerdictTrue
    <3> HIDE DEF kind
    <3> QED BY <1>2, <3>1, <3>2, VerdictTrue DEF Kept
  <2> QED BY <2>2, <2>3
<1> HIDE DEF kind
<1>4. /\ log' \in [Ids -> Seq(Line)] /\ tail' \in [Ids -> BOOLEAN]
      /\ \A k \in Ids \ {id} : log'[k] = log[k] /\ tail'[k] = tail[k]
      /\ log'[id] = log[id] \/ log'[id] = Written(id, kind)
  <2>1. Written(id, kind) \in Seq(Line)
    BY <1>1, <1>2, <1>3, WrittenLog
  <2>2. CASE tail' = [tail EXCEPT ![id] = TRUE] /\ log' = log
    BY <1>2, <2>2 DEF Types
  <2>3. CASE /\ log' = [log EXCEPT ![id] = Written(id, kind)]
             /\ tail' = [tail EXCEPT ![id] = FALSE]
    BY <1>2, <2>1, <2>3 DEF Types
  <2> QED BY <1>1, <2>2, <2>3
<1>5. Len(log[id]) <= Len(log'[id]) /\ Len(log[id]) \in Nat
  BY <1>1, <1>2, <1>3, <1>4, WrittenLog DEF Types
<1>6. Grows
  <2>1. \A k \in Ids \ {id} : Len(log[k]) <= Len(log'[k])
    BY <1>2, <1>4 DEF Types
  <2>2. file[id].state \notin Final
    BY <1>2 DEF Final
  <2> QED BY <1>1, <1>4, <1>5, <2>1, <2>2 DEF Grows
<1>7. \A k \in Ids : JobOK(k)'
  <2>1. succeeded' = succeeded /\ \A k \in Ids : jobs'[k] = None
    BY <1>1 DEF End, ghosts
  <2>2. faults' >= faults /\ faults' \in Nat
    BY <1>1, <1>2 DEF Types
  <2>3. ASSUME NEW k \in Ids, k # id PROVE JobOK(k)'
    BY <1>1, <1>2, <1>4, <2>1, <2>2, <2>3, EndedJob DEF IInv
  <2>4. (\E i \in DOMAIN log'[id] : log'[id][i].kind = "ok") => id \in succeeded
    <3>1. CASE log'[id] = log[id]
      BY <1>2, <3>1 DEF Stored
    <3>2. CASE log'[id] = Written(id, kind)
      BY <1>1, <1>2, <1>3, <3>2, WrittenLog DEF Stored
    <3> QED BY <1>4, <3>1, <3>2
  <2>5. Stored(id)'
    BY <1>1, <1>2, <2>1, <2>4 DEF Stored, Final, NoFile
  <2>6. ~Loaded(id)'
    BY <2>1 DEF Loaded
  <2> QED BY <2>3, <2>5, <2>6 DEF JobOK
<1>8. cuts' \in 0 .. MaxCuts /\ faults' \in 0 .. MaxFaults
  BY <1>1, <1>2, Bounds DEF Types
<1> QED BY <1>1, <1>4, <1>6, <1>7, <1>8, EndStep

-----------------------------------------------------------------------------
(* The steps of the clients, and of the streams they follow. *)

(* A step that moves one stream to a place in order. *)
LEMMA WatchStep ==
  ASSUME IInv, NEW c \in Clients, NEW w \in Watching, StreamAt(w),
         watch' = [watch EXCEPT ![c] = w],
         UNCHANGED serverVars, faults' = faults, cuts' \in 0 .. MaxCuts
  PROVE  IInv' /\ Grows
<1>1. Types
  BY DEF IInv
<1>2. /\ file' = file /\ log' = log /\ tail' = tail /\ jobs' = jobs
      /\ running' = running /\ succeeded' = succeeded /\ told' = told
      /\ phase' = phase /\ pending' = pending /\ revoked' = revoked
  BY DEF serverVars
<1>3. Types'
  BY <1>1, <1>2 DEF Types
<1>5. \A d \in Clients : StreamOK(d)'
  <2> SUFFICES ASSUME NEW d \in Clients PROVE StreamOK(d)'
    OBVIOUS
  <2>1. CASE d = c
    <3>1. watch'[d] = w
      BY <1>1, <2>1 DEF Types
    <3> QED BY <1>2, <3>1 DEF StreamOK, StreamAt, NoFile
  <2>2. CASE d # c
    <3>1. watch'[d] = watch[d] /\ StreamOK(d)
      BY <1>1, <2>2 DEF Types, IInv
    <3> QED BY <1>2, <3>1 DEF StreamOK, StreamAt, NoFile
  <2> QED BY <2>1, <2>2
<1>6. faults' >= faults
  BY <1>1 DEF Types
<1> QED BY <1>2, <1>3, <1>5, <1>6, QuietStep DEF IInv

(* The server sees a finished job that it did not fail to write: that is   *)
(* its state on disk.                                                      *)
LEMMA FinishedOnDisk ==
  ASSUME IInv, Serving, NEW id \in Ids, file[id] # NoFile
  PROVE  /\ Loaded(id) /\ jobs[id] \in Job /\ jobs[id].info \in Info
         /\ ~IsRunning(id) /\ ~jobs[id].writeError => file[id].state \in Final
<1>1. Types /\ Loaded(id) /\ JobOK(id)
  BY DEF IInv, AllLoaded
<1>2. Kept(id)
  BY <1>1 DEF JobOK
<1>3. jobs[id] \in Job /\ jobs[id].info \in Info
  BY <1>1, LoadedJob
<1>4. ~IsRunning(id) => jobs[id].info.state \in Final
  BY <1>1, <1>3 DEF IsRunning, Info
<1> QED BY <1>1, <1>2, <1>3, <1>4 DEF Kept

(* Every step of a client or of its stream is such a step. *)
LEMMA ClientStep ==
  ASSUME IInv, NEW c \in Clients, WatchNext(c)
  PROVE  IInv' /\ Grows
<1> DEFINE w == watch[c]
           id == w.job
<1>1. /\ Types /\ w \in Watching /\ StreamAt(w)
      /\ watch \in [Clients -> Watching]
  BY DEF IInv, Types, StreamOK
<1>2. /\ w.after \in Nat /\ w.upto \in Nat /\ w.finished \in BOOLEAN
      /\ w.signalled \in BOOLEAN /\ w.job \in Ids \cup {None}
      /\ \A k \in Ids : Len(log[k]) \in Nat
  BY <1>1 DEF Watching, Types
<1>c. cuts \in 0 .. MaxCuts
  BY <1>1 DEF Types
<1>3. ASSUME NEW k \in Ids, Watch(c, k) PROVE IInv' /\ Grows
  <2> DEFINE new == [NotWatching EXCEPT !.job = k, !.at = "connect"]
  <2>1. new \in Watching
    BY DEF NotWatching, Watching
  <2>2. JobOK(k) /\ Loaded(k)
    BY <1>3 DEF Watch, IInv
  <2>3. file[k] # NoFile
    BY <1>1, <2>2, LoadedOnDisk
  <2>4. new.at = "connect" /\ new.job = k /\ new.after = 0
    BY DEF NotWatching
  <2>5. watch' = [watch EXCEPT ![c] = new]
    BY <1>3 DEF Watch
  <2>6. UNCHANGED serverVars /\ faults' = faults /\ cuts' \in 0 .. MaxCuts
    BY <1>3, <1>c DEF Watch
  <2> HIDE DEF new
  <2>7. StreamAt(new)
    BY <1>2, <2>3, <2>4 DEF StreamAt
  <2> QED BY <2>1, <2>5, <2>6, <2>7, WatchStep
<1>4. ASSUME StreamRead(c) PROVE IInv' /\ Grows
  <2> DEFINE new == [w EXCEPT !.at = "send", !.upto = Len(log[id]),
                              !.signalled = FALSE, !.finished = ~IsRunning(id)]
  <2>1. /\ Serving /\ w.at # "off" /\ ~jobs[id].writeError
    BY <1>4 DEF StreamRead, StreamReady, StreamAccepts
  <2>2. id \in Ids /\ file[id] # NoFile /\ w.after <= Len(log[id])
    BY <1>1, <2>1 DEF StreamAt
  <2>3. IsRunning(id) \in BOOLEAN
    BY DEF IsRunning, Loaded
  <2>4. ~IsRunning(id) => file[id].state \in Final
    BY <2>1, <2>2, FinishedOnDisk
  <2>5. new \in Watching /\ new.at = "send" /\ new.job = id /\ new.after = w.after
        /\ new.upto = Len(log[id]) /\ new.finished = ~IsRunning(id)
    BY <1>1, <1>2, <2>2, <2>3 DEF Watching
  <2>6. watch' = [watch EXCEPT ![c] = new]
    BY <1>4 DEF StreamRead
  <2>7. UNCHANGED serverVars /\ faults' = faults /\ cuts' \in 0 .. MaxCuts
    BY <1>4, <1>c DEF StreamRead
  <2> HIDE DEF new
  <2>8. StreamAt(new)
    <3>1. new.finished => file[id].state \in Final
      BY <2>4, <2>5
    <3>2. /\ new.at = "send" /\ new.job = id /\ new.after = w.after
          /\ new.upto = Len(log[id]) /\ Len(log[id]) \in Nat
      BY <1>2, <2>2, <2>5
    <3> QED BY <2>2, <3>1, <3>2 DEF StreamAt
  <2> QED BY <2>5, <2>6, <2>7, <2>8, WatchStep
<1>5. ASSUME NEW at \in {"connect", "error"}, w.at # "off",
             watch' = [watch EXCEPT ![c].at = at],
             UNCHANGED serverVars, faults' = faults, cuts' \in 0 .. MaxCuts
      PROVE  IInv' /\ Grows
  <2> DEFINE new == [w EXCEPT !.at = at]
  <2>1. new \in Watching /\ new.at = at /\ new.job = id /\ new.after = w.after
    BY <1>1 DEF Watching
  <2>2. watch' = [watch EXCEPT ![c] = new]
    BY <1>5
  <2> HIDE DEF new
  <2>3. StreamAt(new)
    BY <1>1, <1>5, <2>1 DEF StreamAt
  <2> QED BY <1>5, <2>1, <2>2, <2>3, WatchStep
<1>6. ASSUME StreamRefused(c) \/ Disconnect(c) \/ GiveUp(c) PROVE IInv' /\ Grows
  <2>1. w.at # "off" /\ UNCHANGED serverVars /\ faults' = faults
    BY <1>6 DEF StreamRefused, StreamReady, Disconnect, GiveUp
  <2>2. cuts' \in 0 .. MaxCuts
    <3>1. cuts' = cuts \/ (cuts < MaxCuts /\ cuts' = cuts + 1)
      BY <1>6 DEF StreamRefused, Disconnect, GiveUp
    <3> QED BY <1>c, <3>1, Bounds
  <2>3. \/ watch' = [watch EXCEPT ![c].at = "error"]
        \/ watch' = [watch EXCEPT ![c].at = "connect"]
    BY <1>6 DEF StreamRefused, Disconnect, GiveUp
  <2> QED BY <1>5, <2>1, <2>2, <2>3
<1>7. ASSUME Send(c) PROVE IInv' /\ Grows
  <2> DEFINE new == [w EXCEPT !.after = w.after + 1]
  <2>1. /\ w.at = "send" /\ w.after < w.upto
        /\ id \in Ids /\ file[id] # NoFile /\ w.upto <= Len(log[id])
        /\ w.finished => file[id].state \in Final /\ w.upto = Len(log[id])
    BY <1>1, <1>7 DEF Send, StreamAt
  <2>2. new \in Watching /\ new.at = "send" /\ new.job = id
        /\ new.after = w.after + 1 /\ new.upto = w.upto /\ new.finished = w.finished
    BY <1>1, <1>2, <2>1 DEF Watching
  <2>3. watch' = [watch EXCEPT ![c] = new]
    BY <1>7 DEF Send
  <2>4. UNCHANGED serverVars /\ faults' = faults /\ cuts' \in 0 .. MaxCuts
    BY <1>7, <1>c DEF Send
  <2> HIDE DEF new
  <2>5. StreamAt(new)
    BY <1>2, <2>1, <2>2 DEF StreamAt
  <2> QED BY <2>2, <2>3, <2>4, <2>5, WatchStep
<1>8. ASSUME Sent(c) PROVE IInv' /\ Grows
  <2> DEFINE at == IF w.finished THEN "ask" ELSE "wait"
             new == [w EXCEPT !.at = at]
  <2>1. /\ w.at = "send" /\ w.after >= w.upto
        /\ id \in Ids /\ file[id] # NoFile /\ w.after <= Len(log[id])
        /\ w.finished => file[id].state \in Final /\ w.upto = Len(log[id])
    BY <1>1, <1>8 DEF Sent, StreamAt
  <2>2. at \in {"ask", "wait"} /\ (at = "ask" => w.finished)
    BY <1>2
  <2>3. watch' = [watch EXCEPT ![c] = new]
    BY <1>8 DEF Sent
  <2> HIDE DEF at
  <2>4. new \in Watching /\ new.at = at /\ new.job = id /\ new.after = w.after
    BY <1>1, <1>2, <2>2 DEF Watching
  <2>5. UNCHANGED serverVars /\ faults' = faults /\ cuts' \in 0 .. MaxCuts
    BY <1>8, <1>c DEF Sent
  <2> HIDE DEF new
  <2>6. at = "ask" => file[id].state \in Final /\ w.after = Len(log[id])
    BY <1>2, <2>1, <2>2
  <2>7. StreamAt(new)
    BY <2>1, <2>2, <2>4, <2>6 DEF StreamAt
  <2> QED BY <2>3, <2>4, <2>5, <2>7, WatchStep
<1>9. ASSUME Ask(c) PROVE IInv' /\ Grows
  <2> DEFINE j == jobs[id]
             at == CASE j.writeError -> "error"
                     [] ~j.writeError /\ j.info.state \in Final -> "done"
                     [] OTHER -> "connect"
             new == [w EXCEPT !.at = at]
  <2>1. /\ Serving /\ w.at = "ask" /\ id \in Ids /\ file[id] # NoFile
        /\ file[id].state \in Final /\ w.after = Len(log[id])
    BY <1>1, <1>9 DEF Ask, StreamAt
  <2>2. at \in {"error", "done", "connect"}
    <3>1. CASE j.writeError
      BY <3>1
    <3>2. CASE ~j.writeError /\ j.info.state \in Final
      BY <3>2
    <3>3. CASE ~j.writeError /\ j.info.state \notin Final
      BY <3>3
    <3> QED BY <3>1, <3>2, <3>3
  <2>3. watch' = [watch EXCEPT ![c] = new]
    BY <1>9 DEF Ask
  <2> HIDE DEF at
  <2>4. new \in Watching /\ new.at = at /\ new.job = id /\ new.after = w.after
    BY <1>1, <1>2, <2>2 DEF Watching
  <2>5. UNCHANGED serverVars /\ faults' = faults /\ cuts' \in 0 .. MaxCuts
    BY <1>9, <1>c DEF Ask
  <2> HIDE DEF new
  <2>6. StreamAt(new)
    BY <1>2, <2>1, <2>2, <2>4 DEF StreamAt
  <2> QED BY <2>3, <2>4, <2>5, <2>6, WatchStep
<1> QED BY <1>3, <1>4, <1>6, <1>7, <1>8, <1>9 DEF WatchNext

-----------------------------------------------------------------------------
(* The invariant holds initially. *)
LEMMA InitOK == Init => IInv
<1> SUFFICES ASSUME Init PROVE IInv
  OBVIOUS
<1>1. NotWatching \in Watching
  BY DEF NotWatching, Watching
<1>2. Types
  BY <1>1, Bounds DEF Init, Types, NoFile
<1>3. Counted
  <2>1. LoadedIds = {} /\ Workers = {} /\ running = 0
    BY DEF Init, LoadedIds, Loaded, Workers
  <2> QED BY <2>1, FS_EmptySet, Bounds DEF Counted
<1>4. \A id \in Ids : JobOK(id)
  BY DEF Init, JobOK, Stored, Loaded, NoFile
<1>5. OneRecord /\ AllLoaded
  BY DEF Init, OneRecord, AllLoaded, Serving, NoFile
<1>6. \A c \in Clients : StreamOK(c)
  BY DEF Init, StreamOK, StreamAt, NotWatching
<1> QED BY <1>2, <1>3, <1>4, <1>5, <1>6 DEF IInv

(* Every step keeps the invariant, and what is final on disk. *)
LEMMA NextOK ==
  ASSUME IInv, [Next]_vars
  PROVE  IInv' /\ Grows
<1>1. CASE UNCHANGED vars
  <2>1. /\ file' = file /\ log' = log /\ tail' = tail /\ jobs' = jobs
        /\ running' = running /\ succeeded' = succeeded /\ told' = told
        /\ phase' = phase /\ watch' = watch /\ cuts' = cuts /\ faults' = faults
        /\ pending' = pending /\ revoked' = revoked
    BY <1>1 DEF vars
  <2>2. Types' /\ faults' >= faults /\ SameStreams
    BY <2>1 DEF IInv, Types, SameStreams
  <2> QED BY <2>1, <2>2, QuietStep DEF IInv
<1>2. CASE StartNext
  BY <1>2, RequestStep, StartStep, AgainStep DEF StartNext
<1>3. CASE ProcessNext
  BY <1>3, PhaseStep, CloseStep, ExitStep, LoadStep, CrashWritingStep DEF ProcessNext
<1>4. CASE \E id \in Ids : WorkerNext(id)
  BY <1>4, OutputStep, FinishStep, FlagActions DEF WorkerNext
<1>5. CASE \E o \in Owners : Revoke(o)
  BY <1>5, RequestStep
<1>6. CASE \E c \in Clients : WatchNext(c)
  BY <1>6, ClientStep
<1> QED BY <1>1, <1>2, <1>3, <1>4, <1>5, <1>6 DEF Next

(***************************************************************************)
(* The inductive invariant holds in every state of the manager, its        *)
(* process and its clients.                                                *)
(***************************************************************************)
THEOREM InductiveInvariant == Spec => []IInv
BY InitOK, NextOK, PTL DEF Spec

(***************************************************************************)
(* Records, logs and streams have their types, and m.running is the number *)
(* of workers through every failure of run() and every restart.            *)
(***************************************************************************)
THEOREM TypeCorrect == Spec => []TypeOK
<1>1. IInv => TypeOK
  <2> SUFFICES ASSUME IInv PROVE TypeOK
    OBVIOUS
  <2>1. Types /\ Counted
    BY DEF IInv
  <2>2. \A id \in Ids : /\ file[id] # NoFile => file[id] \in Info
                        /\ Loaded(id) => jobs[id] \in Job
    BY <2>1, FileInfo, LoadedJob
  <2> QED BY <2>1, <2>2 DEF TypeOK, Types, Counted, Workers
<1> QED BY <1>1, InductiveInvariant, PTL

(***************************************************************************)
(* However often a StartJob is repeated, before and after crashes, all its *)
(* answers name one job: StartJob answers only with jobs whose record has  *)
(* the owner and the key, and no two records have the same.                *)
(***************************************************************************)
THEOREM KeyNamesOneJob == Spec => []OneJobPerKey
<1>1. IInv => OneJobPerKey
  <2> SUFFICES ASSUME IInv, NEW o \in Owners, NEW k \in Keys
               PROVE  Cardinality(told[o][k]) <= 1
    BY DEF OneJobPerKey
  <2>1. told[o][k] \subseteq Ids /\ OneRecord
    BY DEF IInv, Types
  <2>2. \A i, j \in told[o][k] : i = j
    BY <2>1 DEF OneRecord
  <2>3. CASE told[o][k] = {}
    BY <2>3, FS_EmptySet
  <2>4. CASE told[o][k] # {}
    <3>1. PICK id : id \in told[o][k]
      BY <2>4
    <3>2. told[o][k] = {id}
      BY <2>2, <3>1
    <3> QED BY <3>2, FS_Singleton
  <2> QED BY <2>3, <2>4
<1> QED BY <1>1, InductiveInvariant, PTL

(***************************************************************************)
(* A final state that GetJob answers is the one on disk, so a restart      *)
(* answers the same.                                                       *)
(***************************************************************************)
THEOREM AnswersSurvive == Spec => []AnsweredOnDisk
<1>1. IInv => AnsweredOnDisk
  <2>1. ASSUME IInv, NEW id \in LoadedIds PROVE Kept(id)
    BY <2>1 DEF IInv, JobOK, LoadedIds
  <2> QED BY <2>1 DEF AnsweredOnDisk, Kept
<1> QED BY <1>1, InductiveInvariant, PTL

(***************************************************************************)
(* A job shown as succeeded has a command that returned without error and  *)
(* a log that can be replayed, whatever writes failed and wherever the     *)
(* process died.                                                           *)
(***************************************************************************)
THEOREM SuccessIsTrue == Spec => []SuccessTrue
<1>1. IInv => SuccessTrue
  <2>1. ASSUME IInv, NEW id \in LoadedIds PROVE Kept(id)
    BY <2>1 DEF IInv, JobOK, LoadedIds
  <2> QED BY <2>1 DEF SuccessTrue, Kept
<1> QED BY <1>1, InductiveInvariant, PTL

(***************************************************************************)
(* A WatchJob that returned has received the whole log, over any number of *)
(* reconnections and restarts; and while no write failed, the server never *)
(* refuses the position it resumes from.                                   *)
(***************************************************************************)
THEOREM WatchReceivesAll == Spec => []WatchComplete
<1>1. IInv => WatchComplete
  <2> SUFFICES ASSUME IInv, NEW c \in Clients
               PROVE  /\ watch[c].at = "done" =>
                           watch[c].after = Len(log[watch[c].job])
                      /\ watch[c].at = "connect" /\ Serving /\ faults = 0 =>
                           watch[c].after <= jobs[watch[c].job].info.last
    BY DEF WatchComplete
  <2>1. StreamAt(watch[c]) /\ watch[c] \in Watching
    BY DEF IInv, StreamOK, Types
  <2>2. watch[c].at = "done" => watch[c].after = Len(log[watch[c].job])
    BY <2>1 DEF StreamAt
  <2>3. ASSUME watch[c].at = "connect", Serving, faults = 0
        PROVE  watch[c].after <= jobs[watch[c].job].info.last
    <3> DEFINE id == watch[c].job
    <3>1. id \in Ids /\ file[id] # NoFile /\ watch[c].after <= Len(log[id])
      BY <2>1, <2>3 DEF StreamAt
    <3>2. Loaded(id) /\ jobs[id].info \in Info
      BY <2>3, <3>1, FinishedOnDisk
    <3>3. Len(log[id]) <= jobs[id].info.last
      BY <2>3, <3>1, <3>2 DEF IInv, JobOK, Kept
    <3>4. watch[c].after \in Nat /\ Len(log[id]) \in Nat /\ jobs[id].info.last \in Nat
      BY <2>1, <3>1, <3>2 DEF Watching, Info, IInv, Types
    <3> QED BY <3>1, <3>3, <3>4
  <2> QED BY <2>2, <2>3
<1> QED BY <1>1, InductiveInvariant, PTL

(***************************************************************************)
(* No step rewrites a record that reached a final state.                   *)
(***************************************************************************)
THEOREM FinalStays == Spec => FinalForever
<1>1. IInv /\ [Next]_vars =>
        [\A id \in Ids : file[id] # NoFile /\ file[id].state \in Final
                           => file'[id] = file[id]]_vars
  BY NextOK DEF Grows
<1> QED BY <1>1, InductiveInvariant, PTL DEF Spec, FinalForever

=============================================================================
