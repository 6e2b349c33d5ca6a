------------------------------- MODULE Backup -------------------------------
(***************************************************************************)
(* laminara-server backup and restore (backup/backup.go), commands of      *)
(* their own beside a running server.  An archive is put together in a     *)
(* temporary file next to its target and renamed over it; a restore reads  *)
(* the whole archive and writes the files one after another.  Either may   *)
(* be killed at any step, and the server goes on writing: settings are     *)
(* replaced as a whole (rename), the machine database page by page.  A     *)
(* file is its sequence of pages, a page the number of the write it holds. *)
(* The operator does not back up while a restore is running.               *)
(***************************************************************************)
EXTENDS Integers, Sequences, FiniteSets, Functions

CONSTANTS BackupTasks,    \* commands running at the same time
          SourceOrder,    \* paths in the order sources() names them; one may come twice
          Databases,      \* the paths written in place
          Targets,        \* names of archives
          MaxFilePages,   \* maxFileBytes, the largest file open takes from an archive
          MaxPages,       \* bound: pages of a file
          MaxPageWrites,  \* bound: writes by the server
          MaxBackups      \* bound: commands started

ASSUME BackupAssumption ==
    /\ {MaxFilePages, MaxPages, MaxPageWrites, MaxBackups} \subseteq Nat
    /\ SourceOrder \in Seq(Range(SourceOrder)) /\ Databases \subseteq Range(SourceOrder)

VARIABLES pages,      \* path -> what is on disk, for the files that are there
          archives,   \* target -> sequence of items; absent when not in the domain
          tasks,      \* what each command is doing
          writes, started,   \* counters for the bounds
          had         \* history: path -> every content the file has had

backupVars == <<pages, archives, tasks, writes, started, had>>

Paths == Range(SourceOrder)
NoTask == [at |-> "idle"]
TaskAt(c, step) == tasks[c].at = step
TaskEnds(c) == tasks' = [tasks EXCEPT ![c] = NoTask]
Exists(path) == path \in DOMAIN pages
Restoring == \E c \in BackupTasks : tasks[c].at \in {"restore", "write"}

(* The file is created, or its content replaced.                           *)
Put(path, body) ==
    /\ pages' = [p \in DOMAIN pages \union {path} |-> IF p = path THEN body ELSE pages[p]]
    /\ had' = [had EXCEPT ![path] = @ \union {body}]

----------------------------------------------------------------------------
(* The server. *)

(* Settings and keys: written beside and renamed, so a reader that has the *)
(* file open keeps the previous content.                                   *)
ReplaceFile(path, size) ==
    /\ path \in Paths \ Databases /\ writes < MaxPageWrites
    /\ writes' = writes + 1
    /\ Put(path, [i \in 1..size |-> writes'])
    /\ UNCHANGED <<archives, tasks, started>>

(* The database changes a page in place or grows by one.                   *)
WritePage(path, i) ==
    /\ path \in Databases /\ Exists(path) /\ writes < MaxPageWrites
    /\ i \in 1..(Len(pages[path]) + 1) /\ i <= MaxPages
    /\ writes' = writes + 1
    /\ Put(path, [j \in 1..(IF i > Len(pages[path]) THEN i ELSE Len(pages[path])) |->
                    IF i = j THEN writes' ELSE pages[path][j]])
    /\ UNCHANGED <<archives, tasks, started>>

----------------------------------------------------------------------------
(* Create. *)

(* The archive grows in a temporary file of its own.                       *)
CreateInPlace(target, items) ==
    archives' = [t \in DOMAIN archives \union {target} |-> IF t = target THEN items ELSE archives[t]]
CreateTemp(target, items) == archives' = archives

(* Refused when the target is there.                                       *)
CreateBegin(c, target) ==
    /\ TaskAt(c, "idle") /\ started < MaxBackups /\ target \notin DOMAIN archives
    /\ ~Restoring
    /\ started' = started + 1
    /\ CreateTemp(target, <<>>)
    /\ tasks' = [tasks EXCEPT ![c] = [at |-> "stat", target |-> target, next |-> 1, items |-> <<>>]]
    /\ UNCHANGED <<pages, writes, had>>

Seen(items, path) == \E k \in DOMAIN items : items[k].path = path

(* A path seen before, or not on disk, is left out; otherwise its size     *)
(* goes into the header.                                                   *)
CreateStat(c) ==
    LET task == tasks[c]
        path == SourceOrder[task.next]
    IN  /\ TaskAt(c, "stat") /\ task.next <= Len(SourceOrder)
        /\ tasks' = [tasks EXCEPT ![c] =
                IF Seen(task.items, path) \/ ~Exists(path) THEN [task EXCEPT !.next = @ + 1]
                ELSE [at |-> "open", target |-> task.target, next |-> task.next, items |-> task.items,
                      size |-> Len(pages[path])]]
        /\ UNCHANGED <<pages, archives, writes, started, had>>

(* An open file that is replaced keeps its content; a database changes     *)
(* under the reader.                                                       *)
CreateOpen(c) ==
    LET task == tasks[c]
    IN  /\ TaskAt(c, "open")
        /\ tasks' = [tasks EXCEPT ![c] =
                [at |-> "copy", target |-> task.target, next |-> task.next, items |-> task.items,
                 size |-> task.size, opened |-> pages[SourceOrder[task.next]], body |-> <<>>]]
        /\ UNCHANGED <<pages, archives, writes, started, had>>

(* io.Copy up to the end of the file.  The tar writer refuses more bytes   *)
(* than the header names at once, and fewer at the next header.            *)
CreateCopy(c) ==
    LET task == tasks[c]
        path == SourceOrder[task.next]
        file == IF path \in Databases THEN pages[path] ELSE task.opened
        read == Len(task.body)
    IN  /\ TaskAt(c, "copy")
        /\ tasks' = [tasks EXCEPT ![c] =
                CASE read < Len(file) /\ read = task.size -> NoTask
                  [] read < Len(file) /\ read < task.size -> [task EXCEPT !.body = Append(@, file[read + 1])]
                  [] read = Len(file) /\ read < task.size -> NoTask
                  [] OTHER -> [at |-> "stat", target |-> task.target, next |-> task.next + 1,
                               items |-> Append(task.items, [path |-> path, body |-> task.body])]]
        /\ UNCHANGED <<pages, archives, writes, started, had>>

(* The manifest last, then the rename, over whatever has the name by now.  *)
CreateEnd(c) ==
    /\ TaskAt(c, "stat") /\ tasks[c].next > Len(SourceOrder)
    /\ archives' = IF tasks[c].items = <<>> THEN archives
                   ELSE [t \in DOMAIN archives \union {tasks[c].target} |->
                           IF t = tasks[c].target THEN tasks[c].items ELSE archives[t]]
    /\ TaskEnds(c)
    /\ UNCHANGED <<pages, writes, started, had>>

----------------------------------------------------------------------------
(* Restore. *)

(* open reads the whole archive before anything is written, and refuses    *)
(* one with a file over its limit, which Create does not look at.          *)
RestoreBegin(c, target, force) ==
    /\ TaskAt(c, "idle") /\ started < MaxBackups /\ target \in DOMAIN archives
    /\ \A d \in BackupTasks : TaskAt(d, "idle")
    /\ \A k \in DOMAIN archives[target] : Len(archives[target][k].body) <= MaxFilePages
    /\ started' = started + 1
    /\ tasks' = [tasks EXCEPT ![c] = [at |-> "restore", items |-> archives[target], force |-> force]]
    /\ UNCHANGED <<pages, archives, writes, had>>

(* A file that is there stays unless forced; otherwise WriteFile empties   *)
(* it first.                                                               *)
RestoreStat(c) ==
    LET task == tasks[c]
    IN  /\ TaskAt(c, "restore") /\ task.items # <<>>
        /\ IF Exists(task.items[1].path) /\ ~task.force
           THEN /\ tasks' = [tasks EXCEPT ![c].items = Tail(@)]
                /\ UNCHANGED <<pages, had>>
           ELSE /\ tasks' = [tasks EXCEPT ![c].at = "write"]
                /\ Put(task.items[1].path, <<>>)
        /\ UNCHANGED <<archives, writes, started>>

RestoreWrite(c) ==
    LET item == tasks[c].items[1]
    IN  /\ TaskAt(c, "write")
        /\ Put(item.path, item.body)
        /\ tasks' = [tasks EXCEPT ![c].at = "restore", ![c].items = Tail(@)]
        /\ UNCHANGED <<archives, writes, started>>

RestoreEnd(c) ==
    /\ TaskAt(c, "restore") /\ tasks[c].items = <<>>
    /\ TaskEnds(c)
    /\ UNCHANGED <<pages, archives, writes, started, had>>

(* The command is killed; what it had on disk stays.                       *)
BackupKilled(c) ==
    /\ ~TaskAt(c, "idle")
    /\ TaskEnds(c)
    /\ UNCHANGED <<pages, archives, writes, started, had>>

BackupNext ==
    \/ \E path \in Paths, i \in 1..MaxPages : ReplaceFile(path, i) \/ WritePage(path, i)
    \/ \E c \in BackupTasks :
        \/ \E target \in Targets : CreateBegin(c, target)
        \/ \E target \in DOMAIN archives, force \in BOOLEAN : RestoreBegin(c, target, force)
        \/ CreateStat(c) \/ CreateOpen(c) \/ CreateCopy(c) \/ CreateEnd(c)
        \/ RestoreStat(c) \/ RestoreWrite(c) \/ RestoreEnd(c) \/ BackupKilled(c)

BackupInit ==
    /\ pages \in {[path \in there |-> <<0>>] : there \in SUBSET Paths}
    /\ archives = <<>> /\ tasks = [c \in BackupTasks |-> NoTask]
    /\ writes = 0 /\ started = 0 /\ had = [path \in Paths |-> IF path \in DOMAIN pages THEN {<<0>>} ELSE {}]

----------------------------------------------------------------------------
(* Properties. *)

(* What stands under an archive's name is whole: it lists a file once, and *)
(* each key or settings file is a content that file had at one moment      *)
(* (backup.go:120), however backups overlap, are killed or race the        *)
(* server's own writes.  Whether open takes files of that size is another  *)
(* matter (backup.go:249).                                                 *)
ArchiveWhole ==
    \A target \in DOMAIN archives :
        LET items == archives[target]
        IN  /\ items # <<>>
            /\ \A k, l \in DOMAIN items : items[k].path = items[l].path => k = l
            /\ \A k \in DOMAIN items :
                items[k].path \notin Databases => items[k].body \in had[items[k].path]
=============================================================================
