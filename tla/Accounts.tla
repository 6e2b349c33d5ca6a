------------------------------ MODULE Accounts ------------------------------
(***************************************************************************)
(* Where accounts live: the jsonfile provider with its copy of the file in *)
(* memory, and the commands "auth add, passwd, remove, list" over it.  The *)
(* lock is taken twice, once to replace the copy (load) and once to change *)
(* and save it; the file is read before the lock and stamped inside it.    *)
(* The sql provider keeps no copy.  A password is a number; the file's     *)
(* stamp is the number of times it was written.                            *)
(***************************************************************************)
EXTENDS Integers, FiniteSets, Functions

CONSTANTS Tasks,         \* identifiers of requests and commands at the same time
          Names, Passwords,
          MaxWrites      \* bound: times the file is written

ASSUME AccountsAssumption == Passwords \subseteq Nat \ {0} /\ MaxWrites \in Nat

VARIABLES file,       \* the file: accounts, and the stamp
          users,      \* the provider's copy
          stamp,      \* the stamp the copy is taken to have
          tasks       \* what each task has read and has yet to do

accountsVars == <<file, users, stamp, tasks>>

NoTask == [step |-> "idle"]
Account == [password : Passwords, secret : BOOLEAN]
Accepts(t, task) == tasks' = [tasks EXCEPT ![t] = task]
Over(t) == Accepts(t, NoTask)
WriteFile(accounts) == file.n < MaxWrites /\ file' = [accounts |-> accounts, n |-> file.n + 1]
Interferes(t) == [u \in Tasks |-> IF u = t \/ tasks[u] = NoTask THEN tasks[u] ELSE [tasks[u] EXCEPT !.alone = FALSE]]

----------------------------------------------------------------------------
(* Authenticate on the accounts it finds; the sql provider does the same   *)
(* with the row it selects.                                                *)
verdict(accounts, name, password, code) ==
    IF name \notin DOMAIN accounts \/ accounts[name].password # password THEN "invalid"
    ELSE IF ~accounts[name].secret THEN "identity"
    ELSE CASE code = "none" -> "second factor" [] code = "wrong" -> "invalid" [] OTHER -> "identity"

----------------------------------------------------------------------------
(* The jsonfile provider. *)

(* record: the copy while the stamps agree, else load first.  A file that  *)
(* does not parse leaves the copy in use.                                  *)
Refreshes(t, name) ==
    /\ tasks[t] = NoTask
    /\ stamp # file.n
    /\ tasks' = [Interferes(t) EXCEPT ![t] =
                   [step |-> "loaded", kind |-> "sign in", name |-> name, read |-> file.accounts, alone |-> FALSE]]
    /\ UNCHANGED <<file, users, stamp>>

AddFromCopy(t, kind, name, password) ==
    /\ tasks[t] = NoTask
    /\ tasks' = [Interferes(t) EXCEPT ![t] = [step |-> "loaded", kind |-> kind, name |-> name,
                   password |-> password, began |-> file.accounts, read |-> users,
                   alone |-> \A u \in Tasks : tasks[u] = NoTask]]
    /\ UNCHANGED <<file, users, stamp>>
(* Add, SetPassword, Remove and List begin by reading the file.            *)
Command(t, kind, name, password) ==
    /\ tasks[t] = NoTask
    /\ tasks' = [Interferes(t) EXCEPT ![t] = [step |-> "loaded", kind |-> kind, name |-> name,
                   password |-> password, began |-> file.accounts, read |-> file.accounts,
                   alone |-> \A u \in Tasks : tasks[u] = NoTask]]
    /\ UNCHANGED <<file, users, stamp>>

(* The second half of load: the copy and the stamp the file has by now.    *)
load(t) ==
    /\ tasks[t].step = "loaded"
    /\ users' = tasks[t].read
    /\ stamp' = file.n
    /\ tasks' = IF tasks[t].kind \in {"sign in", "list"} THEN [tasks EXCEPT ![t] = NoTask]
                ELSE [tasks EXCEPT ![t].step = "locked"]
    /\ UNCHANGED <<file>>

Changed(task) ==
    CASE task.kind = "add" -> [n \in DOMAIN users \union {task.name} |->
            IF n = task.name THEN [password |-> task.password, secret |-> FALSE] ELSE users[n]]
      [] task.kind = "passwd" -> [users EXCEPT ![task.name].password = task.password]
      [] OTHER -> Restrict(users, DOMAIN users \ {task.name})

(* Under the lock: the copy is checked and changed, then saved; when the   *)
(* save fails the change stays in the copy.                                *)
save(t) ==
    LET task == tasks[t] IN
    /\ task.step = "locked"
    /\ IF (task.name \in DOMAIN users) = (task.kind = "add")
       THEN Over(t) /\ UNCHANGED <<file, users, stamp>>
       ELSE /\ users' = Changed(task)
            /\ \/ /\ WriteFile(users') /\ stamp' = file'.n
                  /\ tasks' = [Interferes(t) EXCEPT ![t].step = "answered"]
               \/ Over(t) /\ UNCHANGED <<file, stamp>>

AccountAnswered(t) ==
    /\ tasks[t].step = "answered"
    /\ Over(t)
    /\ UNCHANGED <<file, users, stamp>>

(* The owner edits the file, or whoever owns the table changes it.         *)
HandEdit ==
    \E name \in Names, account \in Account :
        /\ WriteFile([n \in DOMAIN file.accounts \union {name} |->
                        IF n = name THEN account ELSE file.accounts[n]])
        /\ tasks' = [t \in Tasks |-> IF tasks[t] = NoTask THEN NoTask ELSE [tasks[t] EXCEPT !.alone = FALSE]]
        /\ UNCHANGED <<users, stamp>>

AccountsNext ==
    \/ \E t \in Tasks :
        \/ \E name \in Names : Refreshes(t, name)
        \/ \E name \in Names, password \in Passwords, kind \in {"add", "passwd", "remove", "list"} :
              Command(t, kind, name, password)
        \/ load(t) \/ save(t) \/ AccountAnswered(t)
    \/ HandEdit

AccountsInit ==
    /\ file = [accounts |-> <<>>, n |-> 0]
    /\ users = <<>> /\ stamp = 0
    /\ tasks = [t \in Tasks |-> NoTask]

AccountsSpec == AccountsInit /\ [][AccountsNext]_accountsVars

----------------------------------------------------------------------------
(* Properties. *)

(* A command that nothing overlaps and that says it is done left every     *)
(* other account as the file had it when the command began, hand edits     *)
(* included, and the next sign-in sees what it wrote (jsonfile.go:188).    *)
CommandKeepsTheRest ==
    \A t \in Tasks : (tasks[t].step = "answered" /\ tasks[t].alone) =>
        /\ \A n \in Names \ {tasks[t].name} :
             /\ n \in DOMAIN file.accounts <=> n \in DOMAIN tasks[t].began
             /\ n \in DOMAIN tasks[t].began => file.accounts[n] = tasks[t].began[n]
        /\ stamp = file.n
        /\ verdict(users, tasks[t].name, tasks[t].password, "right")
             = (IF tasks[t].kind = "remove" THEN "invalid" ELSE "identity")

=============================================================================
