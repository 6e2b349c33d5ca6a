------------------------------ MODULE Machines ------------------------------
(***************************************************************************)
(* Machine recognition and bans (hwid.Gate over a store).  A report is a   *)
(* set of hardware signals; Check compares it with the machines seen       *)
(* before, merges the groups it connects, records the machine and the      *)
(* account, and only then looks for a ban.  Each call of the store is a    *)
(* step, and over SQL each statement outside a transaction is one; nothing *)
(* is locked between them, so checks, bans and prunes interleave.          *)
(* Challenges, signatures and tickets are told apart by whether they are   *)
(* still good; the expiry of a ban or of an idle machine may come at any   *)
(* moment.  An identity has a subject, as every built-in provider's has.   *)
(***************************************************************************)
EXTENDS Integers, FiniteSets, FiniteSetsExt, SequencesExt

CONSTANTS Checks,            \* identifiers of checks running at the same time
          Commands,          \* bound: the operator's commands, each given once
          Subjects,          \* accounts
          Reports,           \* reports players send: sets of signals [kind, digest]
          MinScore, MinKinds, ClusterScore, FanOutLimit, MaxClusterSize,
          ConfirmThreshold,
          MaxMachines,       \* bound: machines ever recorded
          MaxBans            \* bound: references, and so bans active at a time

ASSUME MachinesAssumption ==
    /\ {MinScore, MinKinds, ClusterScore, FanOutLimit, MaxClusterSize, ConfirmThreshold,
        MaxMachines, MaxBans} \subseteq Nat
    /\ ClusterScore <= MinScore

VARIABLES sql,        \* the store is the SQL one, not the one in memory
          machines,   \* id -> machine, for the machines on record
          signals,    \* pairs <<machine, signal>>
          lastMachine,\* ids drawn so far
          seenOn,     \* pairs <<machine, subject>>
          bans,       \* the active bans: [reference, target]
          checks,     \* what each check has read and has yet to do
          orders      \* what each console command has read and has yet to do

machinesVars == <<sql, machines, signals, lastMachine, seenOn, bans, checks, orders>>

NoCheck == [pc |-> "idle"]
NoOrder == [pc |-> "idle"]
Done == [pc |-> "done"]
Known == DOMAIN machines
None == 0

----------------------------------------------------------------------------
(* match.go: how much two sets of signals have in common. *)

anchors == {"platform_key", "smbios_uuid", "platform_uuid"}
strong == {"board_serial", "disk_serial", "machine_id", "platform_serial", "os_install_id"}
weak == {"mac_address", "volume_id", "gpu", "cpu", "memory_size", "hostname"}

weightOf(kind, virtual, keyFallback) ==
    CASE kind \in anchors -> IF kind = "platform_key" /\ keyFallback THEN 15
                             ELSE IF virtual THEN 20 ELSE 40
      [] kind \in strong -> 15
      [] kind \in weak -> 5
      [] OTHER -> 0

countCap(kind) == IF kind \in {"disk_serial", "mac_address"} THEN 2 ELSE 1

(* The machines a signal was seen on, those whose row is gone included.    *)
FanOut(signal) == Cardinality({p[1] : p \in {q \in signals : q[2] = signal}})

(* Of the signals a candidate shares with the report, those that count:    *)
(* not seen on too many machines, and worth something.                     *)
Matched(shared) == {s \in shared : /\ FanOutLimit = 0 \/ FanOut(s) <= FanOutLimit
                                   /\ weightOf(s.kind, FALSE, FALSE) # 0}

kinds(shared) == {s.kind : s \in Matched(shared)}
score(shared) == MapThenSumSet(
    LAMBDA k : LET n == Cardinality({s \in Matched(shared) : s.kind = k})
               IN  weightOf(k, FALSE, FALSE) * (IF n < countCap(k) THEN n ELSE countCap(k)),
    kinds(shared))

(* Of the candidates found (id -> group), with the points each has, those  *)
(* alike enough to be of the report's group, and the best of them; which   *)
(* among equals, their age decides.                                        *)
Alike(points) == {m \in DOMAIN points : points[m] > 0 /\ points[m] >= ClusterScore}
Best(points) == {m \in Alike(points) : \A n \in Alike(points) : points[m] >= points[n]}

ResolveUnmerged(best, found, points, shared) ==
    [machine |-> IF points[best] >= MinScore /\ Cardinality(kinds(shared[best])) >= MinKinds
                 THEN best ELSE None,
     cluster |-> found[best], merge |-> {}]
Resolve(best, found, points, shared) ==
    [machine |-> IF points[best] >= MinScore /\ Cardinality(kinds(shared[best])) >= MinKinds
                 THEN best ELSE None,
     cluster |-> found[best],
     merge |-> {found[m] : m \in Alike(points)} \ {found[best]}]
Resolution == [machine |-> None, cluster |-> None, merge |-> {}]

----------------------------------------------------------------------------
(* Gate.Check. *)

Shared(report) == [m \in {p[1] : p \in {q \in signals : q[2] \in report}} |->
                      {s \in report : <<m, s>> \in signals}]
Rows(shared) == [m \in DOMAIN shared \cap Known |-> machines[m].cluster]

(* validate: a report that fails ends the check, with an error or (when    *)
(* only observing) without; then the store is asked for candidates: in     *)
(* memory under one lock, over SQL first for the signals.  alike, alone    *)
(* and erased are kept for the properties only.                            *)
Candidates(c, subject, report) ==
    /\ checks[c] = NoCheck
    /\ checks' = [d \in Checks |->
          IF d = c THEN [pc |-> IF sql THEN "rows" ELSE "count", subject |-> subject, report |-> report,
                         shared |-> Shared(report), found |-> IF sql THEN <<>> ELSE Rows(Shared(report)),
                         merge |-> {}, machine |-> None, cluster |-> None, alike |-> {},
                         alone |-> \A e \in Checks : checks[e] = NoCheck, erased |-> FALSE]
          ELSE IF checks[d] = NoCheck THEN NoCheck ELSE [checks[d] EXCEPT !.alone = FALSE, !.alike = {}]]
    /\ UNCHANGED <<sql, machines, signals, lastMachine, seenOn, bans, orders>>

(* ... and then for the rows of their machines.                            *)
CandidateRows(c) ==
    /\ checks[c].pc = "rows"
    /\ checks' = [checks EXCEPT ![c].pc = "count", ![c].found = Rows(checks[c].shared)]
    /\ UNCHANGED <<sql, machines, signals, lastMachine, seenOn, bans, orders>>

(* FanOut, and the resolution of what was read: a new machine draws its    *)
(* id, and a new group is named after it.                                  *)
CheckResolve(c) ==
    /\ checks[c].pc = "count"
    /\ LET k == checks[c]
           points == [m \in DOMAIN k.found |-> score(k.shared[m])]
           fresh == lastMachine + 1
       IN  \E found \in IF Alike(points) = {} THEN {Resolution}
                        ELSE {Resolve(best, k.found, points, k.shared) : best \in Best(points)} :
             /\ IF found.machine = None
                THEN lastMachine < MaxMachines /\ lastMachine' = fresh
                ELSE UNCHANGED lastMachine
             /\ checks' = [checks EXCEPT ![c] =
                  [pc |-> "move", subject |-> k.subject, report |-> k.report,
                   shared |-> <<>>, found |-> <<>>, merge |-> found.merge,
                   machine |-> IF found.machine = None THEN fresh ELSE found.machine,
                   cluster |-> IF found.cluster = None THEN fresh ELSE found.cluster,
                   alike |-> IF k.alone THEN Alike(points) ELSE {},
                   alone |-> k.alone, erased |-> FALSE]]
    /\ UNCHANGED <<sql, machines, signals, seenOn, bans, orders>>

(* MoveCluster for one group after another that the report connects; bans  *)
(* stay as they are.                                                       *)
CheckMove(c) ==
    /\ checks[c].pc = "move"
    /\ \E k \in checks[c].merge :
         /\ machines' = [m \in Known |-> IF machines[m].cluster = k
                                         THEN [machines[m] EXCEPT !.cluster = checks[c].cluster]
                                         ELSE machines[m]]
         /\ checks' = [checks EXCEPT ![c].merge = checks[c].merge \ {k}]
    /\ UNCHANGED <<sql, signals, lastMachine, seenOn, bans, orders>>

(* SaveMachine, one lock or one transaction: signals add up, the trust an  *)
(* operator gave stays, and the group is the one read before.              *)
SaveMachine(c) ==
    /\ checks[c].pc = "move" /\ checks[c].merge = {}
    /\ LET id == checks[c].machine
       IN  /\ machines' = [m \in Known \union {id} |->
                 IF m = id THEN [cluster |-> checks[c].cluster,
                                 trusted |-> id \in Known /\ machines[id].trusted]
                 ELSE machines[m]]
           /\ signals' = signals \union ({id} \X checks[c].report)
    /\ checks' = [checks EXCEPT ![c].pc = "see", ![c].report = {}]
    /\ UNCHANGED <<sql, lastMachine, seenOn, bans, orders>>

Recorded(c) == seenOn \union {<<checks[c].machine, checks[c].subject>>}

SeeAccount(c) ==
    /\ checks[c].pc = "see"
    /\ seenOn' = Recorded(c)
    /\ checks' = [checks EXCEPT ![c].pc = "verdict", ![c].alike = {}]
    /\ UNCHANGED <<sql, machines, signals, lastMachine, bans, orders>>

BansOn(targets) == {b \in bans : b.target \in targets}

(* findBan: the bans a check would be refused for; without one, or when    *)
(* the mode only observes, the player gets a ticket and the check ends.    *)
findBan(subject, machine, cluster) ==
    BansOn({<<"account", subject>>, <<"machine", machine>>, <<"cluster", cluster>>})

CheckVerdict(c) ==
    /\ checks[c].pc = "verdict"
    /\ checks' = [checks EXCEPT ![c] = NoCheck]
    /\ UNCHANGED <<sql, machines, signals, lastMachine, seenOn, bans, orders>>

(* A call of the store fails, or the player's call ends: what the check    *)
(* has written stays.                                                      *)
CheckError(c) ==
    /\ checks[c].pc \in {"rows", "count", "move", "see"}
    /\ checks' = [checks EXCEPT ![c] = NoCheck]
    /\ UNCHANGED <<sql, machines, signals, lastMachine, seenOn, bans, orders>>

(* CheckSubject, for a login without a report: every machine the account   *)
(* was seen on counts.                                                     *)
MachinesOfSubject(subject) == {m \in Known : <<m, subject>> \in seenOn}
CheckSubject(subject) ==
    LET mine == MachinesOfSubject(subject)
    IN  BansOn({<<"account", subject>>} \union {<<"machine", m>> : m \in mine}
               \union {<<"cluster", machines[m].cluster>> : m \in mine})

----------------------------------------------------------------------------
(* The operator: ban, bans lift, machines trust, machines prune. *)

OrderGoes(o, order) == orders' = [orders EXCEPT ![o] = order]
MachinesOfCluster(cluster) == {m \in Known : machines[m].cluster = cluster}

(* The console bans the account, a machine or a group it names, or leaves  *)
(* the scope open: then the machines of the account decide.                *)
NamedTargets(subject) == {<<"account", subject>>}
    \union {<<"machine", m>> : m \in Known} \union {<<"cluster", machines[m].cluster>> : m \in Known}

autoScope(subject) ==
    LET mine == MachinesOfSubject(subject)
        clusters == {machines[m].cluster : m \in mine}
    IN  IF Cardinality(clusters) = 1 /\ \A m \in mine : ~machines[m].trusted
        THEN [pc |-> "members", target |-> <<"cluster", CHOOSE k \in clusters : TRUE>>, subject |-> subject]
        ELSE [pc |-> "save", target |-> <<"account", subject>>, subject |-> subject]

BanBegin(o, subject) ==
    /\ orders[o] = NoOrder
    /\ \/ OrderGoes(o, autoScope(subject))
       \/ \E target \in NamedTargets(subject) :
             OrderGoes(o, [pc |-> "save", target |-> target, subject |-> subject])
    /\ UNCHANGED <<sql, machines, signals, lastMachine, seenOn, bans, checks>>

(* autoScope goes on: a group too large, with a trusted machine, or that   *)
(* could not be read leaves the account.                                   *)
BanMembers(o) ==
    /\ orders[o].pc = "members"
    /\ \/ /\ LET members == MachinesOfCluster(orders[o].target[2])
             IN  Cardinality(members) <= MaxClusterSize /\ \A m \in members : ~machines[m].trusted
          /\ OrderGoes(o, [orders[o] EXCEPT !.pc = "save"])
       \/ OrderGoes(o, [orders[o] EXCEPT !.pc = "save", !.target = <<"account", orders[o].subject>>])
    /\ UNCHANGED <<sql, machines, signals, lastMachine, seenOn, bans, checks>>

reach(target) ==
    CASE target[1] = "machine" -> {p[2] : p \in {q \in seenOn : q[1] = target[2]}}
      [] target[1] = "cluster" -> {p[2] : p \in {q \in seenOn : q[1] \in MachinesOfCluster(target[2])}}
      [] OTHER -> {}

(* The ban is saved, though what it was chosen by may be gone.  Too wide a *)
(* ban needs --yes; with it the accounts are only counted, so that count   *)
(* is taken here.                                                          *)
SaveBan(o, confirm) ==
    /\ orders[o].pc = "save"
    /\ Cardinality(reach(orders[o].target)) <= ConfirmThreshold \/ confirm
    /\ \E reference \in (1..MaxBans) \ {b.reference : b \in bans} :
          bans' = bans \union {[reference |-> reference, target |-> orders[o].target]}
    /\ OrderGoes(o, Done)
    /\ UNCHANGED <<sql, machines, signals, lastMachine, seenOn, checks>>

(* A ban is lifted, or its time is over.                                   *)
Unban(b) ==
    /\ bans' = bans \ {b}
    /\ UNCHANGED <<sql, machines, signals, lastMachine, seenOn, checks, orders>>

SetTrusted(o, m) ==
    /\ orders[o] = NoOrder
    /\ machines' = [machines EXCEPT ![m].trusted = ~@]
    /\ OrderGoes(o, Done)
    /\ UNCHANGED <<sql, signals, lastMachine, seenOn, bans, checks>>

(* Machines idle for the retention are forgotten: in memory under the      *)
(* store's lock.                                                           *)
Prune(o, idle) ==
    /\ ~sql /\ orders[o] = NoOrder
    /\ machines' = [m \in Known \ idle |-> machines[m]]
    /\ signals' = {p \in signals : p[1] \notin idle}
    /\ seenOn' = {p \in seenOn : p[1] \notin idle}
    /\ OrderGoes(o, Done)
    /\ UNCHANGED <<sql, lastMachine, bans, checks>>

(* Over SQL they are selected first, but for those under a hardware ban;   *)
(* then their signals, their accounts and the machines are deleted, with   *)
(* nothing to keep a check from recording one of them meanwhile.           *)
PruneSelect(o, idle) ==
    /\ sql /\ orders[o] = NoOrder
    /\ \A m \in idle : BansOn({<<"machine", m>>, <<"cluster", machines[m].cluster>>}) = {}
    /\ OrderGoes(o, [pc |-> "signals", stale |-> idle])
    /\ UNCHANGED <<sql, machines, signals, lastMachine, seenOn, bans, checks>>

PruneSignals(o) ==
    /\ orders[o].pc = "signals"
    /\ signals' = {p \in signals : p[1] \notin orders[o].stale}
    /\ OrderGoes(o, [orders[o] EXCEPT !.pc = "accounts"])
    /\ UNCHANGED <<sql, machines, lastMachine, seenOn, bans, checks>>

PruneAccounts(o) ==
    /\ orders[o].pc = "accounts"
    /\ seenOn' = {p \in seenOn : p[1] \notin orders[o].stale}
    /\ checks' = [c \in Checks |-> IF checks[c].pc = "verdict" /\ checks[c].alone /\ checks[c].machine \in orders[o].stale
                                   THEN [checks[c] EXCEPT !.erased = TRUE] ELSE checks[c]]
    /\ OrderGoes(o, [orders[o] EXCEPT !.pc = "machines"])
    /\ UNCHANGED <<sql, machines, signals, lastMachine, bans>>

PruneMachines(o) ==
    /\ orders[o].pc = "machines"
    /\ machines' = [m \in Known \ orders[o].stale |-> machines[m]]
    /\ OrderGoes(o, Done)
    /\ UNCHANGED <<sql, signals, lastMachine, seenOn, bans, checks>>

(* A call of the store fails, or a ban is not confirmed: what the command  *)
(* has done so far stays.                                                  *)
OrderFails(o) ==
    /\ orders[o] \notin {NoOrder, Done}
    /\ OrderGoes(o, Done)
    /\ UNCHANGED <<sql, machines, signals, lastMachine, seenOn, bans, checks>>

(* The operator's commands: ban <player> with what --account, --machine,   *)
(* --cluster and --yes make of it; bans lift <reference>; machines trust,  *)
(* machines prune (over one backend or the other).                         *)
banCommand(o) ==
    \/ \E subject \in Subjects : BanBegin(o, subject)
    \/ BanMembers(o)
    \/ \E confirm \in BOOLEAN : SaveBan(o, confirm)
bansCommand == \E b \in bans : Unban(b)
machinesCommand(o) ==
    \/ \E m \in Known : SetTrusted(o, m) \/ Prune(o, {m}) \/ PruneSelect(o, {m})
    \/ PruneSignals(o) \/ PruneAccounts(o) \/ PruneMachines(o)

MachinesNext ==
    \/ \E c \in Checks :
        \/ \E subject \in Subjects, report \in Reports : Candidates(c, subject, report)
        \/ CandidateRows(c) \/ CheckResolve(c) \/ CheckMove(c) \/ SaveMachine(c)
        \/ SeeAccount(c) \/ CheckVerdict(c) \/ CheckError(c)
    \/ \E o \in Commands : banCommand(o) \/ machinesCommand(o) \/ OrderFails(o)
    \/ bansCommand

MachinesInit ==
    /\ sql \in BOOLEAN
    /\ machines = <<>> /\ signals = {} /\ lastMachine = 0 /\ seenOn = {} /\ bans = {}
    /\ checks = [c \in Checks |-> NoCheck]
    /\ orders = [o \in Commands |-> NoOrder]

MachinesSpec == MachinesInit /\ [][MachinesNext]_machinesVars

----------------------------------------------------------------------------
(* Properties. *)

(* Every machine that a report resembled enough to be of its group, when   *)
(* the store was asked, is in one group with the reporting machine once a  *)
(* check that no other check overlaps has saved it (match.go:102,          *)
(* gate.go:326): duplicates and split groups that racing or failing checks *)
(* and half-done prunes leave behind are healed by the next one, although  *)
(* an operator prunes meanwhile.                                           *)
GroupsConverge ==
    \A c \in Checks : (checks[c].pc = "see" /\ checks[c].alone) =>
        \A m \in Known \intersect (checks[c].alike \union {checks[c].machine}) :
            machines[m].cluster = checks[c].cluster

(* A ban that keeps a player out with a report also keeps them out at the  *)
(* next login without one (gate.go CheckSubject), for as long as it is     *)
(* active and the machine on record: the account is recorded on the        *)
(* machine before the verdict, although bans, merges and prunes come in    *)
(* between.  The one exception is a prune over SQL that selected the       *)
(* machine before this check and deletes its accounts after the check has  *)
(* recorded its own (sqlstore.go:417): until the machine's row follows,    *)
(* and for good if that DELETE fails, the ban does not hold there.         *)
BansFollow ==
    \A c \in Checks :
        LET k == checks[c]
        IN  (k.pc = "verdict" /\ k.alone /\ ~k.erased /\ k.machine \in Known) =>
                findBan(k.subject, k.machine, k.cluster) \subseteq CheckSubject(k.subject)

(* Racing checks neither split a group for good nor let a ban be evaded:   *)
(* the next check that no other overlaps brings the similar machines       *)
(* together, and a ban it finds also holds for a login without a report,   *)
(* unless a prune over SQL took its record of the account away.            *)
MachinesHold == GroupsConverge /\ BansFollow
=============================================================================
