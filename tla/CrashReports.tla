---------------------------- MODULE CrashReports ----------------------------
(***************************************************************************)
(* Crash reports and launcher logs (crash/service.go, api/crash.go): a     *)
(* report is counted against its sender's hour, then sent to every sink    *)
(* in turn, one of which is a folder of files named after the second and   *)
(* the sender.  A sender is a player, or the address of somebody who has   *)
(* not signed in.                                                          *)
(***************************************************************************)
EXTENDS Integers, FiniteSets, Functions

CONSTANTS CrashCalls,      \* reports handled at the same time
          CrashPlayers,
          CrashAddresses,
          Safe,            \* [CrashPlayers -> the name with what a file may not have replaced]
          Hour,            \* an hour, in ticks
          MaxPerHour, AnonymousPerHour,
          AcceptsAnonymous,
          RemoteSinks,     \* sinks besides the folder, each may refuse
          MaxReports, MaxCrashClock   \* bounds: reports, ticks

ASSUME CrashAssumption ==
    /\ {Hour, MaxPerHour, AnonymousPerHour, MaxReports, MaxCrashClock} \subseteq Nat \ {0}
    /\ CrashPlayers \subseteq DOMAIN Safe /\ RemoteSinks \in Nat
    /\ AcceptsAnonymous \in BOOLEAN

VARIABLES recent,        \* sender -> the reports taken, each with its moment
          sending,       \* what each request is about
          crashFiles,    \* names of the files in the folder
          admitted,      \* history: sender -> every report let through
          reports, crashClock

crashVars == <<recent, sending, crashFiles, admitted, reports, crashClock>>

Senders == CrashPlayers \union CrashAddresses
(* A report as the counters know it: the how-many'th, and its moment.  The *)
(* numbers keep apart two reports of one moment.                           *)
Stamped(no, moment) == [no |-> no, at |-> moment]
NoSending == [at |-> "idle", accepted |-> FALSE]
hourLimit(sender) == IF sender \in CrashPlayers THEN MaxPerHour ELSE AnonymousPerHour

----------------------------------------------------------------------------
(* forgetStale: senders whose last report is more than an hour old.  The   *)
(* list is in the order of arrival, so the last is the latest.             *)
forgetStale(map, deadline) ==
    Restrict(map, {s \in DOMAIN map : \E r \in map[s] : r.at >= deadline})

(* The sender's own reports of the last hour, and what is left of the      *)
(* others.                                                                 *)
keptMoments(sender) ==
    IF sender \in DOMAIN recent
    THEN {r \in recent[sender] : r.at > crashClock - Hour} ELSE {}

afterSweep(sender) ==
    LET own == keptMoments(sender)
        map == IF own = {} THEN Restrict(recent, DOMAIN recent \ {sender})
               ELSE [recent EXCEPT ![sender] = own]
    IN  forgetStale(map, crashClock - Hour)

hourFullLate(sender) == Cardinality(keptMoments(sender)) > hourLimit(sender)
hourFull(sender) == Cardinality(keptMoments(sender)) >= hourLimit(sender)

(* allow: counts this report too when the hour is not full.                *)
allow(sender, report) ==
    IF hourFull(sender)
    THEN recent' = afterSweep(sender)
    ELSE LET swept == afterSweep(sender)
         IN  recent' = [s \in DOMAIN swept \union {sender} |->
                          IF s = sender THEN keptMoments(s) \union {report} ELSE swept[s]]

(* The file's name: the second (the launcher's, taken here as the moment   *)
(* of arrival), the player and the kind.  Every anonymous log has the same *)
(* player in it.                                                           *)
crashFileName(sender, kind) ==
    <<crashClock, IF sender \in CrashPlayers THEN Safe[sender] ELSE "anonymous", kind>>

(* ReportCrash needs a session; ReportLauncherLog takes an address when    *)
(* the operator lets it.                                                   *)
Receive(c, sender, kind) ==
    /\ sending[c].at = "idle" /\ reports < MaxReports
    /\ sender \in CrashAddresses => AcceptsAnonymous /\ kind = "launcher"
    /\ reports' = reports + 1
    /\ allow(sender, Stamped(reports, crashClock))
    /\ IF hourFull(sender)
       THEN UNCHANGED <<sending, admitted>>
       ELSE /\ admitted' = [admitted EXCEPT ![sender] = @ \union {Stamped(reports, crashClock)}]
            /\ sending' = [sending EXCEPT ![c] =
                    [at |-> "file", failed |-> 0, name |-> crashFileName(sender, kind)]]
    /\ UNCHANGED <<crashFiles, crashClock>>

(* fileSink.Send writes over a file of that name; the disk may refuse.     *)
SendFile(c, works) ==
    /\ sending[c].at = "file"
    /\ sending' = [sending EXCEPT ![c].at = "remote", ![c].failed = IF works THEN 0 ELSE 1]
    /\ crashFiles' = IF works THEN crashFiles \union {sending[c].name} ELSE crashFiles
    /\ UNCHANGED <<recent, admitted, reports, crashClock>>

(* The other sinks, each of which may fail; then the answer: refused only  *)
(* when every sink failed.                                                 *)
deliver(failed) == failed < 1 + RemoteSinks

SendRest(c, refusals) ==
    /\ sending[c].at = "remote" /\ refusals <= RemoteSinks
    /\ sending' = [sending EXCEPT ![c] =
            [at |-> "idle", accepted |-> deliver(sending[c].failed + refusals)]]
    /\ UNCHANGED <<recent, crashFiles, admitted, reports, crashClock>>

CrashTick ==
    /\ crashClock < MaxCrashClock /\ crashClock' = crashClock + 1
    /\ UNCHANGED <<recent, sending, crashFiles, admitted, reports>>

CrashNext ==
    \/ CrashTick
    \/ \E c \in CrashCalls :
        \/ \E sender \in Senders, kind \in {"crash", "launcher"} :
                Receive(c, sender, kind)
        \/ \E works \in BOOLEAN : SendFile(c, works)
        \/ \E refusals \in 0..RemoteSinks : SendRest(c, refusals)

CrashInit ==
    /\ recent = <<>> /\ crashFiles = {}
    /\ sending = [c \in CrashCalls |-> NoSending]
    /\ admitted = [s \in Senders |-> {}]
    /\ reports = 0 /\ crashClock = 0

CrashSpec == CrashInit /\ [][CrashNext]_crashVars

----------------------------------------------------------------------------
(* Properties. *)

(* In no hour are more reports of one sender let through than its limit    *)
(* (service.go:128), though the list of a silent sender is forgotten while *)
(* others report.                                                          *)
HourlyBound ==
    \A s \in Senders, t \in 0..crashClock :
        Cardinality({r \in admitted[s] : r.at \in (t - Hour + 1)..t}) <= hourLimit(s)
=============================================================================
