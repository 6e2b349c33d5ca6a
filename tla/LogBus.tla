------------------------------- MODULE LogBus -------------------------------
(***************************************************************************)
(* The server's log: logbus.Handler puts a line on the bus, a ring with a  *)
(* channel for every console that follows it, and then into the log file,  *)
(* which logfile.Writer moves aside when it is full.  The bus and the      *)
(* file have a lock each, so their orders may differ.                      *)
(***************************************************************************)
EXTENDS Integers, Sequences, SequencesExt, FiniteSets, FiniteSetsExt

CONSTANTS Loggers,       \* goroutines that log
          Followers,     \* StreamLogs calls
          RingSize, ChannelSize, Backscroll,
          FileLines,     \* lines until the file is moved aside (MaxSizeMB)
          Keep, MaxAge,  \* of the files moved aside
          MaxLines, MaxStamp, MaxDiskErrors

ASSUME LogAssumption == /\ RingSize \in Nat \ {0} /\ ChannelSize \in Nat \ {0} /\ Backscroll \in Nat
                        /\ Keep \in Nat \ {0} /\ FileLines \in Nat \ {0}

VARIABLES ring, next, full,   \* Bus
          logged,             \* lines so far; a line is its number
          pending,            \* logger -> the line between publish and printer.write, or 0
          follower,           \* follower -> its subscription
          writer,             \* Writer: its state, and the lines of the file at its path
          archive,            \* name of a file moved aside -> its lines and its time
          pruned,             \* files removed by prune
          acknowledged,       \* history: lines Write accepted
          stamp, diskErrors   \* the clock, in seconds; failures so far

busVars == <<ring, next, full, follower>>
fileVars == <<writer, archive, pruned, acknowledged, diskErrors>>
logVars == <<busVars, logged, pending, fileVars, stamp>>

NoLogLine == 0
NotFollowing == [following |-> FALSE, channel |-> <<>>, got |-> <<>>, lost |-> {}]

----------------------------------------------------------------------------
(* The bus *)

snapshotLocked(n) ==
    LET all == (IF full THEN SubSeq(ring, next, RingSize) ELSE <<>>) \o SubSeq(ring, 1, next - 1)
    IN  IF n < Len(all) THEN SubSeq(all, Len(all) - n + 1, Len(all)) ELSE all

(* A send that would wait is given up: the follower loses the line.        *)
OfferedLine(sub, line) ==
    IF ~ sub.following THEN sub
    ELSE IF Len(sub.channel) < ChannelSize THEN [sub EXCEPT !.channel = Append(@, line)]
    ELSE [sub EXCEPT !.lost = @ \union {line}]

(* Handler.Handle, first half: one line to the ring and to every channel.  *)
publish(h) ==
    /\ pending[h] = NoLogLine /\ logged < MaxLines
    /\ logged' = logged + 1
    /\ ring' = [ring EXCEPT ![next] = logged']
    /\ next' = (next % RingSize) + 1
    /\ full' = (full \/ next' = 1)
    /\ follower' = [f \in Followers |-> OfferedLine(follower[f], logged')]
    /\ pending' = [pending EXCEPT ![h] = logged']
    /\ UNCHANGED <<fileVars, stamp>>

(* Bus.Subscribe: the history and the channel under one lock; StreamLogs   *)
(* sends the history first.                                                *)
Subscribe(f) ==
    /\ ~ follower[f].following
    /\ follower' = [follower EXCEPT ![f] =
           [following |-> TRUE, channel |-> <<>>, got |-> snapshotLocked(Backscroll), lost |-> {}]]
    /\ UNCHANGED <<ring, next, full, logged, pending, fileVars, stamp>>

StreamLogs(f) ==
    /\ follower[f].following /\ follower[f].channel # <<>>
    /\ LET sub == follower[f] IN
       follower' = [follower EXCEPT ![f] = [following |-> sub.following, channel |-> Tail(sub.channel),
                                            got |-> Append(sub.got, Head(sub.channel)), lost |-> sub.lost]]
    /\ UNCHANGED <<ring, next, full, logged, pending, fileVars, stamp>>

(* cancel, also when the console's connection breaks.                      *)
Cancel(f) ==
    /\ follower[f].following
    /\ follower' = [follower EXCEPT ![f] = NotFollowing]
    /\ UNCHANGED <<ring, next, full, logged, pending, fileVars, stamp>>

----------------------------------------------------------------------------
(* The file *)

(* The first name of this second that is free: 0 is the one without a      *)
(* number.  Of one name more than there are files, one is free.            *)
rotatedNameTaken == <<stamp, 0>>
rotatedName == <<stamp, Min({n \in 0..Cardinality(DOMAIN archive) : <<stamp, n>> \notin DOMAIN archive})>>

(* Names are compared as strings: "-1.log" is before ".log".               *)
Before(a, b) == \/ a[1] < b[1]
                \/ a[1] = b[1] /\ a[2] # 0 /\ (b[2] = 0 \/ a[2] < b[2])

prune(files) ==
    {a \in DOMAIN files : \/ Cardinality({b \in DOMAIN files : Before(a, b)}) >= Keep
                          \/ files[a].modified < stamp - MaxAge}

Aside == [name \in DOMAIN archive \union {rotatedName} |->
            IF name = rotatedName THEN [lines |-> writer.lines, modified |-> writer.modified]
            ELSE archive[name]]

(* Writer.Write in printer.write.  The file may take the line or refuse    *)
(* it.  A failed rename or open leaves a closed file in the writer, and    *)
(* every later line meets the error of closing it again.  Handler.Handle   *)
(* drops the error of a line the file did not take.                        *)
Write(h) ==
    LET line == pending[h]
        Full == Cardinality(writer.lines) >= FileLines
        Into(lines) == [state |-> "open", lines |-> lines, modified |-> stamp]
        Takes(took) == \/ took = {line} /\ UNCHANGED diskErrors
                       \/ took = {} /\ diskErrors < MaxDiskErrors /\ diskErrors' = diskErrors + 1
    IN  /\ line # NoLogLine
        /\ pending' = [pending EXCEPT ![h] = NoLogLine]
        /\ \/ \E took \in SUBSET {line} :
              /\ writer.state = "open" /\ ~ Full /\ Takes(took)
              /\ writer' = Into(writer.lines \union took)
              /\ acknowledged' = acknowledged \union took
              /\ UNCHANGED <<archive, pruned>>
           \/ \E took \in SUBSET {line} :
              /\ writer.state = "open" /\ Full /\ Takes(took)
              /\ archive' = [a \in DOMAIN Aside \ prune(Aside) |-> Aside[a]]
              /\ pruned' = pruned \union {[name |-> a, file |-> Aside[a], at |-> stamp,
                                           among |-> DOMAIN Aside] : a \in prune(Aside)}
              /\ writer' = Into(took)
              /\ acknowledged' = acknowledged \union took
           \/ /\ writer.state = "open" /\ Full /\ diskErrors < MaxDiskErrors
              /\ \/ writer' = [writer EXCEPT !.state = "stuck"] /\ UNCHANGED archive
                 \/ writer' = [writer EXCEPT !.state = "stuck", !.lines = {}] /\ archive' = Aside
              /\ diskErrors' = diskErrors + 1
              /\ UNCHANGED <<pruned, acknowledged>>
           \/ /\ writer.state # "open"
              /\ UNCHANGED fileVars
        /\ UNCHANGED <<busVars, logged, stamp>>

(* Close, and Open by the next process, which appends to what is there.    *)
(* The bus and the goroutines are gone with the process.                   *)
LogRestart ==
    /\ writer' = [writer EXCEPT !.state = "open"]
    /\ writer.state = "stuck" \/ \E h \in Loggers : pending[h] # NoLogLine
    /\ pending' = [h \in Loggers |-> NoLogLine]
    /\ ring' = [i \in 1..RingSize |-> NoLogLine] /\ next' = 1 /\ full' = FALSE
    /\ follower' = [f \in Followers |-> NotFollowing]
    /\ UNCHANGED <<logged, archive, pruned, acknowledged, diskErrors, stamp>>

LogTick == stamp < MaxStamp /\ stamp' = stamp + 1 /\ UNCHANGED <<busVars, logged, pending, fileVars>>

LogInit ==
    /\ ring = [i \in 1..RingSize |-> NoLogLine] /\ next = 1 /\ full = FALSE
    /\ logged = 0
    /\ pending = [h \in Loggers |-> NoLogLine]
    /\ follower = [f \in Followers |-> NotFollowing]
    /\ writer = [state |-> "open", lines |-> {}, modified |-> 0]
    /\ archive = <<>> /\ pruned = {} /\ acknowledged = {}
    /\ stamp = 0 /\ diskErrors = 0

LogNext ==
    \/ \E h \in Loggers : publish(h) \/ Write(h)
    \/ \E f \in Followers : Subscribe(f) \/ StreamLogs(f) \/ Cancel(f)
    \/ LogRestart \/ LogTick

LogSpec == LogInit /\ [][LogNext]_logVars

----------------------------------------------------------------------------
(* Properties *)

(* What a console that follows the log has been sent is every line from    *)
(* the first one on, once and in order, except those published while its   *)
(* channel was full (Bus.Subscribe, publish, StreamLogs), whatever the     *)
(* ring had gone through when it subscribed.                               *)
StreamComplete ==
    \A f \in Followers : follower[f].following =>
        LET all == follower[f].got \o follower[f].channel IN
        all # <<>> =>
          /\ \A i, j \in DOMAIN all : i < j => all[i] < all[j]
          /\ (all[1]..Last(all)) \ Range(all) \subseteq follower[f].lost

(* A line the file took is in the file, or in one of those moved aside, or *)
(* went with a file that prune was to remove: older than the limit, or     *)
(* beside Keep others of its own second or later (Writer.rotate, prune).   *)
LinesKept ==
    /\ acknowledged \subseteq
         writer.lines \union (UNION {archive[a].lines : a \in DOMAIN archive})
                      \union (UNION {p.file.lines : p \in pruned})
    /\ \A p \in pruned :
         \/ p.file.modified < p.at - MaxAge
         \/ Cardinality({a \in p.among \ {p.name} : a[1] >= p.name[1]}) >= Keep

(* A follower misses only what came while its channel was full, and the    *)
(* files keep the lines they took until prune may remove them.  Lines that *)
(* a failed disk or a stuck writer refuses are on the bus only.            *)
LinesReach == StreamComplete /\ LinesKept
=============================================================================
