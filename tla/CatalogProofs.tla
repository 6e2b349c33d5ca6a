---------------------------- MODULE CatalogProofs ----------------------------
(***************************************************************************)
(* Proofs about Catalog, for any builds, releases and requests, any number *)
(* of publishes, rollbacks, deletes and restarts.                          *)
(***************************************************************************)
EXTENDS Catalog, TLAPS

-----------------------------------------------------------------------------
(* The types of a stamp, a snapshot and a call of snapshot(). *)
Stamp == [Builds -> Seq(Contents \cup {None})]
Snapshot == [stamp : Stamp, shown : [Builds -> Contents \cup {None}],
             owned : [Builds -> SUBSET (Contents \cup {None})],
             version : [Builds -> Nat]]
Scanning == {"list", "index", "verify", "collect"}
Scan == [at : {"idle", "lock", "answer"} \cup Scanning,
         todo : SUBSET Builds, listed : SUBSET Builds,
         build : Builds \cup {None}, stamp : Stamp,
         version : [Builds -> Nat], answer : Snapshot]

Types ==
  /\ pointer \in [Builds -> Seq(Ids)]
  /\ release \in [Builds -> [Ids -> {"unused", "complete", "torn", "gone"}]]
  /\ current \in Snapshot \cup {None}
  /\ scan \in [Requests -> Scan]
  /\ held \in [Builds -> SUBSET Contents]
  /\ version \in [Builds -> Nat]
  /\ flat \in SUBSET Builds
  /\ aways \in Nat /\ (away => aways # 0)

(***************************************************************************)
(* The releases of a build that launchers may hold or are about to be      *)
(* handed.  A release named anywhere has been written: its identifier is   *)
(* never used again.                                                       *)
(***************************************************************************)
Seen(b) == {id \in Ids : \/ id \in held[b]
                         \/ current # None /\ current.shown[b] = id
                         \/ \E s \in Requests : scan[s].answer.shown[b] = id}

Used(b) == \A id \in RangeOf(pointer[b]) \cup Seen(b) : release[b][id] # "unused"

(***************************************************************************)
(* What a scan has read of a build: a history that either is a part of the *)
(* present one or has no release in common with it; once it has read the   *)
(* pointer, every release that was seen and is still published; and a      *)
(* state of the pointer no older than the snapshot's.                      *)
(***************************************************************************)
StampOK(c, b) ==
  /\ \A id \in RangeOf(c.stamp[b]) \cap Ids : release[b][id] # "unused"
  /\ RangeOf(c.stamp[b]) \cap RangeOf(pointer[b]) # {}
       => RangeOf(c.stamp[b]) \subseteq RangeOf(pointer[b])
  /\ b \notin c.todo => Seen(b) \cap RangeOf(pointer[b]) \subseteq RangeOf(c.stamp[b])
  /\ c.version[b] <= version[b]
  /\ current # None => current.version[b] <= c.version[b]

ScanAt(c) ==
  /\ c.at \in {"lock", "list"} => c.stamp = Nothing
  /\ c.at \in {"index", "verify", "collect"} => \A b \in Builds : StampOK(c, b)
  /\ c.at = "collect" => c.todo = {}

(* One scan at a time. *)
Mutex == \A s, t \in Requests :
           scan[s].at \in Scanning /\ scan[t].at \in Scanning => s = t

(* The snapshot owns what was seen and is still published. *)
CurrentOK(b) ==
  current # None =>
    /\ current.version[b] <= version[b]
    /\ Whole(b) /\ aways = 0 =>
         Seen(b) \cap RangeOf(pointer[b]) \subseteq current.owned[b]

IInv == /\ Types /\ Mutex
        /\ \A b \in Builds : Used(b) /\ CurrentOK(b)
        /\ \A s \in Requests : ScanAt(scan[s])

-----------------------------------------------------------------------------
(* The range of a sequence, and what the commands do to a history. *)
LEMMA Ranges ==
  ASSUME NEW S
  PROVE  /\ RangeOf(<<>>) = {}
         /\ \A x \in S : RangeOf(<<x>>) = {x} /\ <<x>> \in Seq(S)
         /\ \A x, y \in S : RangeOf(<<x, y>>) = {x, y} /\ <<x, y>> \in Seq(S)
         /\ \A s \in Seq(S) : RangeOf(s) \subseteq S
         /\ \A s \in Seq(S) : s # <<>> => Head(s) \in RangeOf(s)
<1>1. RangeOf(<<>>) = {}
  BY DEF RangeOf
<1>2. \A x \in S : RangeOf(<<x>>) = {x} /\ <<x>> \in Seq(S)
  BY DEF RangeOf
<1>3. \A x, y \in S : RangeOf(<<x, y>>) = {x, y} /\ <<x, y>> \in Seq(S)
  <2> SUFFICES ASSUME NEW x \in S, NEW y \in S
               PROVE  RangeOf(<<x, y>>) = {x, y} /\ <<x, y>> \in Seq(S)
    OBVIOUS
  <2>1. DOMAIN <<x, y>> = {1, 2}
    OBVIOUS
  <2> QED BY <2>1 DEF RangeOf
<1>4. \A s \in Seq(S) : RangeOf(s) \subseteq S
  BY DEF RangeOf
<1>5. \A s \in Seq(S) : s # <<>> => Head(s) \in RangeOf(s)
  <2> SUFFICES ASSUME NEW s \in Seq(S), s # <<>> PROVE Head(s) \in RangeOf(s)
    OBVIOUS
  <2>1. 1 \in DOMAIN s /\ Head(s) = s[1]
    OBVIOUS
  <2> QED BY <2>1 DEF RangeOf
<1> QED BY <1>1, <1>2, <1>3, <1>4, <1>5

(* A new release comes first. *)
LEMMA Prepended ==
  ASSUME NEW S, NEW s \in Seq(S), NEW x \in S
  PROVE  <<x>> \o s \in Seq(S) /\ RangeOf(<<x>> \o s) = RangeOf(s) \cup {x}
<1> DEFINE t == <<x>> \o s
<1>1. /\ t \in Seq(S) /\ DOMAIN t = 1 .. Len(s) + 1 /\ t[1] = x
      /\ DOMAIN s = 1 .. Len(s) /\ Len(s) \in Nat
      /\ \A i \in DOMAIN s : t[i + 1] = s[i]
  OBVIOUS
<1> HIDE DEF t
<1>2. \A i \in DOMAIN t : i = 1 \/ (i - 1 \in DOMAIN s /\ t[i] = s[i - 1])
  <2> SUFFICES ASSUME NEW i \in DOMAIN t, i # 1
               PROVE  i - 1 \in DOMAIN s /\ t[i] = s[i - 1]
    OBVIOUS
  <2>1. i - 1 \in DOMAIN s /\ (i - 1) + 1 = i
    BY <1>1
  <2> QED BY <1>1, <2>1
<1>3. \A i \in DOMAIN s : i + 1 \in DOMAIN t
  BY <1>1
<1>4. 1 \in DOMAIN t
  BY <1>1
<1> QED BY <1>1, <1>2, <1>3, <1>4 DEF RangeOf, t

(* A rollback reorders the history. *)
LEMMA Reordered ==
  ASSUME NEW S, NEW s \in Seq(S), NEW x \in RangeOf(s)
  PROVE  MovedToFront(s, x) \in Seq(S) /\ RangeOf(MovedToFront(s, x)) = RangeOf(s)
<1> DEFINE k == CHOOSE k \in DOMAIN s : s[k] = x
           t == [i \in DOMAIN s |-> IF i = 1 THEN x ELSE IF i <= k THEN s[i - 1]
                                                     ELSE s[i]]
<1>1. k \in DOMAIN s /\ s[k] = x
  BY DEF RangeOf
<1>2. MovedToFront(s, x) = t
  BY DEF MovedToFront
<1>3. DOMAIN s = 1 .. Len(s) /\ Len(s) \in Nat
  OBVIOUS
<1> HIDE DEF k
<1>4. \A i \in DOMAIN s : \E j \in DOMAIN s : t[i] = s[j]
  <2> SUFFICES ASSUME NEW i \in DOMAIN s PROVE \E j \in DOMAIN s : t[i] = s[j]
    OBVIOUS
  <2>1. CASE i = 1
    BY <1>1, <2>1
  <2>2. CASE i # 1 /\ i <= k
    <3>1. i - 1 \in DOMAIN s /\ t[i] = s[i - 1]
      BY <1>3, <2>2
    <3> QED BY <3>1
  <2>3. CASE i # 1 /\ ~(i <= k)
    BY <2>3
  <2> QED BY <2>1, <2>2, <2>3
<1>5. \A j \in DOMAIN s : \E i \in DOMAIN s : t[i] = s[j]
  <2> SUFFICES ASSUME NEW j \in DOMAIN s PROVE \E i \in DOMAIN s : t[i] = s[j]
    OBVIOUS
  <2>1. CASE j = k
    <3>1. 1 \in DOMAIN s
      BY <1>1, <1>3
    <3> QED BY <1>1, <2>1, <3>1
  <2>2. CASE j < k
    <3>1. j + 1 \in DOMAIN s /\ j + 1 # 1 /\ j + 1 <= k /\ (j + 1) - 1 = j
      BY <1>1, <1>3, <2>2
    <3> QED BY <3>1
  <2>3. CASE j > k
    <3>1. j # 1 /\ ~(j <= k)
      BY <1>1, <1>3, <2>3
    <3> QED BY <3>1
  <2> QED BY <1>1, <1>3, <2>1, <2>2, <2>3
<1>6. DOMAIN t = DOMAIN s
  OBVIOUS
<1>7. t \in Seq(S)
  <2>1. \A i \in DOMAIN s : t[i] \in S
    BY <1>4
  <2>2. t \in [1 .. Len(s) -> S]
    BY <1>3, <2>1
  <2> HIDE DEF t
  <2> QED BY <1>3, <2>2
<1> HIDE DEF t
<1>8. RangeOf(t) = RangeOf(s)
  <2>1. ASSUME NEW y \in RangeOf(t) PROVE y \in RangeOf(s)
    BY <1>4, <1>6 DEF RangeOf
  <2>2. ASSUME NEW y \in RangeOf(s) PROVE y \in RangeOf(t)
    BY <1>5, <1>6 DEF RangeOf
  <2> QED BY <2>1, <2>2
<1> QED BY <1>2, <1>7, <1>8

-----------------------------------------------------------------------------
(***************************************************************************)
(* A step that shows nothing new and leaves the disk and the snapshot      *)
(* alone, or drops the snapshot, only has to keep the calls in order.      *)
(***************************************************************************)
LEMMA QuietStep ==
  ASSUME IInv, Types', Mutex',
         pointer' = pointer, release' = release, version' = version,
         current' = current \/ current' = None, aways' = 0 => aways = 0,
         \A b \in Builds : Seen(b)' \subseteq Seen(b),
         \A s \in Requests : ScanAt(scan'[s])
  PROVE  IInv'
<1>1. \A b \in Builds : Used(b)'
  BY DEF IInv, Used
<1>2. \A b \in Builds : CurrentOK(b)'
  BY DEF IInv, CurrentOK, Whole
<1>3. ASSUME NEW s \in Requests PROVE ScanAt(scan[s])'
  <2>1. ScanAt(scan'[s])
    OBVIOUS
  <2>2. ASSUME NEW b \in Builds, StampOK(scan'[s], b) PROVE StampOK(scan[s], b)'
    BY <2>2 DEF StampOK
  <2> QED BY <2>1, <2>2 DEF ScanAt, Nothing
<1> QED BY <1>1, <1>2, <1>3 DEF IInv

(***************************************************************************)
(* A step of a command: what it adds to a history is new, what it takes is *)
(* the whole history; no release is written again.                         *)
(***************************************************************************)
DiskMoves(b) ==
  /\ \/ RangeOf(pointer'[b]) = {}
     \/ /\ RangeOf(pointer[b]) \subseteq RangeOf(pointer'[b])
        /\ \A id \in RangeOf(pointer'[b]) \ RangeOf(pointer[b]) :
             release[b][id] = "unused"
  /\ \A id \in Ids : release[b][id] # "unused" =>
       /\ release'[b][id] # "unused"
       /\ release'[b][id] = "complete" => release[b][id] = "complete"
  /\ \A id \in RangeOf(pointer'[b]) : release'[b][id] # "unused"
  /\ version[b] <= version'[b]

(* Such a step keeps the invariant. *)
LEMMA DiskStep ==
  ASSUME IInv, Types', \A b \in Builds : DiskMoves(b),
         current' = current, scan' = scan, held' = held, aways' = aways
  PROVE  IInv'
<1>1. Types /\ \A b \in Builds : Used(b)
  BY DEF IInv
<1>2. Mutex'
  BY DEF IInv, Mutex
<1>3. ASSUME NEW b \in Builds PROVE Seen(b)' = Seen(b) /\ Seen(b) \subseteq Ids
  BY DEF Seen
<1>4. ASSUME NEW b \in Builds
      PROVE  RangeOf(pointer[b]) \subseteq Ids /\ RangeOf(pointer'[b]) \subseteq Ids
  BY <1>1, Ranges DEF Types
<1>5. ASSUME NEW b \in Builds PROVE Used(b)'
  BY <1>1, <1>3 DEF DiskMoves, Used
<1>6. ASSUME NEW b \in Builds
      PROVE  Seen(b) \cap RangeOf(pointer'[b]) \subseteq RangeOf(pointer[b])
  BY <1>1, <1>3 DEF DiskMoves, Used
<1>7. ASSUME NEW b \in Builds PROVE CurrentOK(b)'
  <2> SUFFICES ASSUME current # None PROVE CurrentOK(b)'
    BY DEF CurrentOK
  <2>1. current.version[b] \in Nat /\ version[b] \in Nat /\ version'[b] \in Nat
    BY <1>1 DEF Types, Snapshot
  <2>2. CurrentOK(b)
    BY DEF IInv
  <2>3. current.version[b] <= version'[b]
    BY <2>1, <2>2 DEF CurrentOK, DiskMoves
  <2>4. ASSUME Whole(b)', aways = 0, NEW id \in Seen(b) \cap RangeOf(pointer'[b])
        PROVE  id \in current.owned[b]
    <3>1. Whole(b)
      <4>1. RangeOf(pointer[b]) \subseteq RangeOf(pointer'[b])
        BY <2>4 DEF DiskMoves
      <4>2. \A x \in RangeOf(pointer[b]) : release'[b][x] = "complete"
        BY <2>4, <4>1 DEF Whole
      <4>3. \A x \in RangeOf(pointer[b]) : x \in Ids /\ release[b][x] # "unused"
        BY <1>1, <1>4 DEF Used
      <4> QED BY <4>2, <4>3 DEF Whole, DiskMoves
    <3> QED BY <1>6, <2>2, <2>4, <3>1 DEF CurrentOK
  <2> QED BY <1>3, <2>3, <2>4 DEF CurrentOK
<1>8. ASSUME NEW s \in Requests PROVE ScanAt(scan[s])'
  <2>1. ScanAt(scan[s]) /\ scan[s] \in Scan
    BY <1>1 DEF IInv, Types
  <2>2. ASSUME NEW b \in Builds, StampOK(scan[s], b) PROVE StampOK(scan[s], b)'
    <3> DEFINE c == scan[s]
    <3>1. c.version[b] \in Nat /\ version[b] \in Nat /\ version'[b] \in Nat
      BY <1>1, <2>1 DEF Types, Scan
    <3>2. c.version[b] <= version'[b]
      BY <2>2, <3>1 DEF StampOK, DiskMoves
    <3>3. \A id \in RangeOf(c.stamp[b]) \cap Ids : release'[b][id] # "unused"
      BY <2>2 DEF StampOK, DiskMoves
    <3>4. ASSUME RangeOf(c.stamp[b]) \cap RangeOf(pointer'[b]) # {}
          PROVE  RangeOf(c.stamp[b]) \subseteq RangeOf(pointer'[b])
      <4>1. PICK id \in RangeOf(c.stamp[b]) : id \in RangeOf(pointer'[b])
        BY <3>4
      <4>2. id \in Ids /\ release[b][id] # "unused"
        BY <1>4, <2>2, <4>1 DEF StampOK
      <4>3. id \in RangeOf(pointer[b])
            /\ RangeOf(pointer[b]) \subseteq RangeOf(pointer'[b])
        BY <4>1, <4>2 DEF DiskMoves
      <4> QED BY <2>2, <4>1, <4>3 DEF StampOK
    <3>5. b \notin c.todo =>
            Seen(b) \cap RangeOf(pointer'[b]) \subseteq RangeOf(c.stamp[b])
      BY <1>6, <2>2 DEF StampOK
    <3> QED BY <1>3, <2>2, <3>2, <3>3, <3>4, <3>5 DEF StampOK
  <2> QED BY <2>1, <2>2 DEF ScanAt, Nothing
<1> QED BY <1>2, <1>5, <1>7, <1>8 DEF IInv


-----------------------------------------------------------------------------
(* The steps of the commands. *)

(* A build whose files a step leaves alone. *)
LEMMA DiskStays ==
  ASSUME IInv, NEW b \in Builds, pointer'[b] = pointer[b], release'[b] = release[b],
         version'[b] = version[b]
  PROVE  DiskMoves(b)
<1>1. version[b] \in Nat /\ Used(b)
  BY DEF IInv, Types
<1> QED BY <1>1 DEF DiskMoves, Used

(* Publications. *)
LEMMA PublishStep ==
  ASSUME IInv, NEW b \in Builds, NEW id \in Ids, Publish(b, id)
  PROVE  IInv'
<1>1. Types /\ Used(b)
  BY DEF IInv
<1>2. /\ pointer \in [Builds -> Seq(Ids)] /\ version \in [Builds -> Nat]
      /\ release \in [Builds -> [Ids -> {"unused", "complete", "torn", "gone"}]]
  BY <1>1 DEF Types
<1>3. /\ version' = [version EXCEPT ![b] = @ + 1]
      /\ current' = current /\ scan' = scan /\ held' = held /\ away' = away
      /\ aways' = aways /\ flat' = flat /\ release[b][id] = "unused"
  BY DEF Publish, Change, readVars, bounds
<1>4. /\ version' \in [Builds -> Nat] /\ version[b] <= version'[b]
      /\ \A x \in Builds \ {b} : version'[x] = version[x]
  BY <1>2, <1>3
<1>5. ASSUME NEW p \in Seq(Ids), NEW r \in [Ids -> {"unused", "complete", "torn", "gone"}],
             pointer' = [pointer EXCEPT ![b] = p], release' = [release EXCEPT ![b] = r],
             RangeOf(pointer[b]) \subseteq RangeOf(p),
             \A x \in RangeOf(p) \ RangeOf(pointer[b]) :
               release[b][x] = "unused" /\ r[x] = "complete",
             \A x \in Ids : release[b][x] # "unused" => r[x] = release[b][x]
      PROVE  IInv'
  <2>1. pointer'[b] = p /\ release'[b] = r
    BY <1>2, <1>5
  <2>2. Types'
    BY <1>1, <1>3, <1>4, <1>5 DEF Types
  <2>3. RangeOf(pointer[b]) \subseteq Ids /\ RangeOf(p) \subseteq Ids
    BY <1>2, Ranges
  <2>4. DiskMoves(b)
    BY <1>1, <1>4, <1>5, <2>1, <2>3 DEF DiskMoves, Used
  <2>5. \A x \in Builds : DiskMoves(x)
    BY <1>2, <1>4, <1>5, <2>4, DiskStays
  <2> QED BY <1>3, <2>2, <2>5, DiskStep
<1>6. CASE /\ pointer' = [pointer EXCEPT ![b] = <<id>> \o @]
           /\ release' = [release EXCEPT ![b][id] = "complete"]
  <2> DEFINE p == <<id>> \o pointer[b]
             r == [release[b] EXCEPT ![id] = "complete"]
  <2>1. pointer' = [pointer EXCEPT ![b] = p] /\ release' = [release EXCEPT ![b] = r]
    BY <1>2, <1>6
  <2>2. p \in Seq(Ids) /\ RangeOf(p) = RangeOf(pointer[b]) \cup {id}
    BY <1>2, Prepended
  <2>3. /\ r \in [Ids -> {"unused", "complete", "torn", "gone"}] /\ r[id] = "complete"
        /\ \A x \in Ids \ {id} : r[x] = release[b][x]
    BY <1>2
  <2> HIDE DEF p, r
  <2> QED BY <1>3, <1>5, <2>1, <2>2, <2>3
<1>7. ASSUME NEW old \in Ids \ {id}, pointer[b] = <<>>, release[b][old] = "unused",
             pointer' = [pointer EXCEPT ![b] = <<id, old>>],
             release' = [release EXCEPT ![b][id] = "complete", ![b][old] = "complete"]
      PROVE  IInv'
  <2> DEFINE p == <<id, old>>
             r == [release[b] EXCEPT ![id] = "complete", ![old] = "complete"]
  <2>1. pointer' = [pointer EXCEPT ![b] = p] /\ release' = [release EXCEPT ![b] = r]
    BY <1>2, <1>7
  <2>2. p \in Seq(Ids) /\ RangeOf(p) = {id, old} /\ RangeOf(pointer[b]) = {}
    BY <1>7, Ranges
  <2>3. /\ r \in [Ids -> {"unused", "complete", "torn", "gone"}]
        /\ r[id] = "complete" /\ r[old] = "complete"
        /\ \A x \in Ids \ {id, old} : r[x] = release[b][x]
    BY <1>2
  <2> HIDE DEF p, r
  <2>4. \A x \in RangeOf(p) \ RangeOf(pointer[b]) :
          release[b][x] = "unused" /\ r[x] = "complete"
    BY <1>3, <1>7, <2>2, <2>3
  <2>5. \A x \in Ids : release[b][x] # "unused" => r[x] = release[b][x]
    BY <1>3, <1>7, <2>3
  <2> QED BY <1>5, <2>1, <2>2, <2>3, <2>4, <2>5
<1> QED BY <1>6, <1>7 DEF Publish

(* The other commands: they reorder the history, remove it, or remove a    *)
(* release.                                                                *)
LEMMA CommandStep ==
  ASSUME IInv, NEW b \in Builds, CommandNext(b)
  PROVE  IInv'
<1>1. Types /\ Used(b)
  BY DEF IInv
<1>2. /\ pointer \in [Builds -> Seq(Ids)] /\ version \in [Builds -> Nat]
      /\ release \in [Builds -> [Ids -> {"unused", "complete", "torn", "gone"}]]
  BY <1>1 DEF Types
<1>3. ASSUME NEW id \in Ids, Rollback(b, id) PROVE IInv'
  <2>1. /\ pointer' = [pointer EXCEPT ![b] = MovedToFront(@, id)]
        /\ version' = [version EXCEPT ![b] = @ + 1] /\ release' = release
        /\ current' = current /\ scan' = scan /\ held' = held /\ away' = away
        /\ aways' = aways /\ flat' = flat
    BY <1>3 DEF Rollback, Change, readVars, bounds
  <2>2. id \in RangeOf(pointer[b])
    <3>1. pointer[b] \in Seq(Ids) /\ pointer[b] # <<>>
          /\ id \in RangeOf(Tail(pointer[b]))
      BY <1>2, <1>3 DEF Rollback
    <3>2. PICK i \in DOMAIN Tail(pointer[b]) : id = Tail(pointer[b])[i]
      BY <3>1 DEF RangeOf
    <3>3. i + 1 \in DOMAIN pointer[b] /\ pointer[b][i + 1] = id
      BY <3>1, <3>2
    <3> QED BY <3>3 DEF RangeOf
  <2> DEFINE p == MovedToFront(pointer[b], id)
  <2>3. p \in Seq(Ids) /\ RangeOf(p) = RangeOf(pointer[b])
    BY <1>2, <2>2, Reordered
  <2> HIDE DEF p
  <2>4. pointer' = [pointer EXCEPT ![b] = p]
    BY <1>2, <2>1 DEF p
  <2>5. Types'
    BY <1>1, <2>1, <2>3, <2>4 DEF Types
  <2>6. DiskMoves(b)
    BY <1>1, <1>2, <2>1, <2>3, <2>4 DEF DiskMoves, Used
  <2>7. \A x \in Builds : DiskMoves(x)
    BY <1>2, <2>1, <2>4, <2>6, DiskStays
  <2> QED BY <2>1, <2>5, <2>7, DiskStep
<1>4. ASSUME NEW id \in Ids, RemoveRelease(b, id) PROVE IInv'
  <2>1. /\ pointer' = pointer /\ version' = version
        /\ current' = current /\ scan' = scan /\ held' = held /\ away' = away
        /\ aways' = aways /\ flat' = flat
    BY <1>4 DEF RemoveRelease, readVars, bounds
  <2>2. PICK new \in {"torn", "gone"} :
          release' = [release EXCEPT ![b][id] = new] /\ release[b][id] # "unused"
    BY <1>4 DEF RemoveRelease
  <2> DEFINE r == [release[b] EXCEPT ![id] = new]
  <2>3. /\ r \in [Ids -> {"unused", "complete", "torn", "gone"}] /\ r[id] = new
        /\ \A x \in Ids \ {id} : r[x] = release[b][x]
        /\ release' = [release EXCEPT ![b] = r]
    BY <1>2, <2>2
  <2> HIDE DEF r
  <2>4. Types' /\ release'[b] = r
    BY <1>1, <2>1, <2>3 DEF Types
  <2>5. RangeOf(pointer[b]) \subseteq Ids
    BY <1>2, Ranges
  <2>6. DiskMoves(b)
    BY <1>1, <1>2, <2>1, <2>2, <2>3, <2>4, <2>5 DEF DiskMoves, Used
  <2>7. \A x \in Builds : DiskMoves(x)
    BY <1>2, <2>1, <2>3, <2>6, DiskStays
  <2> QED BY <2>1, <2>4, <2>7, DiskStep
<1>5. ASSUME RemovePointer(b) PROVE IInv'
  <2>1. /\ pointer' = [pointer EXCEPT ![b] = <<>>]
        /\ version' = [version EXCEPT ![b] = @ + 1] /\ release' = release
        /\ current' = current /\ scan' = scan /\ held' = held /\ away' = away
        /\ aways' = aways /\ flat' = flat
    BY <1>5 DEF RemovePointer, Change, readVars, bounds
  <2>2. RangeOf(pointer'[b]) = {}
    BY <1>2, <2>1, Ranges
  <2>3. Types'
    BY <1>1, <2>1 DEF Types
  <2>4. DiskMoves(b)
    BY <1>1, <1>2, <2>1, <2>2 DEF DiskMoves
  <2>5. \A x \in Builds : DiskMoves(x)
    BY <1>2, <2>1, <2>4, DiskStays
  <2> QED BY <2>1, <2>3, <2>5, DiskStep
<1>6. ASSUME Refresh(b) \/ DeleteStart(b) \/ FlatRemoved(b) \/ Fail(b) PROVE IInv'
  <2>1. /\ pointer' = pointer /\ release' = release
        /\ current' = current /\ scan' = scan /\ held' = held /\ away' = away
        /\ aways' = aways /\ flat' \subseteq flat
        /\ version' = version \/ version' = [version EXCEPT ![b] = @ + 1]
    BY <1>6 DEF Refresh, DeleteStart, FlatRemoved, Fail, Change, diskVars, readVars,
                bounds
  <2>2. Types' /\ version[b] <= version'[b]
    <3>1. version' \in [Builds -> Nat] /\ version[b] <= version'[b]
      <4>1. CASE version' = version
        BY <1>2, <4>1
      <4>2. CASE version' = [version EXCEPT ![b] = @ + 1]
        BY <1>2, <4>2
      <4> QED BY <2>1, <4>1, <4>2
    <3> QED BY <1>1, <2>1, <3>1 DEF Types
  <2>3. DiskMoves(b)
    BY <1>1, <2>1, <2>2 DEF DiskMoves, Used
  <2>4. \A x \in Builds : DiskMoves(x)
    BY <1>2, <2>1, <2>3, DiskStays
  <2> QED BY <2>1, <2>2, <2>4, DiskStep
<1> QED BY <1>3, <1>4, <1>5, <1>6, PublishStep DEF CommandNext


-----------------------------------------------------------------------------
(* The steps of snapshot(). *)

(* The values a call starts from. *)
LEMMA Starts ==
  /\ Nothing \in Stamp /\ Empty \in Snapshot /\ Idle \in Scan /\ ScanAt(Idle)
  /\ Idle.at = "idle" /\ Idle.stamp = Nothing /\ Idle.answer = Empty
  /\ \A b \in Builds : Nothing[b] = <<>> /\ Empty.shown[b] = None
<1>1. Nothing \in Stamp
  BY DEF Nothing, Stamp
<1>2. Empty \in Snapshot
  BY <1>1 DEF Empty, Snapshot
<1>3. Idle \in Scan
  BY <1>1, <1>2 DEF Idle, Scan
<1>4. ScanAt(Idle)
  BY DEF ScanAt, Idle
<1> QED BY <1>1, <1>2, <1>3, <1>4 DEF Idle, Empty, Nothing

(***************************************************************************)
(* A call that goes on with the snapshot as it is: the lock is its own if  *)
(* it scans, what it answers was seen, and it is in order.                 *)
(***************************************************************************)
LEMMA ScanStep ==
  ASSUME IInv, NEW s \in Requests, NEW c \in Scan, scan' = [scan EXCEPT ![s] = c],
         ScanAt(c),
         c.at \in Scanning => scan[s].at \in Scanning \/ RescanFree(s),
         \A b \in Builds : c.answer.shown[b] \in Ids => c.answer.shown[b] \in Seen(b),
         UNCHANGED <<commandVars, away, current, held, bounds>>
  PROVE  IInv'
<1>1. Types /\ Mutex
  BY DEF IInv
<1>2. /\ pointer' = pointer /\ release' = release /\ version' = version
      /\ current' = current /\ held' = held /\ away' = away /\ aways' = aways
      /\ flat' = flat
  BY DEF commandVars, diskVars, bounds
<1>3. scan'[s] = c /\ \A t \in Requests \ {s} : scan'[t] = scan[t]
  BY <1>1 DEF Types
<1>4. Types'
  BY <1>1, <1>2 DEF Types
<1>5. Mutex'
  BY <1>1, <1>3 DEF Mutex, RescanFree, Scanning
<1>6. \A b \in Builds : Seen(b)' \subseteq Seen(b)
  <2> SUFFICES ASSUME NEW b \in Builds, NEW id \in Seen(b)' PROVE id \in Seen(b)
    OBVIOUS
  <2>1. id \in Ids
    BY DEF Seen
  <2>2. CASE \E t \in Requests : scan'[t].answer.shown[b] = id
    BY <1>3, <2>1, <2>2 DEF Seen
  <2>3. CASE id \in held[b] \/ (current # None /\ current.shown[b] = id)
    BY <2>1, <2>3 DEF Seen
  <2> QED BY <1>2, <2>2, <2>3 DEF Seen
<1>7. \A t \in Requests : ScanAt(scan'[t])
  BY <1>3 DEF IInv
<1> QED BY <1>2, <1>4, <1>5, <1>6, <1>7, QuietStep

(* A call that returns a snapshot that was shown before. *)
LEMMA ReturnStep ==
  ASSUME IInv, NEW s \in Requests, NEW snap \in Snapshot, Return(s, snap),
         snap = Empty \/ (current # None /\ snap = current),
         UNCHANGED <<commandVars, away, current, held, bounds>>
  PROVE  IInv'
<1> DEFINE c == [Idle EXCEPT !.at = "answer", !.answer = snap]
<1>1. /\ c \in Scan /\ c.at = "answer" /\ c.answer = snap
      /\ scan' = [scan EXCEPT ![s] = c]
  BY Starts DEF Scan, Return, Goto
<1> HIDE DEF c
<1>2. ScanAt(c) /\ c.at \notin Scanning
  BY <1>1 DEF ScanAt, Scanning
<1>3. \A b \in Builds : c.answer.shown[b] \in Ids => c.answer.shown[b] \in Seen(b)
  BY <1>1, Starts, Sentinels DEF Seen
<1> QED BY <1>1, <1>2, <1>3, ScanStep

(* What a call that scans has seen is what it had seen. *)
LEMMA SameAnswer ==
  ASSUME NEW s \in Requests, NEW c, c.answer = scan[s].answer
  PROVE  \A b \in Builds : c.answer.shown[b] \in Ids => c.answer.shown[b] \in Seen(b)
BY DEF Seen

(* Enter and Lock. *)
LEMMA EnterStep ==
  ASSUME IInv, NEW s \in Requests, Enter(s) \/ Lock(s)
  PROVE  IInv'
<1>1. Types /\ ScanAt(scan[s]) /\ scan[s] \in Scan
  BY DEF IInv, Types
<1>2. UNCHANGED <<commandVars, away, current, held, bounds>>
  BY DEF Enter, Lock
<1>3. CASE Ready
  <2>1. Return(s, current)
    BY <1>3 DEF Enter, Lock
  <2>2. current # None /\ current \in Snapshot
    BY <1>1, <1>3 DEF Ready, Types
  <2> QED BY <1>2, <2>1, <2>2, ReturnStep
<1>4. CASE ~Ready /\ Enter(s)
  <2> DEFINE c == [Idle EXCEPT !.at = "lock"]
  <2>1. c \in Scan /\ c.at = "lock" /\ c.stamp = Nothing /\ c.answer = Empty
    BY Starts DEF Scan
  <2>2. scan' = [scan EXCEPT ![s] = c]
    BY <1>4 DEF Enter, Goto
  <2> HIDE DEF c
  <2>3. ScanAt(c) /\ c.at \notin Scanning
    BY <2>1 DEF ScanAt, Scanning
  <2>4. \A b \in Builds : c.answer.shown[b] \notin Ids
    BY <2>1, Starts, Sentinels
  <2> QED BY <1>2, <2>1, <2>2, <2>3, <2>4, ScanStep
<1>5. CASE ~Ready /\ Lock(s)
  <2> DEFINE c == [scan[s] EXCEPT !.at = "list"]
  <2>1. c \in Scan /\ c.at = "list" /\ c.stamp = scan[s].stamp /\ c.answer = scan[s].answer
    BY <1>1 DEF Scan, Scanning
  <2>2. scan' = [scan EXCEPT ![s] = c] /\ scan[s].at = "lock" /\ RescanFree(s)
    BY <1>5 DEF Lock, Goto
  <2> HIDE DEF c
  <2>3. ScanAt(c)
    BY <1>1, <2>1, <2>2 DEF ScanAt
  <2> QED BY <1>2, <2>1, <2>2, <2>3, SameAnswer, ScanStep
<1> QED BY <1>3, <1>4, <1>5

(* The folder is listed: a build that is not in it has no pointer. *)
LEMMA ListStep ==
  ASSUME IInv, NEW s \in Requests, ListFolder(s)
  PROVE  IInv'
<1>1. Types /\ ScanAt(scan[s]) /\ scan[s] \in Scan
  BY DEF IInv, Types
<1>2. UNCHANGED <<commandVars, away, current, held, bounds>> /\ scan[s].at = "list"
  BY DEF ListFolder
<1>3. PICK found \in SUBSET Builds :
        /\ {b \in Builds : pointer[b] # <<>>} \subseteq found
        /\ Goto(s, [scan[s] EXCEPT !.at = "index", !.todo = found,
                                   !.listed = flat, !.version = version])
  BY DEF ListFolder
<1> DEFINE c == [scan[s] EXCEPT !.at = "index", !.todo = found,
                                !.listed = flat, !.version = version]
<1>4. flat \in SUBSET Builds /\ version \in [Builds -> Nat]
  BY <1>1 DEF IInv, Types
<1>5. /\ c \in Scan /\ c.at = "index" /\ c.stamp = Nothing /\ c.todo = found
      /\ c.version = version /\ c.answer = scan[s].answer
  BY <1>1, <1>2, <1>4 DEF Scan, Scanning, ScanAt
<1>6. scan' = [scan EXCEPT ![s] = c]
  BY <1>3 DEF Goto
<1> HIDE DEF c
<1>7. ASSUME NEW b \in Builds PROVE StampOK(c, b)
  <2>1. RangeOf(c.stamp[b]) = {}
    BY <1>5, Starts, Ranges
  <2>2. b \notin found => RangeOf(pointer[b]) = {}
    BY <1>3, Ranges
  <2>3. current # None => current.version[b] <= version[b]
    BY DEF IInv, CurrentOK
  <2>4. version[b] <= version[b]
    BY <1>4
  <2> QED BY <1>5, <2>1, <2>2, <2>3, <2>4 DEF StampOK
<1>8. ScanAt(c)
  BY <1>5, <1>7 DEF ScanAt
<1> QED BY <1>2, <1>5, <1>6, <1>8, SameAnswer, ScanStep DEF Scanning


(* A pointer is read. *)
LEMMA ReadStep ==
  ASSUME IInv, NEW s \in Requests, NEW b \in Builds, ReadPointer(s, b)
  PROVE  IInv'
<1>1. Types /\ ScanAt(scan[s]) /\ scan[s] \in Scan /\ Used(b)
  BY DEF IInv, Types
<1>2. /\ UNCHANGED <<commandVars, away, current, held, bounds>>
      /\ scan[s].at = "index"
  BY DEF ReadPointer
<1> DEFINE at == IF pointer[b] = <<>> THEN "index" ELSE "verify"
           build == IF pointer[b] = <<>> THEN None ELSE b
           c == [scan[s] EXCEPT !.todo = @ \ {b}, !.version[b] = version[b],
                                !.at = at, !.build = build, !.stamp[b] = pointer[b]]
<1>3. scan' = [scan EXCEPT ![s] = c]
  BY DEF ReadPointer, Goto
<1>4. at \in {"index", "verify"} /\ build \in Builds \cup {None}
  OBVIOUS
<1>5. /\ version[b] \in Nat /\ pointer[b] \in Seq(Ids)
      /\ pointer[b] \in Seq(Contents \cup {None})
  BY <1>1 DEF Types, Contents
<1>6. /\ scan[s].version \in [Builds -> Nat] /\ scan[s].stamp \in Stamp
      /\ scan[s].todo \in SUBSET Builds
  BY <1>1 DEF Scan
<1> HIDE DEF at, build
<1>7. /\ [scan[s].version EXCEPT ![b] = version[b]] \in [Builds -> Nat]
      /\ [scan[s].stamp EXCEPT ![b] = pointer[b]] \in Stamp
  BY <1>5, <1>6 DEF Stamp
<1>8. /\ c \in Scan /\ c.at = at /\ c.answer = scan[s].answer
      /\ c.todo = scan[s].todo \ {b}
      /\ c.version = [scan[s].version EXCEPT ![b] = version[b]]
      /\ c.stamp = [scan[s].stamp EXCEPT ![b] = pointer[b]]
  BY <1>1, <1>4, <1>6, <1>7 DEF Scan, Scanning
<1> HIDE DEF c
<1>9. ASSUME NEW x \in Builds PROVE StampOK(c, x)
  <2>1. StampOK(scan[s], x)
    BY <1>1, <1>2 DEF ScanAt
  <2>2. CASE x # b
    BY <1>6, <1>8, <2>1, <2>2 DEF StampOK, Stamp
  <2>3. CASE x = b
    <3>1. c.stamp[b] = pointer[b] /\ c.version[b] = version[b]
      BY <1>6, <1>8 DEF Stamp
    <3>2. current # None => current.version[b] <= version[b]
      BY DEF IInv, CurrentOK
    <3>3. version[b] <= version[b]
      BY <1>5
    <3> QED BY <1>1, <2>3, <3>1, <3>2, <3>3 DEF StampOK, Used
  <2> QED BY <2>2, <2>3
<1>10. ScanAt(c)
  BY <1>4, <1>8, <1>9 DEF ScanAt
<1>11. c.at \in Scanning /\ scan[s].at \in Scanning
  BY <1>2, <1>4, <1>8 DEF Scanning
<1> QED BY <1>2, <1>3, <1>8, <1>10, <1>11, SameAnswer, ScanStep

(* The releases of a build are verified. *)
LEMMA VerifyStep ==
  ASSUME IInv, NEW s \in Requests, VerifyReleases(s)
  PROVE  IInv'
<1>1. Types /\ ScanAt(scan[s]) /\ scan[s] \in Scan
  BY DEF IInv, Types
<1>2. UNCHANGED <<commandVars, away, current, held, bounds>> /\ scan[s].at = "verify"
  BY DEF VerifyReleases
<1> DEFINE c == [scan[s] EXCEPT !.at = "index", !.build = None]
<1>3. scan' = [scan EXCEPT ![s] = c]
  BY DEF VerifyReleases, Goto
<1>4. /\ c \in Scan /\ c.at = "index" /\ c.answer = scan[s].answer
      /\ c.todo = scan[s].todo /\ c.version = scan[s].version /\ c.stamp = scan[s].stamp
  BY <1>1 DEF Scan, Scanning
<1> HIDE DEF c
<1>5. ASSUME NEW b \in Builds PROVE StampOK(c, b)
  <2>1. StampOK(scan[s], b)
    BY <1>1, <1>2 DEF ScanAt
  <2> QED BY <1>4, <2>1 DEF StampOK
<1>6. ScanAt(c) /\ c.at \in Scanning /\ scan[s].at \in Scanning
  BY <1>2, <1>4, <1>5 DEF ScanAt, Scanning
<1> QED BY <1>2, <1>3, <1>4, <1>6, SameAnswer, ScanStep

(* index() fails, and the snapshot stays. *)
LEMMA FailedStep ==
  ASSUME IInv, NEW s \in Requests, IndexFailed(s)
  PROVE  IInv'
<1>1. UNCHANGED <<commandVars, away, current, held, bounds>>
  BY DEF IndexFailed
<1>2. CASE current = None
  BY <1>1, <1>2, ReturnStep, Starts DEF IndexFailed
<1>3. CASE current # None
  <2>1. current \in Snapshot
    BY <1>3 DEF IInv, Types
  <2> QED BY <1>1, <1>3, <2>1, ReturnStep DEF IndexFailed
<1> QED BY <1>2, <1>3

(* The stamp with the flat manifests: it names the same releases. *)
LEMMA IndexedStep ==
  ASSUME IInv, NEW s \in Requests, IndexDone(s)
  PROVE  IInv'
<1>1. Types /\ ScanAt(scan[s]) /\ scan[s] \in Scan
  BY DEF IInv, Types
<1>2. /\ UNCHANGED <<commandVars, away, current, held, bounds>>
      /\ scan[s].at = "index" /\ scan[s].todo = {}
  BY DEF IndexDone
<1>3. CASE current # None /\ SameStamp(current.stamp, FullStamp(s))
  <2>1. Return(s, current) /\ current \in Snapshot
    BY <1>1, <1>3 DEF IndexDone, Types
  <2> QED BY <1>2, <1>3, <2>1, ReturnStep
<1>4. CASE ~(current # None /\ SameStamp(current.stamp, FullStamp(s)))
  <2> DEFINE full == FullStamp(s)
             c == [scan[s] EXCEPT !.at = "collect", !.stamp = full]
  <2>1. scan' = [scan EXCEPT ![s] = c]
    BY <1>4 DEF IndexDone, Goto
  <2>2. ASSUME NEW b \in Builds
        PROVE  /\ full[b] \in Seq(Contents \cup {None})
               /\ \/ full[b] = scan[s].stamp[b]
                  \/ /\ scan[s].stamp[b] = <<>>
                     /\ full[b] = <<Flat>> \/ full[b] = <<None>>
    <3>1. scan[s].stamp[b] \in Seq(Contents \cup {None})
      BY <1>1 DEF Scan, Stamp
    <3>2. <<Flat>> \in Seq(Contents \cup {None}) /\ <<None>> \in Seq(Contents \cup {None})
      BY DEF Contents
    <3> QED BY <3>1, <3>2 DEF FullStamp
  <2>3. full \in Stamp
    <3>1. full = [b \in Builds |-> full[b]]
      BY DEF FullStamp
    <3> QED BY <2>2, <3>1 DEF Stamp
  <2> HIDE DEF full
  <2>4. /\ c \in Scan /\ c.at = "collect" /\ c.answer = scan[s].answer
        /\ c.todo = {} /\ c.version = scan[s].version /\ c.stamp = full
    BY <1>1, <1>2, <2>3 DEF Scan, Scanning
  <2> HIDE DEF c
  <2>5. ASSUME NEW b \in Builds PROVE StampOK(c, b)
    <3>1. StampOK(scan[s], b)
      BY <1>1, <1>2 DEF ScanAt
    <3>2. CASE full[b] = scan[s].stamp[b]
      BY <1>2, <2>4, <3>1, <3>2 DEF StampOK
    <3>3. CASE scan[s].stamp[b] = <<>> /\ (full[b] = <<Flat>> \/ full[b] = <<None>>)
      <4>1. RangeOf(scan[s].stamp[b]) = {} /\ RangeOf(pointer[b]) \subseteq Ids
        BY <1>1, <3>3, Ranges DEF Types
      <4>2. RangeOf(full[b]) \cap Ids = {}
        <5>1. \A x \in {Flat, None} : RangeOf(<<x>>) = {x}
          BY Ranges
        <5>2. RangeOf(full[b]) = {Flat} \/ RangeOf(full[b]) = {None}
          BY <3>3, <5>1
        <5> QED BY <5>2, Sentinels
      <4> QED BY <1>2, <2>4, <3>1, <4>1, <4>2 DEF StampOK
    <3> QED BY <2>2, <3>2, <3>3
  <2>6. ScanAt(c) /\ c.at \in Scanning /\ scan[s].at \in Scanning
    BY <1>2, <2>4, <2>5 DEF ScanAt, Scanning
  <2> QED BY <1>2, <2>1, <2>4, <2>6, SameAnswer, ScanStep
<1> QED BY <1>3, <1>4

(***************************************************************************)
(* collect, for a build whose publication is whole and shares a release    *)
(* with what the scan has read: it shows the build and owns them all.      *)
(***************************************************************************)
LEMMA Collected ==
  ASSUME IInv, NEW s \in Requests, scan[s].at = "collect", NEW torn \in BOOLEAN,
         NEW b \in Builds, Whole(b), aways = 0,
         RangeOf(scan[s].stamp[b]) \cap RangeOf(pointer[b]) # {}
  PROVE  /\ collect(s, torn).shown[b] # None
         /\ RangeOf(scan[s].stamp[b]) \subseteq collect(s, torn).owned[b]
<1> DEFINE stamp == scan[s].stamp
<1>1. Types /\ scan[s] \in Scan /\ StampOK(scan[s], b)
  BY DEF IInv, Types, ScanAt
<1>2. RangeOf(stamp[b]) \subseteq RangeOf(pointer[b]) /\ ~away
  BY <1>1 DEF StampOK, Types
<1>3. RangeOf(pointer[b]) \subseteq Ids
  BY <1>1, Ranges DEF Types
<1>4. stamp[b] \in Seq(Contents \cup {None})
  BY <1>1 DEF Scan, Stamp
<1>5. stamp[b] # <<>>
  BY Ranges
<1>6. Head(stamp[b]) \in RangeOf(stamp[b])
  BY <1>4, <1>5, Ranges
<1>7. \A id \in RangeOf(stamp[b]) : Readable(b, id, torn)
  <2> SUFFICES ASSUME NEW id \in RangeOf(stamp[b]) PROVE Readable(b, id, torn)
    OBVIOUS
  <2>1. id \in Ids /\ release[b][id] = "complete" /\ id # Flat /\ id # None
    BY <1>2, <1>3, Sentinels DEF Whole
  <2> QED BY <1>2, <2>1 DEF Readable
<1>8. collect(s, torn).shown[b] = Head(stamp[b])
  BY <1>5, <1>6, <1>7 DEF collect
<1>9. collect(s, torn).owned[b] = {c \in RangeOf(stamp[b]) : Readable(b, c, torn)}
  BY <1>5, <1>6, <1>7 DEF collect, Owned
<1> QED BY <1>2, <1>3, <1>6, <1>7, <1>8, <1>9, Sentinels

(* What collect makes of a build at all. *)
LEMMA CollectTypes ==
  ASSUME IInv, NEW s \in Requests, scan[s].at = "collect", NEW torn \in BOOLEAN
  PROVE  /\ collect(s, torn) \in Snapshot
         /\ collect(s, torn).version = scan[s].version
         /\ \A b \in Builds : collect(s, torn).shown[b] \in Ids =>
              collect(s, torn).shown[b] \in RangeOf(scan[s].stamp[b])
<1> DEFINE stamp == scan[s].stamp
           new == collect(s, torn)
<1>1. scan[s] \in Scan /\ stamp \in Stamp
  BY DEF IInv, Types, Scan
<1>2. ASSUME NEW b \in Builds
      PROVE  /\ stamp[b] # <<>> => /\ Head(stamp[b]) \in Contents \cup {None}
                                   /\ Head(stamp[b]) \in RangeOf(stamp[b])
             /\ RangeOf(stamp[b]) \subseteq Contents \cup {None}
  <2>1. stamp[b] \in Seq(Contents \cup {None})
    BY <1>1 DEF Stamp
  <2>2. stamp[b] # <<>> => Head(stamp[b]) \in RangeOf(stamp[b])
    BY <2>1, Ranges
  <2>3. RangeOf(stamp[b]) \subseteq Contents \cup {None}
    BY <2>1, Ranges
  <2> QED BY <2>2, <2>3
<1>3. /\ new.stamp = stamp /\ new.version = scan[s].version
      /\ new.owned = Owned(stamp, torn)
      /\ new.shown = [b \in Builds |->
                        IF stamp[b] # <<>> /\ Readable(b, Head(stamp[b]), torn)
                        THEN Head(stamp[b]) ELSE None]
      /\ new = [stamp |-> new.stamp, shown |-> new.shown, owned |-> new.owned,
                version |-> new.version]
  BY DEF collect
<1>4. new.owned \in [Builds -> SUBSET (Contents \cup {None})]
  <2>1. \A b \in Builds : Owned(stamp, torn)[b] \subseteq Contents \cup {None}
    BY <1>2 DEF Owned
  <2>2. Owned(stamp, torn) = [b \in Builds |-> Owned(stamp, torn)[b]]
    BY DEF Owned
  <2> QED BY <1>3, <2>1, <2>2
<1>5. ASSUME NEW b \in Builds
      PROVE  /\ new.shown[b] \in Contents \cup {None}
             /\ new.shown[b] \in Ids => new.shown[b] \in RangeOf(stamp[b])
  BY <1>2, <1>3, Sentinels
<1>6. new.shown \in [Builds -> Contents \cup {None}]
  BY <1>3, <1>5
<1>7. new.version \in [Builds -> Nat]
  BY <1>1, <1>3 DEF Scan
<1> HIDE DEF new
<1>8. new \in Snapshot
  BY <1>1, <1>3, <1>4, <1>6, <1>7 DEF Snapshot
<1> QED BY <1>3, <1>5, <1>8 DEF new

(* A new snapshot. *)
LEMMA CollectStep ==
  ASSUME IInv, NEW s \in Requests, Collect(s)
  PROVE  IInv'
<1>1. Types /\ Mutex /\ ScanAt(scan[s]) /\ scan[s] \in Scan
  BY DEF IInv, Types
<1>2. /\ pointer' = pointer /\ release' = release /\ version' = version
      /\ held' = held /\ away' = away /\ aways' = aways /\ flat' = flat
      /\ scan[s].at = "collect"
  BY DEF Collect, commandVars, diskVars, bounds
<1>3. PICK torn \in BOOLEAN : current' = collect(s, torn) /\ Return(s, collect(s, torn))
  BY DEF Collect
<1> DEFINE new == collect(s, torn)
           c == [Idle EXCEPT !.at = "answer", !.answer = new]
           stamp == scan[s].stamp
<1>4. /\ new \in Snapshot /\ new.version = scan[s].version
      /\ \A b \in Builds : new.shown[b] \in Ids => new.shown[b] \in RangeOf(stamp[b])
  BY <1>2, CollectTypes
<1>5. /\ \A b \in Builds : StampOK(scan[s], b)
      /\ scan[s].todo = {}
  BY <1>1, <1>2 DEF ScanAt
<1>6. ASSUME NEW b \in Builds, Whole(b), aways = 0,
             RangeOf(stamp[b]) \cap RangeOf(pointer[b]) # {}
      PROVE  RangeOf(stamp[b]) \subseteq new.owned[b]
  BY <1>2, <1>6, Collected
<1> HIDE DEF new
<1>7. c \in Scan /\ c.at = "answer" /\ c.answer = new
  BY <1>4, Starts DEF Scan
<1>8. scan' = [scan EXCEPT ![s] = c] /\ current' = new
  BY <1>3 DEF Return, Goto, new
<1> HIDE DEF c
<1>9. scan'[s] = c /\ \A t \in Requests \ {s} : scan'[t] = scan[t]
  BY <1>1, <1>8 DEF Types
<1>10. Types'
  BY <1>1, <1>2, <1>4, <1>7, <1>8 DEF Types
<1>11. Mutex'
  BY <1>1, <1>7, <1>9 DEF Mutex, Scanning
<1>12. ASSUME NEW b \in Builds, NEW id \in Seen(b)'
       PROVE  id \in Ids /\ (id \in Seen(b) \/ id \in RangeOf(stamp[b]))
  <2>1. id \in Ids
    BY <1>12 DEF Seen
  <2>2. \/ id \in held[b]
        \/ new.shown[b] = id
        \/ \E t \in Requests : scan'[t].answer.shown[b] = id
    BY <1>2, <1>8, <1>12 DEF Seen
  <2>3. CASE new.shown[b] = id
    BY <1>4, <2>1, <2>3
  <2>4. CASE \E t \in Requests : scan'[t].answer.shown[b] = id
    <3>1. PICK t \in Requests : scan'[t].answer.shown[b] = id
      BY <2>4
    <3>2. CASE t = s
      BY <1>7, <1>9, <2>1, <2>3, <3>1, <3>2
    <3>3. CASE t # s
      BY <1>9, <2>1, <3>1, <3>3 DEF Seen
    <3> QED BY <3>2, <3>3
  <2>5. CASE id \in held[b]
    BY <2>1, <2>5 DEF Seen
  <2> QED BY <2>1, <2>2, <2>3, <2>4, <2>5
<1>13. ASSUME NEW b \in Builds PROVE Used(b)'
  <2>1. Used(b) /\ StampOK(scan[s], b)
    BY <1>5 DEF IInv
  <2> QED BY <1>2, <1>12, <2>1 DEF Used, StampOK
<1>14. ASSUME NEW b \in Builds PROVE CurrentOK(b)'
  <2>1. StampOK(scan[s], b)
    BY <1>5
  <2>2. ASSUME Whole(b), aways = 0, NEW id \in Seen(b)', id \in RangeOf(pointer[b])
        PROVE  id \in new.owned[b]
    <3>1. id \in RangeOf(stamp[b])
      BY <1>5, <1>12, <2>1, <2>2 DEF StampOK
    <3> QED BY <1>6, <2>2, <3>1
  <2>3. Whole(b)' = Whole(b)
    BY <1>2 DEF Whole
  <2> QED BY <1>2, <1>4, <1>8, <2>1, <2>2, <2>3 DEF CurrentOK, StampOK
<1>15. ASSUME NEW t \in Requests PROVE ScanAt(scan[t])'
  <2>1. CASE t = s
    BY <1>7, <1>9, <2>1 DEF ScanAt
  <2>2. CASE t # s
    <3>1. scan[t].at \notin Scanning /\ ScanAt(scan[t]) /\ scan'[t] = scan[t]
      BY <1>1, <1>2, <1>9, <2>2 DEF Mutex, Scanning, IInv
    <3> QED BY <3>1 DEF ScanAt, Scanning, Nothing
  <2> QED BY <2>1, <2>2
<1> QED BY <1>10, <1>11, <1>13, <1>14, <1>15 DEF IInv


(* A launcher fetches what the call answers. *)
LEMMA FetchStep ==
  ASSUME IInv, NEW s \in Requests, NEW b \in Builds, GetManifest(s, b)
  PROVE  IInv'
<1>1. Types /\ Mutex
  BY DEF IInv
<1> DEFINE m == scan[s].answer.shown[b]
<1>2. /\ pointer' = pointer /\ release' = release /\ version' = version
      /\ current' = current /\ away' = away /\ aways' = aways /\ flat' = flat
      /\ scan' = [scan EXCEPT ![s] = Idle]
      /\ held' = IF m = None THEN held ELSE [held EXCEPT ![b] = @ \cup {m}]
  BY DEF GetManifest, Goto, commandVars, diskVars, bounds
<1>3. scan'[s] = Idle /\ \A t \in Requests \ {s} : scan'[t] = scan[t]
  BY <1>1, <1>2 DEF Types
<1>4. m \in Contents \cup {None}
  BY <1>1 DEF Types, Scan, Snapshot
<1>5. /\ held' \in [Builds -> SUBSET Contents]
      /\ \A x \in Builds : \A id \in held'[x] : id \in held[x] \/ (x = b /\ id = m)
  <2>1. held \in [Builds -> SUBSET Contents]
    BY <1>1 DEF Types
  <2>2. CASE m = None
    BY <1>2, <2>1, <2>2
  <2>3. CASE m # None
    BY <1>2, <1>4, <2>1, <2>3
  <2> QED BY <2>2, <2>3
<1>6. Types'
  BY <1>1, <1>2, <1>5, Starts DEF Types
<1>7. Mutex'
  BY <1>1, <1>3, Starts DEF Mutex, Scanning
<1>8. ASSUME NEW x \in Builds, NEW id \in Seen(x)' PROVE id \in Seen(x)
  <2>1. /\ id \in Ids
        /\ \/ id \in held'[x]
           \/ current # None /\ current.shown[x] = id
           \/ \E t \in Requests : scan'[t].answer.shown[x] = id
    BY <1>2, <1>8 DEF Seen
  <2>2. CASE \E t \in Requests : scan'[t].answer.shown[x] = id
    <3>1. PICK t \in Requests : scan'[t].answer.shown[x] = id
      BY <2>2
    <3>2. t # s
      BY <1>3, <2>1, <3>1, Starts, Sentinels
    <3> QED BY <1>3, <2>1, <3>1, <3>2 DEF Seen
  <2>3. CASE id \in held'[x]
    BY <1>5, <2>1, <2>3 DEF Seen
  <2> QED BY <2>1, <2>2, <2>3 DEF Seen
<1>9. \A t \in Requests : ScanAt(scan'[t])
  BY <1>3, Starts DEF IInv
<1> QED BY <1>2, <1>6, <1>7, <1>8, <1>9, QuietStep

(* Time, the folder and the process. *)
LEMMA OtherStep ==
  ASSUME IInv, TimePasses \/ GoAway \/ ComeBack \/ Crash \/ UNCHANGED vars
  PROVE  IInv'
<1>1. Types /\ Mutex
  BY DEF IInv
<1>2. /\ pointer' = pointer /\ release' = release /\ version' = version
      /\ held' = held /\ flat' = flat
  BY DEF TimePasses, GoAway, ComeBack, Crash, commandVars, diskVars, vars
<1>3. aways' \in Nat /\ (away' => aways' # 0) /\ (aways' = 0 => aways = 0)
  <2>1. aways \in Nat /\ (away => aways # 0)
    BY <1>1 DEF Types
  <2>2. CASE GoAway
    BY <2>1, <2>2 DEF GoAway
  <2>3. CASE TimePasses \/ ComeBack \/ Crash \/ UNCHANGED vars
    <3>1. aways' = aways /\ (away' => away)
      BY <2>3 DEF TimePasses, ComeBack, Crash, bounds, vars
    <3> QED BY <2>1, <3>1
  <2> QED BY <2>2, <2>3
<1>4. \/ current' = current /\ scan' = scan
      \/ current' = None /\ scan' = [s \in Requests |-> Idle]
  BY DEF TimePasses, GoAway, ComeBack, Crash, vars
<1>5. CASE current' = current /\ scan' = scan
  <2>1. Types' /\ Mutex'
    BY <1>1, <1>2, <1>3, <1>5 DEF Types, Mutex
  <2>2. \A b \in Builds : Seen(b)' \subseteq Seen(b)
    BY <1>2, <1>5 DEF Seen
  <2> QED BY <1>2, <1>3, <1>5, <2>1, <2>2, QuietStep DEF IInv
<1>6. CASE current' = None /\ scan' = [s \in Requests |-> Idle]
  <2>1. \A s \in Requests : scan'[s] = Idle
    BY <1>6
  <2>2. Types'
    BY <1>1, <1>2, <1>3, <1>6, Starts DEF Types
  <2>3. Mutex'
    BY <2>1, Starts DEF Mutex, Scanning
  <2>4. \A b \in Builds : Seen(b)' \subseteq Seen(b)
    BY <1>2, <1>6, <2>1, Starts, Sentinels DEF Seen
  <2>5. \A s \in Requests : ScanAt(scan'[s])
    BY <2>1, Starts
  <2> QED BY <1>2, <1>3, <1>6, <2>2, <2>3, <2>4, <2>5, QuietStep
<1> QED BY <1>4, <1>5, <1>6

-----------------------------------------------------------------------------
(* The invariant holds initially. *)
LEMMA InitOK == Init => IInv
<1> SUFFICES ASSUME Init PROVE IInv
  OBVIOUS
<1>1. Types
  BY Starts DEF Init, Types
<1>2. Mutex
  BY Starts DEF Init, Mutex, Scanning
<1>3. \A b \in Builds : Used(b) /\ CurrentOK(b)
  <2> SUFFICES ASSUME NEW b \in Builds PROVE Used(b) /\ CurrentOK(b)
    OBVIOUS
  <2>1. RangeOf(pointer[b]) = {}
    BY Ranges DEF Init
  <2>2. Seen(b) = {}
    BY Starts, Sentinels DEF Init, Seen
  <2>3. current = None
    BY DEF Init
  <2> QED BY <2>1, <2>2, <2>3 DEF Used, CurrentOK
<1>4. \A s \in Requests : ScanAt(scan[s])
  BY Starts DEF Init
<1> QED BY <1>1, <1>2, <1>3, <1>4 DEF IInv

(* Every step keeps it. *)
LEMMA NextOK ==
  ASSUME IInv, [Next]_vars
  PROVE  IInv'
<1>1. CASE \E b \in Builds : CommandNext(b)
  BY <1>1, CommandStep
<1>2. CASE \E s \in Requests : ScanNext(s)
  BY <1>2, EnterStep, ListStep, ReadStep, VerifyStep, FailedStep, IndexedStep,
     CollectStep, FetchStep DEF ScanNext
<1> QED BY <1>1, <1>2, OtherStep DEF Next

(***************************************************************************)
(* The inductive invariant holds in every state of the folder, the         *)
(* snapshot and the calls in flight.                                       *)
(***************************************************************************)
THEOREM InductiveInvariant == Spec => []IInv
BY InitOK, NextOK, PTL DEF Spec

(***************************************************************************)
(* A launcher may finish the download it began, over any number of         *)
(* publishes, rollbacks and restarts: the releases seen and still          *)
(* published are a part of what every later scan reads.                    *)
(***************************************************************************)
THEOREM HolderAlwaysDownloads == Spec => []HolderCanDownload
<1>1. IInv => HolderCanDownload
  <2> SUFFICES ASSUME IInv, NEW b \in Builds, current # None, Whole(b), aways = 0,
                      NEW id \in held[b] \cap RangeOf(pointer[b])
               PROVE  id \in current.owned[b]
    BY DEF HolderCanDownload
  <2>1. RangeOf(pointer[b]) \subseteq Ids
    BY Ranges DEF IInv, Types
  <2>2. id \in Seen(b)
    BY <2>1 DEF Seen
  <2> QED BY <2>2 DEF IInv, CurrentOK
<1> QED BY <1>1, InductiveInvariant, PTL

(* The snapshot is replaced by collect only. *)
LEMMA SnapshotStep ==
  ASSUME IInv, [Next]_vars, current # None, current' # None
  PROVE  \/ current' = current
         \/ \E s \in Requests, torn \in BOOLEAN :
              scan[s].at = "collect" /\ current' = collect(s, torn)
<1>1. ASSUME NEW b \in Builds, CommandNext(b) PROVE current' = current
  BY <1>1 DEF CommandNext, Publish, Rollback, RemoveRelease, Refresh, DeleteStart,
              RemovePointer, FlatRemoved, Fail, readVars
<1>2. ASSUME NEW s \in Requests, ScanNext(s)
      PROVE  \/ current' = current
             \/ scan[s].at = "collect" /\ \E torn \in BOOLEAN : current' = collect(s, torn)
  BY <1>2 DEF ScanNext, Enter, Lock, ListFolder, VerifyReleases, ReadPointer,
              IndexFailed, IndexDone, Collect, GetManifest
<1>3. ASSUME TimePasses \/ GoAway \/ ComeBack \/ Crash \/ UNCHANGED vars
      PROVE  current' = current
  BY <1>3 DEF TimePasses, GoAway, ComeBack, Crash, vars
<1> QED BY <1>1, <1>2, <1>3 DEF Next

(***************************************************************************)
(* A new snapshot is never older for any build than the one it replaces:   *)
(* the scans exclude each other, and each reads after the last one ended.  *)
(***************************************************************************)
THEOREM SnapshotsNeverOlder == Spec => NeverOlder
<1>1. IInv /\ [Next]_vars =>
        [current # None /\ current' # None =>
           \A b \in Builds : current'.version[b] >= current.version[b]]_vars
  <2> SUFFICES ASSUME IInv, [Next]_vars, current # None, current' # None,
                      NEW b \in Builds
               PROVE  current'.version[b] >= current.version[b]
    OBVIOUS
  <2>1. current.version[b] \in Nat
    BY DEF IInv, Types, Snapshot
  <2>2. CASE current' = current
    BY <2>1, <2>2
  <2>3. ASSUME NEW s \in Requests, NEW torn \in BOOLEAN, scan[s].at = "collect",
               current' = collect(s, torn)
        PROVE  current'.version[b] >= current.version[b]
    <3>1. StampOK(scan[s], b) /\ scan[s].version[b] \in Nat
      BY <2>3 DEF IInv, ScanAt, Types, Scan
    <3>2. current'.version = scan[s].version
      BY <2>3, CollectTypes
    <3> QED BY <2>1, <3>1, <3>2 DEF StampOK
  <2> QED BY <2>2, <2>3, SnapshotStep
<1> QED BY <1>1, InductiveInvariant, PTL DEF Spec, NeverOlder

(***************************************************************************)
(* A build that is served stays served while its publication is whole on   *)
(* disk and the folder is reachable, whatever happens to the other builds. *)
(***************************************************************************)
THEOREM ServedIsKept == Spec => KeptWhileReachable
<1>1. IInv /\ [Next]_vars =>
        [current # None /\ current' # None /\ aways = 0
           => \A b \in Builds : Kept(b)]_vars
  <2> SUFFICES ASSUME IInv, [Next]_vars, current # None, current' # None, aways = 0,
                      NEW b \in Builds, current.shown[b] \in RangeOf(pointer[b]),
                      Whole(b)
               PROVE  current'.shown[b] # None
    BY DEF Kept
  <2>1. RangeOf(pointer[b]) \subseteq Ids
    BY Ranges DEF IInv, Types
  <2>2. CASE current' = current
    BY <2>1, <2>2, Sentinels
  <2>3. ASSUME NEW s \in Requests, NEW torn \in BOOLEAN, scan[s].at = "collect",
               current' = collect(s, torn)
        PROVE  current'.shown[b] # None
    <3>1. StampOK(scan[s], b) /\ scan[s].todo = {}
      BY <2>3 DEF IInv, ScanAt
    <3>2. current.shown[b] \in Seen(b)
      BY <2>1 DEF Seen
    <3>3. current.shown[b] \in RangeOf(scan[s].stamp[b])
      BY <3>1, <3>2 DEF StampOK
    <3> QED BY <2>3, <3>3, Collected
  <2> QED BY <2>2, <2>3, SnapshotStep
<1> QED BY <1>1, InductiveInvariant, PTL DEF Spec, KeptWhileReachable

=============================================================================
