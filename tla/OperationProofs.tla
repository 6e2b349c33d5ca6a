--------------------------- MODULE OperationProofs ---------------------------
(***************************************************************************)
(* Proofs about what an operator and a site see of the server: events of   *)
(* modules, the log, the installs of a build, mirrored pictures and news,  *)
(* for any number of modules, publishers, loggers, followers, platforms,   *)
(* calls and pictures.                                                     *)
(***************************************************************************)
EXTENDS BuildInstall, Modules, LogBus, Media, FiniteSetTheorems, SequenceTheorems, WellFoundedInduction, TLAPS

----------------------------------------------------------------------------
(* Modules: events. *)

(* b may follow a: another event, and not one whose Publish had returned   *)
(* when a's began.                                                         *)
MayFollow(P, a, b) == a # b /\ b \notin P[a]

(* The events on their way to a module: those it was given (s), the one    *)
(* its worker holds (m, 0 for none), those that wait (q).                  *)
LineOK(P, s, m, q) ==
    /\ s \in Seq(DOMAIN P) /\ q \in Seq(DOMAIN P)
    /\ m = 0 \/ m \in DOMAIN P
    /\ \A i, j \in 1..Len(s) : i < j => MayFollow(P, s[i], s[j])
    /\ \A i \in 1..Len(s), j \in 1..Len(q) : MayFollow(P, s[i], q[j])
    /\ \A i, j \in 1..Len(q) : i < j => MayFollow(P, q[i], q[j])
    /\ m # 0 => (\A i \in 1..Len(s) : MayFollow(P, s[i], m)) /\ (\A j \in 1..Len(q) : MayFollow(P, m, q[j]))

(* The event is not yet on its way to the module.                          *)
Absent(e, s, m, q) == e # m /\ (\A i \in 1..Len(s) : s[i] # e) /\ (\A j \in 1..Len(q) : q[j] # e)

(* A Publish under way: its event is its own, unfinished, and not yet on   *)
(* its way to the targets that are left, which are all different.          *)
SendOK(k) ==
    /\ k = [of |-> k.of, left |-> k.left]
    /\ k.of \in DOMAIN published \ finished
    /\ k.left \in Seq(Files)
    /\ \A i, j \in 1..Len(k.left) : i # j => k.left[i] # k.left[j]
    /\ \A i \in 1..Len(k.left) : Absent(k.of, seen[k.left[i]], emitting[k.left[i]], queue[k.left[i]])

EventInv ==
    /\ published \in Seq(SUBSET finished) /\ finished \subseteq DOMAIN published
    /\ seen = [f \in Files |-> seen[f]] /\ emitting = [f \in Files |-> emitting[f]]
    /\ queue = [f \in Files |-> queue[f]]
    /\ \A f \in Files : LineOK(published, seen[f], emitting[f], queue[f])
    /\ sending = [p \in Publishers |-> sending[p]]
    /\ \A p \in Publishers : sending[p] # NoOutcome => SendOK(sending[p])
    /\ \A p, q \in Publishers : sending[p] # NoOutcome /\ sending[q] # NoOutcome
                                  /\ sending[p].of = sending[q].of => p = q

(* Only files already loaded have subscribed, each once.                   *)
SubscribedInv ==
    /\ loading \in Nat \ {0}
    /\ subscribed \in Seq(Files)
    /\ \A i \in 1..Len(subscribed) : \E n \in 1..Len(ModuleFiles) : n < loading /\ subscribed[i] = ModuleFiles[n]
    /\ \A i, j \in 1..Len(subscribed) : i # j => subscribed[i] # subscribed[j]

(* The worker takes the first event that waits.                            *)
LEMMA LineTaken ==
    ASSUME NEW P, NEW s, NEW q, LineOK(P, s, 0, q), q # <<>>, 0 \notin DOMAIN P
    PROVE  LineOK(P, s, Head(q), Tail(q))
<1> PICK D : D = DOMAIN P
  OBVIOUS
<1>1. s \in Seq(D) /\ q \in Seq(D) /\ Len(s) \in Nat /\ Len(q) \in Nat
  BY LenProperties DEF LineOK
<1>2. Head(q) = q[1] /\ Len(q) # 0 /\ 1 \in 1..Len(q)
  BY <1>1, HeadTailProperties, EmptySeq
<1>3. Head(q) \in D /\ Tail(q) \in Seq(D) /\ Len(Tail(q)) = Len(q) - 1
  BY <1>1, HeadTailProperties
<1>4. \A j \in 1..Len(Tail(q)) : Tail(q)[j] = q[j + 1] /\ j + 1 \in 1..Len(q) /\ 1 < j + 1
  BY <1>1, <1>3, HeadTailProperties
<1>5. \A i, j \in 1..Len(Tail(q)) : i < j => MayFollow(P, Tail(q)[i], Tail(q)[j])
  BY <1>1, <1>4 DEF LineOK
<1>6. \A i \in 1..Len(s) : MayFollow(P, s[i], Head(q)) /\ \A j \in 1..Len(Tail(q)) : MayFollow(P, s[i], Tail(q)[j])
  BY <1>2, <1>4 DEF LineOK
<1>7. \A j \in 1..Len(Tail(q)) : MayFollow(P, Head(q), Tail(q)[j])
  BY <1>1, <1>2, <1>4 DEF LineOK
<1>8. QED
  BY <1>1, <1>3, <1>5, <1>6, <1>7 DEF LineOK

(* The module was given the event its worker held, or was not.             *)
LEMMA LineGiven ==
    ASSUME NEW P, NEW s, NEW m, NEW q, LineOK(P, s, m, q), m # 0
    PROVE  LineOK(P, Append(s, m), 0, q) /\ LineOK(P, s, 0, q)
<1> PICK D : D = DOMAIN P
  OBVIOUS
<1>1. s \in Seq(D) /\ q \in Seq(D) /\ Len(s) \in Nat /\ m \in D
  BY LenProperties DEF LineOK
<1>2. LineOK(P, s, 0, q)
  BY DEF LineOK
<1> PICK t : t = Append(s, m)
  OBVIOUS
<1>3. t \in Seq(D) /\ Len(t) = Len(s) + 1 /\ t[Len(s) + 1] = m
  BY <1>1, AppendProperties
<1>4. \A i \in 1..Len(t) : i = Len(s) + 1 \/ (i \in 1..Len(s) /\ t[i] = s[i])
  BY <1>1, <1>3, AppendProperties
<1>5. \A i, j \in 1..Len(t) : i < j => i \in 1..Len(s)
  BY <1>1, <1>3
<1>6. \A i, j \in 1..Len(t) : i < j => MayFollow(P, t[i], t[j])
  BY <1>1, <1>3, <1>4, <1>5 DEF LineOK
<1>7. \A i \in 1..Len(t), j \in 1..Len(q) : MayFollow(P, t[i], q[j])
  BY <1>1, <1>3, <1>4 DEF LineOK
<1>8. LineOK(P, t, 0, q)
  BY <1>1, <1>3, <1>6, <1>7 DEF LineOK
<1>9. QED
  BY <1>2, <1>8

(* An event nobody has finished publishing joins those that wait.          *)
LEMMA LineOffered ==
    ASSUME NEW P, NEW s, NEW m, NEW q, LineOK(P, s, m, q), NEW e \in DOMAIN P, Absent(e, s, m, q),
           \A a \in DOMAIN P : e \notin P[a]
    PROVE  LineOK(P, s, m, Append(q, e))
<1> PICK D : D = DOMAIN P
  OBVIOUS
<1>1. s \in Seq(D) /\ q \in Seq(D) /\ Len(q) \in Nat /\ e \in D /\ Len(s) \in Nat
  BY LenProperties DEF LineOK
<1> PICK t : t = Append(q, e)
  OBVIOUS
<1>2. t \in Seq(D) /\ Len(t) = Len(q) + 1 /\ t[Len(q) + 1] = e
  BY <1>1, AppendProperties
<1>3. \A i \in 1..Len(t) : i = Len(q) + 1 \/ (i \in 1..Len(q) /\ t[i] = q[i])
  BY <1>1, <1>2, AppendProperties
<1>4. \A i, j \in 1..Len(t) : i < j => i \in 1..Len(q)
  BY <1>1, <1>2
<1>5. \A i \in 1..Len(q) : q[i] \in D
  BY <1>1, ElementOfSeq
<1>6. \A i \in 1..Len(s) : s[i] \in D
  BY <1>1, ElementOfSeq
<1>7. \A i \in 1..Len(q) : MayFollow(P, q[i], e)
  BY <1>5 DEF MayFollow, Absent
<1>8. \A i \in 1..Len(s) : MayFollow(P, s[i], e)
  BY <1>6 DEF MayFollow, Absent
<1>9. m # 0 => MayFollow(P, m, e)
  BY DEF LineOK, MayFollow, Absent
<1>10. \A i, j \in 1..Len(t) : i < j => MayFollow(P, t[i], t[j])
  BY <1>1, <1>2, <1>3, <1>4, <1>7 DEF LineOK
<1>11. \A i \in 1..Len(s), j \in 1..Len(t) : MayFollow(P, s[i], t[j])
  BY <1>2, <1>3, <1>8 DEF LineOK
<1>12. m # 0 => \A j \in 1..Len(t) : MayFollow(P, m, t[j])
  BY <1>2, <1>3, <1>9 DEF LineOK
<1>13. QED
  BY <1>1, <1>2, <1>10, <1>11, <1>12 DEF LineOK


(* Another publication leaves what is on its way as it was, and its event  *)
(* is on its way to nobody.                                                *)
LEMMA LineGrown ==
    ASSUME NEW P, NEW S, P \in Seq(S), NEW x \in S, NEW s, NEW m, NEW q, LineOK(P, s, m, q)
    PROVE  LineOK(Append(P, x), s, m, q) /\ Absent(Len(P) + 1, s, m, q)
<1> PICK R : R = Append(P, x)
  OBVIOUS
<1> PICK n : n = Len(P)
  OBVIOUS
<1>1. n \in Nat /\ DOMAIN P = 1..n
  BY LenProperties
<1>2. R \in Seq(S) /\ Len(R) = n + 1 /\ \A a \in 1..n : R[a] = P[a]
  BY AppendProperties
<1>3. DOMAIN R = 1..(n + 1)
  BY <1>1, <1>2, LenProperties
<1>4. s \in Seq(1..n) /\ q \in Seq(1..n) /\ (m = 0 \/ m \in 1..n)
  BY <1>1 DEF LineOK
<1>5. (\A i \in 1..Len(s) : s[i] \in 1..n) /\ (\A j \in 1..Len(q) : q[j] \in 1..n)
  BY <1>4, ElementOfSeq
<1>6. Absent(n + 1, s, m, q)
  BY <1>1, <1>4, <1>5 DEF Absent
<1>7. \A a \in 1..n : \A b : MayFollow(P, a, b) => MayFollow(R, a, b)
  BY <1>2 DEF MayFollow
<1>8. 1..n \subseteq DOMAIN R
  BY <1>1, <1>3
<1>9. s \in Seq(DOMAIN R) /\ q \in Seq(DOMAIN R)
  <2> PICK D : D = DOMAIN R
    OBVIOUS
  <2>1. Seq(1..n) \subseteq Seq(D)
    BY <1>8
  <2>2. QED
    BY <2>1, <1>4
<1>10. LineOK(R, s, m, q)
  BY <1>1, <1>4, <1>5, <1>7, <1>8, <1>9 DEF LineOK
<1>11. QED
  BY <1>6, <1>10

(* An event that is not on its way is not put on its way by a worker.      *)
LEMMA AbsentTaken ==
    ASSUME NEW D, NEW e, NEW s, NEW q \in Seq(D), q # <<>>, Absent(e, s, 0, q)
    PROVE  Absent(e, s, Head(q), Tail(q))
<1>1. Len(q) \in Nat /\ Head(q) = q[1] /\ Len(q) # 0 /\ Len(Tail(q)) = Len(q) - 1
  BY HeadTailProperties, EmptySeq, LenProperties
<1>2. 1 \in 1..Len(q) /\ \A j \in 1..Len(Tail(q)) : Tail(q)[j] = q[j + 1] /\ j + 1 \in 1..Len(q)
  BY <1>1, HeadTailProperties
<1>3. QED
  BY <1>1, <1>2 DEF Absent

(* Nor by handing the module another one.                                  *)
LEMMA AbsentGiven ==
    ASSUME NEW D, NEW e, NEW s \in Seq(D), NEW m \in D, NEW q, Absent(e, s, m, q), e # 0
    PROVE  Absent(e, Append(s, m), 0, q) /\ Absent(e, s, 0, q)
<1> PICK t : t = Append(s, m)
  OBVIOUS
<1>1. Len(s) \in Nat /\ Len(t) = Len(s) + 1 /\ t[Len(s) + 1] = m
  BY AppendProperties, LenProperties
<1>2. \A i \in 1..Len(t) : i = Len(s) + 1 \/ (i \in 1..Len(s) /\ t[i] = s[i])
  BY <1>1, AppendProperties
<1>3. QED
  BY <1>1, <1>2 DEF Absent

(* Nor by offering another one.                                            *)
LEMMA AbsentOffered ==
    ASSUME NEW D, NEW e, NEW s, NEW m, NEW q \in Seq(D), NEW o \in D, Absent(e, s, m, q), e # o
    PROVE  Absent(e, s, m, Append(q, o))
<1> PICK t : t = Append(q, o)
  OBVIOUS
<1>1. Len(q) \in Nat /\ Len(t) = Len(q) + 1 /\ t[Len(q) + 1] = o
  BY AppendProperties, LenProperties
<1>2. \A i \in 1..Len(t) : i = Len(q) + 1 \/ (i \in 1..Len(q) /\ t[i] = q[i])
  BY <1>1, AppendProperties
<1>3. QED
  BY <1>1, <1>2 DEF Absent

(* A step of one module's worker keeps the invariant of the events when it *)
(* keeps the order of that module's and puts nothing new on its way.       *)
LEMMA LineChanged ==
    ASSUME EventInv, NEW f \in Files, NEW s, NEW m, NEW q, LineOK(published, s, m, q),
           \A e \in DOMAIN published : Absent(e, seen[f], emitting[f], queue[f]) => Absent(e, s, m, q),
           seen' = [seen EXCEPT ![f] = s], emitting' = [emitting EXCEPT ![f] = m],
           queue' = [queue EXCEPT ![f] = q],
           sending' = sending, published' = published, finished' = finished
    PROVE  EventInv'
<1>1. \A g \in Files : IF g = f THEN seen'[g] = s /\ emitting'[g] = m /\ queue'[g] = q
                       ELSE seen'[g] = seen[g] /\ emitting'[g] = emitting[g] /\ queue'[g] = queue[g]
  BY DEF EventInv
<1>2. \A g \in Files : LineOK(published, seen'[g], emitting'[g], queue'[g])
  BY <1>1 DEF EventInv
<1>3. \A e \in DOMAIN published, g \in Files :
          Absent(e, seen[g], emitting[g], queue[g]) => Absent(e, seen'[g], emitting'[g], queue'[g])
  BY <1>1
<1>4. ASSUME NEW p \in Publishers, sending[p] # NoOutcome
      PROVE  SendOK(sending[p])'
  <2> PICK k : k = sending[p]
    OBVIOUS
  <2>1. SendOK(k)
    BY <1>4 DEF EventInv
  <2>2. k.left \in Seq(Files) /\ k.of \in DOMAIN published
    BY <2>1 DEF SendOK
  <2>3. \A i \in 1..Len(k.left) : k.left[i] \in Files
    BY <2>2, ElementOfSeq
  <2>4. \A i \in 1..Len(k.left) : Absent(k.of, seen'[k.left[i]], emitting'[k.left[i]], queue'[k.left[i]])
    BY <2>1, <2>2, <2>3, <1>3 DEF SendOK
  <2>5. QED
    BY <2>1, <2>4 DEF SendOK
<1>5. seen' = [g \in Files |-> seen'[g]] /\ emitting' = [g \in Files |-> emitting'[g]]
      /\ queue' = [g \in Files |-> queue'[g]]
  BY DEF EventInv
<1>6. QED
  BY <1>2, <1>4, <1>5 DEF EventInv


(* Publish begins.                                                         *)
LEMMA BeginKeeps ==
    ASSUME EventInv, SubscribedInv, NEW p \in Publishers, BeginPublish(p)
    PROVE  EventInv'
<1> PICK P : P = published
  OBVIOUS
<1> PICK n : n = Len(published)
  OBVIOUS
<1> PICK k : k = [of |-> n + 1, left |-> subscribed]
  OBVIOUS
<1>1. /\ published' = Append(P, finished) /\ sending' = [sending EXCEPT ![p] = k] /\ seen' = seen
      /\ queue' = queue /\ emitting' = emitting /\ finished' = finished
  BY DEF BeginPublish
<1>2. P \in Seq(SUBSET finished) /\ finished \in SUBSET finished
  BY DEF EventInv
<1>3. n \in Nat /\ DOMAIN P = 1..n
  BY <1>2, LenProperties
<1>4. published' \in Seq(SUBSET finished) /\ Len(published') = n + 1
  BY <1>1, <1>2, AppendProperties
<1>5. DOMAIN published' = 1..(n + 1)
  BY <1>3, <1>4, LenProperties
<1>6. \A f \in Files : LineOK(published', seen[f], emitting[f], queue[f])
                         /\ Absent(n + 1, seen[f], emitting[f], queue[f])
  BY <1>1, <1>2, LineGrown DEF EventInv
<1>7. DOMAIN published \subseteq DOMAIN published' /\ n + 1 \in DOMAIN published' /\ n + 1 \notin DOMAIN published
  BY <1>3, <1>5
<1>8. finished \subseteq DOMAIN published /\ n + 1 \notin finished
  BY <1>7 DEF EventInv
<1>9. k.of = n + 1 /\ k.left = subscribed
  OBVIOUS
<1>10. \A i \in 1..Len(subscribed) : subscribed[i] \in Files
  BY ElementOfSeq DEF SubscribedInv
<1>11. SendOK(k)'
  BY <1>1, <1>6, <1>7, <1>8, <1>9, <1>10 DEF SendOK, SubscribedInv
<1>12. \A r \in Publishers : sending'[r] = IF r = p THEN k ELSE sending[r]
  BY <1>1 DEF EventInv
<1>13. ASSUME NEW r \in Publishers, r # p, sending[r] # NoOutcome
       PROVE  SendOK(sending[r])' /\ sending[r].of # n + 1
  <2> PICK h : h = sending[r]
    OBVIOUS
  <2>1. SendOK(h)
    BY <1>13 DEF EventInv
  <2>2. SendOK(h)'
    BY <2>1, <1>1, <1>7 DEF SendOK
  <2>3. sending'[r] = h
    BY <1>12, <1>13
  <2>4. h.of # n + 1
    BY <2>1, <1>7 DEF SendOK
  <2>5. QED
    BY <2>2, <2>3, <2>4 DEF SendOK
<1>14. \A r \in Publishers : sending'[r] # NoOutcome => SendOK(sending[r])'
  <2>1. SUFFICES ASSUME NEW r \in Publishers, sending'[r] # NoOutcome PROVE SendOK(sending[r])'
    OBVIOUS
  <2>2. CASE r = p
    <3>1. sending'[r] = k
      BY <2>2, <1>12
    <3>2. QED
      BY <3>1, <1>11 DEF SendOK
  <2>3. CASE r # p
    BY <2>1, <2>3, <1>12, <1>13
  <2>4. QED
    BY <2>2, <2>3
<1>15. \A r, t \in Publishers : sending'[r] # NoOutcome /\ sending'[t] # NoOutcome
                                  /\ sending'[r].of = sending'[t].of => r = t
  BY <1>9, <1>12, <1>13 DEF EventInv
<1>16. sending' = [r \in Publishers |-> sending'[r]]
  BY <1>1 DEF EventInv
<1>17. finished \subseteq DOMAIN published'
  BY <1>7, <1>8
<1>18. QED
  BY <1>1, <1>4, <1>6, <1>14, <1>15, <1>16, <1>17 DEF EventInv

(* Publish returns.                                                        *)
LEMMA FinishKeeps ==
    ASSUME EventInv, NEW p \in Publishers, sending[p] # NoOutcome, NEW e, e = sending[p].of,
           sending' = [sending EXCEPT ![p] = NoOutcome], finished' = finished \union {e},
           queue' = queue, emitting' = emitting, seen' = seen, published' = published
    PROVE  EventInv'
<1>1. published' \in Seq(SUBSET finished')
  <2>1. published \in Seq(SUBSET finished) /\ SUBSET finished \subseteq SUBSET finished'
    BY DEF EventInv
  <2>2. QED
    BY <2>1
<1>2. finished' \subseteq DOMAIN published'
  BY DEF EventInv, SendOK
<1>3. \A r \in Publishers : sending'[r] = IF r = p THEN NoOutcome ELSE sending[r]
  BY DEF EventInv
<1>4. ASSUME NEW r \in Publishers, sending'[r] # NoOutcome
      PROVE  SendOK(sending[r])'
  <2> PICK h : h = sending[r]
    OBVIOUS
  <2>1. r # p /\ sending'[r] = h /\ SendOK(h) /\ h.of # e
    BY <1>3, <1>4 DEF EventInv
  <2>2. SendOK(h)'
    BY <2>1 DEF SendOK
  <2>3. QED
    BY <2>1, <2>2 DEF SendOK
<1>5. \A r, t \in Publishers : sending'[r] # NoOutcome /\ sending'[t] # NoOutcome
                                  /\ sending'[r].of = sending'[t].of => r = t
  BY <1>3 DEF EventInv
<1>6. sending' = [r \in Publishers |-> sending'[r]]
  BY DEF EventInv
<1>7. QED
  BY <1>1, <1>2, <1>4, <1>5, <1>6 DEF EventInv

(* What is known of a Publish holds of the publisher that carries it out.  *)
LEMMA SendOfPublisher ==
    ASSUME NEW k, NEW r, SendOK(k)', sending'[r] = k
    PROVE  SendOK(sending[r])'
  BY DEF SendOK

(* Publish offers the event to the next target, whose queue may be full.   *)
LEMMA OfferKeeps ==
    ASSUME EventInv, NEW p \in Publishers, sending[p] # NoOutcome, NEW k, k = sending[p], k.left # <<>>,
           NEW f, f = Head(k.left),
           sending' = [sending EXCEPT ![p] = [of |-> k.of, left |-> Tail(k.left)]],
           queue' = queue \/ queue' = [queue EXCEPT ![f] = Append(queue[f], k.of)],
           finished' = finished, emitting' = emitting, seen' = seen, published' = published
    PROVE  EventInv'
<1> PICK D : D = DOMAIN published
  OBVIOUS
<1> PICK left : left = k.left
  OBVIOUS
<1>1. SendOK(k)
  BY DEF EventInv
<1>2. left \in Seq(Files) /\ Len(left) \in Nat /\ k.of \in D
  BY <1>1, LenProperties DEF SendOK
<1>3. f = left[1] /\ Len(left) # 0 /\ Tail(left) \in Seq(Files) /\ Len(Tail(left)) = Len(left) - 1
  BY <1>2, HeadTailProperties, EmptySeq
<1>4. 1 \in 1..Len(left) /\ \A i \in 1..Len(Tail(left)) :
          i + 1 \in 1..Len(left) /\ i + 1 # 1 /\ Tail(left)[i] = left[i + 1]
  BY <1>2, <1>3, HeadTailProperties
<1>5. f \in Files /\ \A i \in 1..Len(Tail(left)) : Tail(left)[i] # f /\ Tail(left)[i] \in Files
  <2>1. \A i \in 1..Len(left) : left[i] \in Files
    BY <1>2, ElementOfSeq
  <2>2. \A i, j \in 1..Len(left) : i # j => left[i] # left[j]
    BY <1>1 DEF SendOK
  <2> PICK u : u = Tail(left)
    OBVIOUS
  <2>3. \A i \in 1..Len(u) : u[i] # left[1] /\ u[i] \in Files
    BY <1>4, <2>1, <2>2
  <2>4. QED
    BY <1>3, <1>4, <2>1, <2>3
<1>6. Absent(k.of, seen[f], emitting[f], queue[f])
  BY <1>1, <1>3, <1>4 DEF SendOK
<1>7. \A g \in Files : g # f => queue'[g] = queue[g]
  BY DEF EventInv
<1>8. queue'[f] = queue[f] \/ queue'[f] = Append(queue[f], k.of)
  BY <1>5 DEF EventInv
<1>9. \A a \in D : k.of \notin published[a]
  <2>1. \A a \in D : published[a] \subseteq finished
    <3>1. published \in Seq(SUBSET finished)
      BY DEF EventInv
    <3>2. DOMAIN published = 1..Len(published)
      BY <3>1, LenProperties
    <3>3. \A a \in 1..Len(published) : published[a] \in SUBSET finished
      BY <3>1, ElementOfSeq
    <3>4. QED
      BY <3>2, <3>3
  <2>2. QED
    BY <2>1, <1>1 DEF SendOK
<1>10. LineOK(published, seen[f], emitting[f], queue[f]) /\ queue[f] \in Seq(D)
  BY <1>5 DEF EventInv, LineOK
<1>11. LineOK(published, seen[f], emitting[f], Append(queue[f], k.of))
  BY <1>2, <1>6, <1>9, <1>10, LineOffered
<1>12. \A g \in Files : LineOK(published, seen[g], emitting[g], queue'[g])
  BY <1>7, <1>8, <1>10, <1>11 DEF EventInv
<1>14. ASSUME NEW e, e # k.of, NEW g \in Files, Absent(e, seen[g], emitting[g], queue[g])
       PROVE  Absent(e, seen[g], emitting[g], queue'[g])
  <2>1. CASE queue'[g] = queue[g]
    BY <2>1, <1>14
  <2>2. CASE g = f /\ queue'[f] = Append(queue[f], k.of)
    <3>1. Absent(e, seen[f], emitting[f], Append(queue[f], k.of))
      BY <2>2, <1>2, <1>10, <1>14, AbsentOffered
    <3>2. QED
      BY <2>2, <3>1
  <2>3. QED
    BY <2>1, <2>2, <1>7, <1>8
<1> PICK t : t = [of |-> k.of, left |-> Tail(left)]
  OBVIOUS
<1>15. t.of = k.of /\ t.left = Tail(left)
  OBVIOUS
<1>16. \A i, j \in 1..Len(t.left) : i # j => t.left[i] # t.left[j]
  BY <1>1, <1>2, <1>3, <1>4, <1>15 DEF SendOK
<1>17. \A i \in 1..Len(t.left) : Absent(t.of, seen[t.left[i]], emitting[t.left[i]], queue'[t.left[i]])
  <2> SUFFICES ASSUME NEW i \in 1..Len(t.left)
               PROVE  Absent(t.of, seen[t.left[i]], emitting[t.left[i]], queue'[t.left[i]])
    OBVIOUS
  <2>1. \A j \in 1..Len(left) : Absent(k.of, seen[left[j]], emitting[left[j]], queue[left[j]])
    BY <1>1 DEF SendOK
  <2> PICK g : g = t.left[i]
    OBVIOUS
  <2>2. g = left[i + 1] /\ i + 1 \in 1..Len(left) /\ g \in Files /\ g # f
    BY <1>4, <1>5, <1>15
  <2>3. Absent(k.of, seen[g], emitting[g], queue[g]) /\ queue'[g] = queue[g]
    BY <2>1, <2>2, <1>7
  <2>4. QED
    BY <2>3, <1>15
<1>18. SendOK(t)'
  BY <1>1, <1>3, <1>15, <1>16, <1>17 DEF SendOK
<1>19. \A r \in Publishers : sending'[r] = IF r = p THEN t ELSE sending[r]
  BY DEF EventInv
<1>20. ASSUME NEW r \in Publishers, sending'[r] # NoOutcome
       PROVE  SendOK(sending[r])'
  <2>1. CASE r = p
    <3>1. sending'[r] = t
      BY <2>1, <1>19
    <3>2. QED
      BY <3>1, <1>18, SendOfPublisher
  <2>2. CASE r # p
    <3> PICK h : h = sending[r]
      OBVIOUS
    <3>1. sending'[r] = h /\ SendOK(h) /\ h.of # k.of
      BY <2>2, <1>19, <1>20 DEF EventInv
    <3>2. \A i \in 1..Len(h.left) : h.left[i] \in Files
      BY <3>1, ElementOfSeq DEF SendOK
    <3>3. \A i \in 1..Len(h.left) : Absent(h.of, seen[h.left[i]], emitting[h.left[i]], queue'[h.left[i]])
      BY <3>1, <3>2, <1>14 DEF SendOK
    <3>4. SendOK(h)'
      BY <3>1, <3>3 DEF SendOK
    <3>5. QED
      BY <3>1, <3>4, SendOfPublisher
  <2>3. QED
    BY <2>1, <2>2
<1>21. \A r, u \in Publishers : sending'[r] # NoOutcome /\ sending'[u] # NoOutcome
                                  /\ sending'[r].of = sending'[u].of => r = u
  BY <1>15, <1>19 DEF EventInv
<1>22. sending' = [r \in Publishers |-> sending'[r]] /\ queue' = [g \in Files |-> queue'[g]]
  BY DEF EventInv
<1>23. QED
  BY <1>12, <1>20, <1>21, <1>22 DEF EventInv

(* Publish goes on.                                                        *)
LEMMA SendKeeps ==
    ASSUME EventInv, NEW p \in Publishers, OfferEvent(p)
    PROVE  EventInv'
<1> PICK k : k = sending[p]
  OBVIOUS
<1>1. k = [of |-> k.of, left |-> k.left] /\ sending[p] # NoOutcome
  BY DEF EventInv, SendOK, OfferEvent
<1>2. emitting' = emitting /\ seen' = seen /\ published' = published
  BY DEF OfferEvent
<1>3. CASE k.left = <<>>
  BY <1>1, <1>2, <1>3, FinishKeeps DEF OfferEvent
<1>4. CASE k.left # <<>>
  <2>1. sending' = [sending EXCEPT ![p] = [of |-> k.of, left |-> Tail(k.left)]]
    BY <1>1, <1>4 DEF OfferEvent
  <2>2. /\ queue' = queue \/ queue' = [queue EXCEPT ![Head(k.left)] = Append(queue[Head(k.left)], k.of)]
        /\ finished' = finished
    BY <1>4 DEF OfferEvent
  <2>3. QED
    BY <1>1, <1>2, <1>4, <2>1, <2>2, OfferKeeps
<1>5. QED
  BY <1>3, <1>4


(* The worker takes an event, and the module is given it.                  *)
LEMMA WorkerKeeps ==
    ASSUME EventInv, NEW f \in Files, worker(f) \/ dispatch(f)
    PROVE  EventInv'
<1> PICK D : D = DOMAIN published
  OBVIOUS
<1> PICK s : s = seen[f]
  OBVIOUS
<1> PICK m : m = emitting[f]
  OBVIOUS
<1> PICK q : q = queue[f]
  OBVIOUS
<1>1. LineOK(published, s, m, q)
  BY DEF EventInv
<1>2. 0 \notin D
  BY LenProperties DEF EventInv
<1>3. s \in Seq(D) /\ q \in Seq(D) /\ (m = 0 \/ m \in D)
  BY <1>1 DEF LineOK
<1>4. sending' = sending /\ published' = published /\ finished' = finished
  BY DEF worker, dispatch
<1>5. /\ seen = [seen EXCEPT ![f] = s] /\ queue = [queue EXCEPT ![f] = q]
      /\ emitting = [emitting EXCEPT ![f] = m]
  BY DEF EventInv
<1>6. CASE worker(f)
  <2>1. m = 0 /\ q # <<>> /\ queue' = [queue EXCEPT ![f] = Tail(q)] /\ seen' = seen
        /\ emitting' = [emitting EXCEPT ![f] = Head(q)]
    BY <1>6 DEF worker
  <2>2. LineOK(published, s, Head(q), Tail(q))
    BY <1>1, <1>2, <2>1, LineTaken
  <2>3. \A e \in DOMAIN published : Absent(e, s, m, q) => Absent(e, s, Head(q), Tail(q))
    BY <1>3, <2>1, AbsentTaken
  <2>4. /\ seen' = [seen EXCEPT ![f] = s]
        /\ \A e \in DOMAIN published :
              Absent(e, seen[f], emitting[f], queue[f]) => Absent(e, s, Head(q), Tail(q))
    BY <1>5, <2>1, <2>3
  <2>5. QED
    BY <1>4, <2>1, <2>2, <2>4, LineChanged
<1>7. CASE dispatch(f)
  <2>1. m # 0 /\ queue' = queue /\ emitting' = [emitting EXCEPT ![f] = 0]
        /\ (seen' = [seen EXCEPT ![f] = Append(s, m)] \/ seen' = seen)
    BY <1>7 DEF dispatch
  <2>2. LineOK(published, Append(s, m), 0, q) /\ LineOK(published, s, 0, q)
    BY <1>1, <2>1, LineGiven
  <2>3. \A e \in DOMAIN published :
            Absent(e, s, m, q) => Absent(e, Append(s, m), 0, q) /\ Absent(e, s, 0, q)
    BY <1>2, <1>3, <2>1, AbsentGiven
  <2>4. CASE seen' = [seen EXCEPT ![f] = Append(s, m)]
    BY <1>4, <1>5, <2>1, <2>2, <2>3, <2>4, LineChanged
  <2>5. CASE seen' = seen
    BY <1>4, <1>5, <2>1, <2>2, <2>3, <2>5, LineChanged
  <2>6. QED
    BY <2>1, <2>4, <2>5
<1>8. QED
  BY <1>6, <1>7

(* Loading takes the next file, which has not subscribed before.           *)
LEMMA LoadSubscribes ==
    ASSUME SubscribedInv, NEW f \in Files, loadModule(f)
    PROVE  SubscribedInv'
<1> PICK n : n = loading
  OBVIOUS
<1> PICK s : s = subscribed
  OBVIOUS
<1>1. n \in Nat \ {0} /\ loading' = n + 1 /\ f = ModuleFiles[n] /\ s \in Seq(Files)
      /\ (subscribed' = s \/ subscribed' = Append(s, f))
  BY DEF SubscribedInv, loadModule
<1>2. Len(ModuleFiles) \in Nat /\ n \in 1..Len(ModuleFiles) /\ DOMAIN ModuleFiles = 1..Len(ModuleFiles)
  <2>1. Len(ModuleFiles) \in Nat /\ DOMAIN ModuleFiles = 1..Len(ModuleFiles)
    BY ModulesAssumption, LenProperties
  <2>2. ~(n > Len(ModuleFiles))
    BY DEF loadModule, Serving
  <2>3. QED
    BY <1>1, <2>1, <2>2
<1>3. \A m \in 1..Len(ModuleFiles) : m < n => ModuleFiles[m] # f
  BY <1>1, <1>2, ModulesAssumption DEF IsInjective
<1>4. \A i \in 1..Len(s) : s[i] # f
  BY <1>3 DEF SubscribedInv
<1>5. \A i \in 1..Len(s) : \E m \in 1..Len(ModuleFiles) : m < n + 1 /\ s[i] = ModuleFiles[m]
  BY <1>1, <1>2 DEF SubscribedInv
<1>6. CASE subscribed' = s
  BY <1>1, <1>5, <1>6 DEF SubscribedInv
<1>7. CASE subscribed' = Append(s, f)
  <2> PICK t : t = Append(s, f)
    OBVIOUS
  <2>1. t \in Seq(Files) /\ Len(s) \in Nat /\ Len(t) = Len(s) + 1 /\ t[Len(s) + 1] = f
    BY <1>1, AppendProperties, LenProperties
  <2>2. \A i \in 1..Len(t) : i = Len(s) + 1 \/ (i \in 1..Len(s) /\ t[i] = s[i])
    BY <1>1, <2>1, AppendProperties
  <2>3. \A i \in 1..Len(t) : \E m \in 1..Len(ModuleFiles) : m < n + 1 /\ t[i] = ModuleFiles[m]
    BY <1>1, <1>2, <1>5, <2>1, <2>2
  <2>4. \A i, j \in 1..Len(t) : i # j => t[i] # t[j]
    BY <1>4, <2>1, <2>2 DEF SubscribedInv
  <2>5. QED
    BY <1>1, <1>7, <2>1, <2>3, <2>4 DEF SubscribedInv
<1>8. QED
  BY <1>1, <1>6, <1>7

----------------------------------------------------------------------------
(* Modules: the providers they give. *)

(* A provider the server built is its own, or an object that the module    *)
(* registered for the name has opened under it.                            *)
WiredOK(spec, w) ==
    /\ w.of = owner[spec]
    /\ w.of # Own => w.of \in Files /\ w.handle \in 1..Len(opened[w.of]) /\ opened[w.of][w.handle] = spec

ProviderInv ==
    /\ Configured \subseteq DOMAIN owner /\ Builtin \subseteq DOMAIN owner
    /\ \A spec \in DOMAIN owner : owner[spec] \in Files \union {Own, Nobody}
    /\ \A spec \in Builtin : owner[spec] = Own
    /\ opened = [f \in Files |-> opened[f]] /\ \A f \in Files : opened[f] \in Seq(Configured)
    /\ wired = [spec \in Configured |-> wired[spec]]
    /\ ~ Serving => \A spec \in Configured : wired[spec] = NoOutcome
    /\ \A spec \in Configured : wired[spec] # NoOutcome => WiredOK(spec, wired[spec])

(* The answer to the last call, as AnswersHonest has it.                   *)
OutcomeOK(r) ==
    /\ r.spec \notin Builtin
    /\ r.result # "unavailable" =>
         /\ r.alive /\ r.found = r.spec
         /\ r.result = IF r.decision = "accept" THEN "identity" ELSE r.decision

(* A name that is taken keeps its owner.                                   *)
LEMMA LoadKeepsProviders ==
    ASSUME ProviderInv, SubscribedInv, NEW f \in Files, loadModule(f)
    PROVE  ProviderInv'
<1>1. opened' = opened /\ wired' = wired /\ ~ Serving
  BY DEF loadModule
<1>2. \A spec \in Configured : wired'[spec] = NoOutcome
  BY <1>1 DEF ProviderInv
<1>3. owner' = owner \/ owner' = [spec \in DOMAIN owner |->
             IF spec \in Range(Gives[f]) /\ owner[spec] = Nobody THEN f ELSE owner[spec]]
  BY DEF loadModule, registerProviders, free
<1>4. /\ DOMAIN owner' = DOMAIN owner
      /\ \A spec \in DOMAIN owner : owner'[spec] \in Files \union {Own, Nobody}
      /\ \A spec \in Builtin : owner'[spec] = Own
  BY <1>3 DEF ProviderInv, Own, Nobody
<1>5. QED
  BY <1>1, <1>2, <1>4 DEF ProviderInv

(* The owner of a name opens it.                                           *)
LEMMA OpenKeepsProviders ==
    ASSUME ProviderInv, NEW spec \in Configured, OpenProvider(spec)
    PROVE  ProviderInv'
<1> PICK f : f = owner[spec]
  OBVIOUS
<1>1. Serving /\ wired[spec] = NoOutcome /\ f # Nobody /\ owner' = owner /\ loading' = loading
  BY DEF OpenProvider
<1>2. f = Own \/ f \in Files
  BY <1>1 DEF ProviderInv
<1>3. CASE f = Own
  <2> PICK w : w = [of |-> Own, handle |-> 0]
    OBVIOUS
  <2>1. wired' = [wired EXCEPT ![spec] = w] /\ opened' = opened
    BY <1>3 DEF OpenProvider
  <2>2. \A x \in Configured : wired'[x] = IF x = spec THEN w ELSE wired[x]
    BY <2>1 DEF ProviderInv
  <2>3. w.of = owner[spec] /\ w.of = Own
    BY <1>3
  <2>4. \A x \in Configured : wired'[x] # NoOutcome => WiredOK(x, wired[x])'
    BY <1>1, <2>1, <2>2, <2>3 DEF WiredOK, ProviderInv
  <2>5. wired' = [x \in Configured |-> wired'[x]]
    BY <2>1 DEF ProviderInv
  <2>6. QED
    BY <1>1, <2>1, <2>4, <2>5 DEF ProviderInv, Serving
<1>4. CASE f \in Files
  <2> PICK s : s = opened[f]
    OBVIOUS
  <2> PICK t : t = Append(s, spec)
    OBVIOUS
  <2> PICK w : w = [of |-> f, handle |-> Len(s) + 1]
    OBVIOUS
  <2>1. f # Own
    BY <1>4, ModulesAssumption
  <2>2. wired' = [wired EXCEPT ![spec] = w] /\ opened' = [opened EXCEPT ![f] = t]
    BY <2>1 DEF OpenProvider
  <2>3. s \in Seq(Configured) /\ Len(s) \in Nat /\ t \in Seq(Configured) /\ Len(t) = Len(s) + 1
        /\ t[Len(s) + 1] = spec /\ \A i \in 1..Len(s) : t[i] = s[i]
    BY <1>4, AppendProperties, LenProperties DEF ProviderInv
  <2>4. \A x \in Configured : wired'[x] = IF x = spec THEN w ELSE wired[x]
    BY <2>2 DEF ProviderInv
  <2>5. \A g \in Files : opened'[g] = IF g = f THEN t ELSE opened[g]
    BY <2>2 DEF ProviderInv
  <2>6. w.of = f /\ w.handle = Len(s) + 1 /\ w.handle \in 1..Len(t)
    BY <2>3
  <2>7. WiredOK(spec, wired[spec])'
    <3>1. wired'[spec] = w /\ opened'[f] = t /\ owner'[spec] = f
      BY <1>1, <1>4, <2>4, <2>5
    <3>2. opened'[w.of] = t /\ t[w.handle] = spec
      BY <2>3, <2>6, <3>1
    <3>3. QED
      BY <1>4, <2>6, <3>1, <3>2 DEF WiredOK
  <2>8. ASSUME NEW x \in Configured, x # spec, wired[x] # NoOutcome
        PROVE  WiredOK(x, wired[x])'
    <3> PICK v : v = wired[x]
      OBVIOUS
    <3>1. WiredOK(x, v) /\ wired'[x] = v
      BY <2>4, <2>8 DEF ProviderInv
    <3>2. CASE v.of = Own
      BY <1>1, <3>1, <3>2 DEF WiredOK
    <3>3. CASE v.of = f
      <4>1. v.handle \in 1..Len(s) /\ s[v.handle] = x
        BY <2>1, <3>1, <3>3 DEF WiredOK
      <4>2. v.handle \in 1..Len(t) /\ t[v.handle] = x
        BY <2>3, <4>1
      <4>3. QED
        BY <1>1, <1>4, <2>5, <3>1, <3>3, <4>2 DEF WiredOK
    <3>4. CASE v.of # Own /\ v.of # f
      BY <1>1, <2>5, <3>1, <3>4 DEF WiredOK
    <3>5. QED
      BY <3>2, <3>3, <3>4
  <2>9. \A x \in Configured : wired'[x] # NoOutcome => WiredOK(x, wired[x])'
    BY <2>4, <2>7, <2>8
  <2>10. wired' = [x \in Configured |-> wired'[x]] /\ opened' = [g \in Files |-> opened'[g]]
         /\ \A g \in Files : opened'[g] \in Seq(Configured)
    BY <2>2, <2>3, <2>5 DEF ProviderInv
  <2>11. QED
    BY <1>1, <2>9, <2>10 DEF ProviderInv, Serving
<1>5. QED
  BY <1>2, <1>3, <1>4

(* An answer from elsewhere is honest.                                     *)
LEMMA AnswerHonest ==
    ASSUME ProviderInv, NEW spec \in Configured, AuthenticateRemote(spec)
    PROVE  OutcomeOK(outcome)'
<1> PICK w : w = wired[spec]
  OBVIOUS
<1> PICK f : f = w.of
  OBVIOUS
<1>1. w # NoOutcome /\ f # Own /\ WiredOK(spec, w)
  BY DEF AuthenticateRemote, ProviderInv
<1>2. f \in Files /\ f = owner[spec] /\ w.handle \in DOMAIN opened[f] /\ opened[f][w.handle] = spec
  <2>1. f \in Files /\ f = owner[spec] /\ w.handle \in 1..Len(opened[f]) /\ opened[f][w.handle] = spec
    BY <1>1 DEF WiredOK
  <2>2. DOMAIN opened[f] = 1..Len(opened[f])
    BY <2>1, LenProperties DEF ProviderInv
  <2>3. QED
    BY <2>1, <2>2
<1>3. provider(f, w.handle) = spec
  BY <1>2 DEF provider
<1>4. spec \notin Builtin
  BY <1>1, <1>2 DEF ProviderInv
<1>5. PICK decision \in Decisions :
        outcome' = [of |-> f, spec |-> spec, found |-> spec, decision |-> decision, alive |-> process[f],
                    result |-> clientAnswer(IF ~ process[f] \/ spec[1] # spec[1]
                                            THEN "rpc error" ELSE wireAnswer(decision))]
  BY <1>3 DEF AuthenticateRemote
<1>6. clientAnswer("rpc error") = "unavailable"
  BY DEF clientAnswer
<1>7. clientAnswer(wireAnswer(decision)) # "unavailable" =>
        clientAnswer(wireAnswer(decision)) = IF decision = "accept" THEN "identity" ELSE decision
  <2>1. decision \in {"accept", "second factor", "invalid", "error"}
    BY DEF Decisions
  <2>2. QED
    BY <2>1 DEF clientAnswer, wireAnswer
<1>8. CASE process[f]
  BY <1>4, <1>5, <1>7, <1>8 DEF OutcomeOK
<1>9. CASE ~ process[f]
  <2>1. outcome'.result = "unavailable" /\ outcome'.spec = spec
    BY <1>5, <1>6, <1>9
  <2>2. QED
    BY <1>4, <2>1 DEF OutcomeOK
<1>10. QED
  BY <1>8, <1>9


ModulesInv ==
    /\ EventInv /\ SubscribedInv /\ ProviderInv
    /\ outcome # NoOutcome => OutcomeOK(outcome)

(* The server starts with no event and no provider.                        *)
LEMMA ModulesStart == ModulesInit => ModulesInv
<1> SUFFICES ASSUME ModulesInit PROVE ModulesInv
  OBVIOUS
<1>1. EventInv
  <2>1. published = <<>> /\ finished = {} /\ Len(<<>>) = 0
    BY DEF ModulesInit
  <2>2. \A S : <<>> \in Seq(S)
    OBVIOUS
  <2>3. \A f \in Files : seen[f] = <<>> /\ emitting[f] = 0 /\ queue[f] = <<>>
    BY DEF ModulesInit
  <2>4. LineOK(published, <<>>, 0, <<>>)
    BY <2>1, <2>2 DEF LineOK
  <2>5. \A p \in Publishers : sending[p] = NoOutcome
    BY DEF ModulesInit
  <2>6. /\ seen = [f \in Files |-> seen[f]] /\ emitting = [f \in Files |-> emitting[f]]
        /\ queue = [f \in Files |-> queue[f]] /\ sending = [p \in Publishers |-> sending[p]]
    BY DEF ModulesInit
  <2>7. QED
    BY <2>1, <2>2, <2>3, <2>4, <2>5, <2>6 DEF EventInv
<1>2. SubscribedInv
  BY DEF ModulesInit, SubscribedInv
<1>3. ProviderInv
  <2>1. /\ DOMAIN owner = Builtin \union Configured \union UNION {Range(Gives[f]) : f \in Files}
        /\ \A spec \in DOMAIN owner : owner[spec] = IF spec \in Builtin THEN Own ELSE Nobody
    BY DEF ModulesInit
  <2>2. \A f \in Files : opened[f] = <<>> /\ <<>> \in Seq(Configured)
    BY DEF ModulesInit
  <2>3. \A spec \in Configured : wired[spec] = NoOutcome
    BY DEF ModulesInit
  <2>4. opened = [f \in Files |-> opened[f]] /\ wired = [spec \in Configured |-> wired[spec]]
    BY DEF ModulesInit
  <2>5. QED
    BY <2>1, <2>2, <2>3, <2>4 DEF ProviderInv
<1>4. QED
  BY <1>1, <1>2, <1>3 DEF ModulesInit, ModulesInv

(* Events depend on nothing else.                                          *)
LEMMA EventsStay ==
    ASSUME EventInv, UNCHANGED eventVars
    PROVE  EventInv'
  BY DEF EventInv, eventVars, SendOK

(* Every step of the modules and of the server keeps the invariant.        *)
LEMMA ModulesStep == ModulesInv /\ [ModuleCalls \/ ModuleEvents]_modulesVars => ModulesInv'
<1> SUFFICES ASSUME ModulesInv, [ModuleCalls \/ ModuleEvents]_modulesVars PROVE ModulesInv'
  OBVIOUS
<1>1. EventInv /\ SubscribedInv /\ ProviderInv /\ (outcome # NoOutcome => OutcomeOK(outcome))
  BY DEF ModulesInv
<1>2. ASSUME owner' = owner, opened' = opened, wired' = wired, loading' = loading PROVE ProviderInv'
  BY <1>1, <1>2 DEF ProviderInv, WiredOK, Serving
<1>3. ASSUME subscribed' = subscribed, loading' = loading PROVE SubscribedInv'
  BY <1>1, <1>3 DEF SubscribedInv
<1>4. ASSUME outcome' = outcome PROVE (outcome # NoOutcome => OutcomeOK(outcome))'
  BY <1>1, <1>4 DEF OutcomeOK
<1>5. CASE \E f \in Files : loadModule(f)
  <2>1. PICK f \in Files : loadModule(f)
    BY <1>5
  <2>2. EventInv' /\ (outcome # NoOutcome => OutcomeOK(outcome))'
    BY <1>1, <1>4, <2>1, EventsStay DEF loadModule
  <2>3. QED
    BY <1>1, <2>1, <2>2, LoadSubscribes, LoadKeepsProviders DEF ModulesInv
<1>6. CASE \E f \in Files : Kill(f)
  <2>1. PICK f \in Files : Kill(f)
    BY <1>6
  <2>2. EventInv'
    BY <1>1, <2>1, EventsStay DEF Kill
  <2>3. QED
    BY <1>2, <1>3, <1>4, <2>1, <2>2 DEF Kill, providerVars, ModulesInv
<1>7. CASE \E spec \in Configured : OpenProvider(spec)
  <2>1. PICK spec \in Configured : OpenProvider(spec)
    BY <1>7
  <2>2. EventInv' /\ ProviderInv'
    BY <1>1, <2>1, EventsStay, OpenKeepsProviders DEF OpenProvider
  <2>3. QED
    BY <1>3, <1>4, <2>1, <2>2 DEF OpenProvider, ModulesInv
<1>8. CASE \E spec \in Configured : AuthenticateRemote(spec)
  <2>1. PICK spec \in Configured : AuthenticateRemote(spec)
    BY <1>8
  <2>2. EventInv' /\ OutcomeOK(outcome)'
    BY <1>1, <2>1, EventsStay, AnswerHonest DEF AuthenticateRemote
  <2>3. SubscribedInv' /\ ProviderInv'
    BY <1>2, <1>3, <2>1 DEF AuthenticateRemote
  <2>4. QED
    BY <2>2, <2>3 DEF ModulesInv
<1>9. CASE \E f \in Files : worker(f) \/ dispatch(f)
  <2>1. PICK f \in Files : worker(f) \/ dispatch(f)
    BY <1>9
  <2>2. EventInv'
    BY <1>1, <2>1, WorkerKeeps
  <2>3. QED
    BY <1>2, <1>3, <1>4, <2>1, <2>2 DEF worker, dispatch, providerVars, ModulesInv
<1>10. CASE \E p \in Publishers : BeginPublish(p) \/ OfferEvent(p)
  <2>1. PICK p \in Publishers : BeginPublish(p) \/ OfferEvent(p)
    BY <1>10
  <2>2. EventInv'
    BY <1>1, <2>1, BeginKeeps, SendKeeps
  <2>3. QED
    BY <1>2, <1>3, <1>4, <2>1, <2>2 DEF BeginPublish, OfferEvent, providerVars, ModulesInv
<1>11. CASE UNCHANGED modulesVars
  <2>1. EventInv'
    BY <1>1, <1>11, EventsStay DEF modulesVars, eventVars
  <2>2. QED
    BY <1>2, <1>3, <1>4, <1>11, <2>1 DEF modulesVars, ModulesInv
<1>12. QED
  BY <1>5, <1>6, <1>7, <1>8, <1>9, <1>10, <1>11 DEF ModuleCalls, ModuleEvents

(* What the invariant says of the events a module was given and of the     *)
(* answers it gave.                                                        *)
LEMMA ModulesInvHears == ModulesInv => ModulesHeard
<1> SUFFICES ASSUME ModulesInv PROVE ModulesHeard
  OBVIOUS
<1>1. EventsInOrder
  <2> SUFFICES ASSUME NEW f \in Files, NEW i \in DOMAIN seen[f], NEW j \in DOMAIN seen[f], i < j
               PROVE  seen[f][i] # seen[f][j] /\ seen[f][j] \notin published[seen[f][i]]
    BY DEF EventsInOrder
  <2>1. LineOK(published, seen[f], emitting[f], queue[f])
    BY DEF ModulesInv, EventInv
  <2>2. DOMAIN seen[f] = 1..Len(seen[f])
    BY <2>1, LenProperties DEF LineOK
  <2>3. QED
    BY <2>1, <2>2 DEF LineOK, MayFollow
<1>2. AnswersHonest
  <2>1. ASSUME NEW spec \in Configured, wired[spec] # NoOutcome
        PROVE  wired[spec].of = owner[spec]
                 /\ (wired[spec].of # Own => provider(owner[spec], wired[spec].handle) = spec)
    <3> PICK w : w = wired[spec]
      OBVIOUS
    <3>1. WiredOK(spec, w)
      BY <2>1 DEF ModulesInv, ProviderInv
    <3>2. w.of # Own => w.handle \in DOMAIN opened[w.of]
      <4>1. w.of # Own => opened[w.of] \in Seq(Configured) /\ w.handle \in 1..Len(opened[w.of])
        BY <3>1 DEF ModulesInv, ProviderInv, WiredOK
      <4>2. QED
        BY <4>1, LenProperties
    <3>3. QED
      BY <3>1, <3>2 DEF WiredOK, provider
  <2>2. QED
    BY <2>1 DEF AnswersHonest, ModulesInv, OutcomeOK
<1>3. QED
  BY <1>1, <1>2 DEF ModulesHeard

(* However many modules, publishers and events there are, and whatever     *)
(* queues overflow and processes die: a module is given no event twice and *)
(* none before one that had been published earlier, and a provider's       *)
(* answer is that of the module that owns the name, or none.               *)
THEOREM ModulesAlwaysHeard == ModulesSpec => []ModulesHeard
<1>1. ModulesInit => ModulesInv
  BY ModulesStart
<1>2. ModulesInv /\ [ModuleCalls \/ ModuleEvents]_modulesVars => ModulesInv'
  BY ModulesStep
<1>3. ModulesInv => ModulesHeard
  BY ModulesInvHears
<1>4. QED
  BY <1>1, <1>2, <1>3, PTL DEF ModulesSpec


----------------------------------------------------------------------------
(* The log: what the followers are sent. *)

(* What a follower was sent or is to be sent, when n lines were logged:    *)
(* in order, and from its first line on only those of lost are missing.    *)
StreamOK(all, lost, n) ==
    /\ all \in Seq(Nat)
    /\ \A i \in 1..Len(all) : all[i] <= n
    /\ \A i, j \in 1..Len(all) : i < j => all[i] < all[j]
    /\ all # <<>> => \A x \in all[1]..n : x \in lost \/ \E i \in 1..Len(all) : all[i] = x

FollowerOK(sub, n) ==
    /\ sub = [following |-> sub.following, channel |-> sub.channel, got |-> sub.got, lost |-> sub.lost]
    /\ sub.got \in Seq(Nat) /\ sub.channel \in Seq(Nat)
    /\ sub.following => StreamOK(sub.got \o sub.channel, sub.lost, n)

(* The ring holds the last lines: before next the newest ones, from next   *)
(* on, once it is full, those before them.                                 *)
RingInv ==
    /\ logged \in Nat /\ next \in 1..RingSize /\ full \in BOOLEAN
    /\ ring = [i \in 1..RingSize |-> ring[i]]
    /\ next - 1 <= logged /\ (full => RingSize <= logged)
    /\ \A i \in 1..(next - 1) : ring[i] = logged - (next - 1) + i
    /\ full => \A i \in next..RingSize : ring[i] = logged - RingSize + (i - next) + 1

StreamInv ==
    /\ follower = [f \in Followers |-> follower[f]]
    /\ \A f \in Followers : FollowerOK(follower[f], logged)

(* A line that finds room is the last of what the follower gets.           *)
LEMMA StreamTakes ==
    ASSUME NEW all, NEW lost, NEW n \in Nat, StreamOK(all, lost, n)
    PROVE  StreamOK(Append(all, n + 1), lost, n + 1)
<1> PICK t : t = Append(all, n + 1)
  OBVIOUS
<1>1. all \in Seq(Nat) /\ Len(all) \in Nat /\ n + 1 \in Nat
  BY LenProperties DEF StreamOK
<1>2. t \in Seq(Nat) /\ Len(t) = Len(all) + 1 /\ t[Len(all) + 1] = n + 1
  BY <1>1, AppendProperties
<1>3. \A i \in 1..Len(t) : i = Len(all) + 1 \/ (i \in 1..Len(all) /\ t[i] = all[i])
  BY <1>1, <1>2, AppendProperties
<1>4. \A i \in 1..Len(all) : i \in 1..Len(t) /\ t[i] = all[i]
  BY <1>1, <1>2, AppendProperties
<1>5. \A i \in 1..Len(all) : all[i] \in Nat /\ all[i] <= n
  BY <1>1, ElementOfSeq DEF StreamOK
<1>6. \A i \in 1..Len(t) : t[i] <= n + 1
  BY <1>2, <1>3, <1>5
<1>7. \A i, j \in 1..Len(t) : i < j => t[i] < t[j]
  BY <1>1, <1>2, <1>3, <1>5 DEF StreamOK
<1>8. ASSUME NEW x \in t[1]..(n + 1) PROVE x \in lost \/ \E i \in 1..Len(t) : t[i] = x
  <2>1. CASE x = n + 1
    <3>1. Len(all) + 1 \in 1..Len(t)
      BY <1>1, <1>2
    <3>2. QED
      BY <2>1, <3>1, <1>2
  <2>2. CASE x # n + 1
    <3>1. all # <<>>
      <4>1. SUFFICES ASSUME all = <<>> PROVE FALSE
        OBVIOUS
      <4>2. t[1] = n + 1
        BY <4>1, <1>2
      <4>3. QED
        BY <4>2, <2>2, <1>8
    <3>2. 1 \in 1..Len(all)
      BY <3>1, <1>1, EmptySeq
    <3>3. t[1] = all[1] /\ t[1] \in Nat
      BY <3>2, <1>4, <1>5
    <3>4. x \in all[1]..n
      BY <3>3, <2>2, <1>8
    <3>5. QED
      BY <3>1, <3>4, <1>4 DEF StreamOK
  <2>3. QED
    BY <2>1, <2>2
<1>9. QED
  BY <1>2, <1>6, <1>7, <1>8 DEF StreamOK

(* A line that finds none is one of those lost.                            *)
LEMMA StreamLoses ==
    ASSUME NEW all, NEW lost, NEW n \in Nat, StreamOK(all, lost, n)
    PROVE  StreamOK(all, lost \union {n + 1}, n + 1)
<1>1. all \in Seq(Nat) /\ Len(all) \in Nat
  BY LenProperties DEF StreamOK
<1>2. \A i \in 1..Len(all) : all[i] \in Nat /\ all[i] <= n + 1
  BY <1>1, ElementOfSeq DEF StreamOK
<1>3. ASSUME all # <<>>, NEW x \in all[1]..(n + 1), x # n + 1 PROVE x \in all[1]..n
  <2>1. 1 \in 1..Len(all)
    BY <1>1, <1>3, EmptySeq
  <2>2. all[1] \in Nat
    BY <2>1, <1>2
  <2>3. QED
    BY <2>2, <1>3
<1>4. all # <<>> => \A x \in all[1]..(n + 1) : x \in lost \union {n + 1} \/ \E i \in 1..Len(all) : all[i] = x
  BY <1>3 DEF StreamOK
<1>5. QED
  BY <1>1, <1>2, <1>4 DEF StreamOK

(* Sending the first line of the channel moves it, and nothing else.       *)
LEMMA HeadMoved ==
    ASSUME NEW g \in Seq(Nat), NEW c \in Seq(Nat), c # <<>>
    PROVE  /\ Append(g, Head(c)) \in Seq(Nat) /\ Tail(c) \in Seq(Nat)
           /\ Append(g, Head(c)) \o Tail(c) = g \o c
<1>1. Head(c) \in Nat /\ Tail(c) \in Seq(Nat) /\ Len(c) \in Nat /\ Len(g) \in Nat /\ Len(c) # 0
      /\ Head(c) = c[1] /\ Len(Tail(c)) = Len(c) - 1
  BY HeadTailProperties, LenProperties, EmptySeq
<1> PICK h : h = Append(g, Head(c))
  OBVIOUS
<1>2. h \in Seq(Nat) /\ Len(h) = Len(g) + 1 /\ h[Len(g) + 1] = Head(c) /\ \A i \in 1..Len(g) : h[i] = g[i]
  BY <1>1, AppendProperties
<1> PICK a : a = h \o Tail(c)
  OBVIOUS
<1> PICK b : b = g \o c
  OBVIOUS
<1>3. a \in Seq(Nat) /\ Len(a) = Len(h) + Len(Tail(c))
      /\ \A i \in 1..(Len(h) + Len(Tail(c))) : a[i] = IF i <= Len(h) THEN h[i] ELSE Tail(c)[i - Len(h)]
  BY <1>1, <1>2, ConcatProperties
<1>4. b \in Seq(Nat) /\ Len(b) = Len(g) + Len(c)
      /\ \A i \in 1..(Len(g) + Len(c)) : b[i] = IF i <= Len(g) THEN g[i] ELSE c[i - Len(g)]
  BY ConcatProperties
<1>5. Len(a) = Len(b)
  BY <1>1, <1>2, <1>3, <1>4
<1>6. ASSUME NEW i \in 1..Len(a) PROVE a[i] = b[i]
  <2>1. CASE i <= Len(g)
    BY <2>1, <1>1, <1>2, <1>3, <1>4
  <2>2. CASE i = Len(g) + 1
    <3>1. i - Len(g) = 1 /\ i \in 1..Len(b) /\ ~(i <= Len(g)) /\ i <= Len(h)
      BY <2>2, <1>1, <1>2, <1>5
    <3>2. a[i] = h[i] /\ b[i] = c[1]
      BY <3>1, <1>3, <1>4
    <3>3. QED
      BY <3>2, <2>2, <1>1, <1>2
  <2>3. CASE i > Len(g) + 1
    <3> PICK j : j = i - Len(h)
      OBVIOUS
    <3>1. j \in 1..Len(Tail(c)) /\ i - Len(g) = j + 1 /\ ~(i <= Len(g)) /\ ~(i <= Len(h))
      BY <2>3, <1>1, <1>2, <1>3
    <3>2. a[i] = Tail(c)[j] /\ b[i] = c[j + 1]
      BY <3>1, <1>3, <1>4, <1>5
    <3>3. Tail(c)[j] = c[j + 1]
      BY <3>1, <1>1, HeadTailProperties
    <3>4. QED
      BY <3>2, <3>3
  <2>4. QED
    BY <2>1, <2>2, <2>3, <1>1, <1>3, <1>2
<1>7. a = b
  BY <1>3, <1>4, <1>5, <1>6, SeqEqual
<1>8. QED
  BY <1>1, <1>2, <1>7

(* A line put into the channel comes after everything before it.           *)
LEMMA TailTaken ==
    ASSUME NEW g \in Seq(Nat), NEW c \in Seq(Nat), NEW x \in Nat
    PROVE  g \o Append(c, x) = Append(g \o c, x) /\ Append(c, x) \in Seq(Nat)
<1> PICK d : d = Append(c, x)
  OBVIOUS
<1> PICK b : b = g \o c
  OBVIOUS
<1>1. Len(g) \in Nat /\ Len(c) \in Nat
  BY LenProperties
<1>2. d \in Seq(Nat) /\ Len(d) = Len(c) + 1 /\ d[Len(c) + 1] = x /\ \A i \in 1..Len(c) : d[i] = c[i]
  BY AppendProperties
<1>3. b \in Seq(Nat) /\ Len(b) = Len(g) + Len(c)
      /\ \A i \in 1..(Len(g) + Len(c)) : b[i] = IF i <= Len(g) THEN g[i] ELSE c[i - Len(g)]
  BY ConcatProperties
<1> PICK u : u = g \o d
  OBVIOUS
<1> PICK v : v = Append(b, x)
  OBVIOUS
<1>4. u \in Seq(Nat) /\ Len(u) = Len(g) + Len(d)
      /\ \A i \in 1..(Len(g) + Len(d)) : u[i] = IF i <= Len(g) THEN g[i] ELSE d[i - Len(g)]
  BY <1>2, ConcatProperties
<1>5. v \in Seq(Nat) /\ Len(v) = Len(b) + 1 /\ v[Len(b) + 1] = x /\ \A i \in 1..Len(b) : v[i] = b[i]
  BY <1>3, AppendProperties
<1>6. Len(u) = Len(v)
  BY <1>1, <1>2, <1>3, <1>4, <1>5
<1>7. ASSUME NEW i \in 1..Len(u) PROVE u[i] = v[i]
  <2>1. CASE i <= Len(g)
    BY <2>1, <1>1, <1>2, <1>3, <1>4, <1>5
  <2>2. CASE i > Len(g) /\ i <= Len(g) + Len(c)
    <3> PICK j : j = i - Len(g)
      OBVIOUS
    <3>1. j \in 1..Len(c) /\ i \in 1..Len(b) /\ ~(i <= Len(g))
      BY <2>2, <1>1, <1>3
    <3>2. u[i] = d[j] /\ v[i] = c[j]
      BY <3>1, <1>3, <1>4, <1>5
    <3>3. QED
      BY <3>1, <3>2, <1>2
  <2>3. CASE i = Len(g) + Len(c) + 1
    <3>1. i - Len(g) = Len(c) + 1 /\ ~(i <= Len(g)) /\ i = Len(b) + 1
      BY <2>3, <1>1, <1>3
    <3>2. QED
      BY <3>1, <1>2, <1>4, <1>5
  <2>4. QED
    BY <2>1, <2>2, <2>3, <1>1, <1>2, <1>4
<1>8. u = v
  BY <1>4, <1>5, <1>6, <1>7, SeqEqual
<1>9. QED
  BY <1>2, <1>8


(* Consecutive lines, the last of them m.                                  *)
RunUpTo(s, m) == s \in Seq(Nat) /\ \A i \in 1..Len(s) : s[i] = m - Len(s) + i

(* The last n of a run of consecutive lines up to m are consecutive up to  *)
(* m.                                                                      *)
LEMMA RunCut ==
    ASSUME NEW all, NEW m \in Nat, NEW n \in Nat, n < Len(all), RunUpTo(all, m),
           NEW s, s = SubSeq(all, Len(all) - n + 1, Len(all))
    PROVE  RunUpTo(s, m)
<1>0. all \in Seq(Nat) /\ \A i \in 1..Len(all) : all[i] = m - Len(all) + i
  BY DEF RunUpTo
<1> PICK k : k = Len(all)
  OBVIOUS
<1>1. k \in Nat /\ n < k
  BY <1>0, LenProperties
<1>2. \A i \in (k - n + 1)..k : i \in 1..k /\ all[i] \in Nat
  BY <1>0, <1>1, ElementOfSeq
<1>3. k - n + 1 \in Int /\ k \in Int
  BY <1>1
<1>4. s \in Seq(Nat) /\ Len(s) = (IF k - n + 1 <= k THEN k - (k - n + 1) + 1 ELSE 0)
      /\ \A i \in 1..(k - (k - n + 1) + 1) : s[i] = all[(k - n + 1) + i - 1]
  BY <1>2, <1>3, SubSeqProperties
<1>5. Len(s) = n /\ k - (k - n + 1) + 1 = n
  BY <1>1, <1>4
<1>6. ASSUME NEW i \in 1..n PROVE s[i] = m - n + i
  <2>1. (k - n + 1) + i - 1 = k - n + i /\ k - n + i \in 1..k
    BY <1>1
  <2>2. all[k - n + i] = m - k + (k - n + i)
    BY <2>1, <1>0
  <2>3. QED
    BY <2>1, <2>2, <1>1, <1>4, <1>5
<1>7. QED
  BY <1>4, <1>5, <1>6 DEF RunUpTo

(* A run of the ring, cut out.                                             *)
LEMMA RingCut ==
    ASSUME NEW r, NEW lo \in Int, NEW hi \in Int, NEW c \in Int, lo <= hi + 1,
           \A i \in lo..hi : r[i] = c + i /\ r[i] \in Nat
    PROVE  /\ SubSeq(r, lo, hi) \in Seq(Nat) /\ Len(SubSeq(r, lo, hi)) = hi - lo + 1
           /\ \A i \in 1..(hi - lo + 1) : SubSeq(r, lo, hi)[i] = c + lo + i - 1
<1> PICK s : s = SubSeq(r, lo, hi)
  OBVIOUS
<1>1. s \in Seq(Nat) /\ Len(s) = (IF lo <= hi THEN hi - lo + 1 ELSE 0)
      /\ \A i \in 1..(hi - lo + 1) : s[i] = r[lo + i - 1]
  BY SubSeqProperties
<1>2. Len(s) = hi - lo + 1
  BY <1>1
<1>3. ASSUME NEW i \in 1..(hi - lo + 1) PROVE s[i] = c + lo + i - 1
  <2>1. lo + i - 1 \in lo..hi
    OBVIOUS
  <2>2. r[lo + i - 1] = c + (lo + i - 1)
    BY <2>1
  <2>3. QED
    BY <1>1, <2>2
<1>4. QED
  BY <1>1, <1>2, <1>3

(* Two runs that follow each other are one.                                *)
LEMMA RunsJoined ==
    ASSUME NEW m \in Nat, NEW a \in Seq(Nat), NEW b \in Seq(Nat),
           \A i \in 1..Len(a) : a[i] = m - (Len(a) + Len(b)) + i,
           \A i \in 1..Len(b) : b[i] = m - Len(b) + i
    PROVE  RunUpTo(a \o b, m)
<1> PICK p : p = Len(a)
  OBVIOUS
<1> PICK q : q = Len(b)
  OBVIOUS
<1>0. p \in Nat /\ q \in Nat
  BY LenProperties
<1>1. a \o b \in Seq(Nat) /\ Len(a \o b) = p + q
      /\ \A i \in 1..(p + q) : (a \o b)[i] = IF i <= p THEN a[i] ELSE b[i - p]
  BY ConcatProperties
<1>2. ASSUME NEW i \in 1..(p + q) PROVE (a \o b)[i] = m - (p + q) + i
  <2>1. CASE i <= p
    <3>1. i \in 1..p
      BY <2>1, <1>0
    <3>2. QED
      BY <2>1, <3>1, <1>0, <1>1
  <2>2. CASE ~ (i <= p)
    <3>1. i - p \in 1..q
      BY <2>2, <1>0
    <3>2. b[i - p] = m - q + (i - p)
      BY <3>1
    <3>3. QED
      BY <2>2, <3>2, <1>0, <1>1
  <2>3. QED
    BY <2>1, <2>2
<1>3. QED
  BY <1>1, <1>2 DEF RunUpTo

(* Cutting a run to its last n lines, or leaving it.                       *)
LEMMA RunLast ==
    ASSUME NEW all, NEW m \in Nat, NEW n \in Nat, RunUpTo(all, m),
           NEW s, s = IF n < Len(all) THEN SubSeq(all, Len(all) - n + 1, Len(all)) ELSE all
    PROVE  RunUpTo(s, m)
<1>1. CASE n < Len(all)
  <2>1. s = SubSeq(all, Len(all) - n + 1, Len(all))
    BY <1>1
  <2>2. QED
    BY <1>1, <2>1, RunCut
<1>2. CASE ~ (n < Len(all))
  <2>1. s = all
    BY <1>2
  <2>2. QED
    BY <2>1
<1>3. QED
  BY <1>1, <1>2

(* What the ring holds is a run of consecutive lines up to the last one.   *)
LEMMA SnapshotIsRun ==
    ASSUME RingInv, NEW n \in Nat
    PROVE  RunUpTo(snapshotLocked(n), logged)
<1>1. /\ logged \in Nat /\ RingSize \in Nat \ {0} /\ next \in 1..RingSize
      /\ next - 1 <= logged /\ (full => RingSize <= logged)
      /\ \A i \in 1..(next - 1) : ring[i] = logged - (next - 1) + i
      /\ full => \A i \in next..RingSize : ring[i] = logged - RingSize + (i - next) + 1
  BY LogAssumption DEF RingInv
<1> DEFINE p == RingSize - next + 1
           q == next - 1
           new == SubSeq(ring, 1, q)
           old == SubSeq(ring, next, RingSize)
           all == (IF full THEN old ELSE <<>>) \o new
<1>2. p \in Nat /\ q \in Nat /\ p + q = RingSize
  BY <1>1
<1>3. new \in Seq(Nat) /\ Len(new) = q /\ \A i \in 1..q : new[i] = logged - q + i
  <2>1. logged - q \in Int /\ 1 <= q + 1 /\ \A i \in 1..q : ring[i] = (logged - q) + i /\ ring[i] \in Nat
    BY <1>1
  <2>2. new \in Seq(Nat) /\ Len(new) = q - 1 + 1 /\ \A i \in 1..(q - 1 + 1) : new[i] = (logged - q) + 1 + i - 1
    BY <2>1, <1>1, RingCut
  <2> HIDE DEF new
  <2>3. q - 1 + 1 = q /\ \A i \in 1..q : (logged - q) + 1 + i - 1 = logged - q + i
    BY <1>1
  <2>4. QED
    BY <2>2, <2>3
<1>4. full => old \in Seq(Nat) /\ Len(old) = p /\ \A i \in 1..p : old[i] = logged - (p + q) + i
  <2>1. SUFFICES ASSUME full PROVE old \in Seq(Nat) /\ Len(old) = p /\ \A i \in 1..p : old[i] = logged - (p + q) + i
    OBVIOUS
  <2> DEFINE c == logged - RingSize - next + 1
  <2>2. c \in Int /\ next <= RingSize + 1 /\ \A i \in next..RingSize : ring[i] = c + i /\ ring[i] \in Nat
    BY <1>1, <2>1
  <2>3. old \in Seq(Nat) /\ Len(old) = p /\ \A i \in 1..p : old[i] = c + next + i - 1
    <3> HIDE DEF c
    <3>1. QED
      BY <2>2, <1>1, RingCut
  <2> HIDE DEF old
  <2>4. \A i \in 1..p : c + next + i - 1 = logged - (p + q) + i
    BY <1>1
  <2>5. QED
    BY <2>3, <2>4
<1>5. snapshotLocked(n) = IF n < Len(all) THEN SubSeq(all, Len(all) - n + 1, Len(all)) ELSE all
  BY DEF snapshotLocked
<1> HIDE DEF new, old
<1>6. RunUpTo(all, logged)
  <2>1. CASE ~ full
    <3>1. all = new
      BY <2>1, <1>3, ConcatEmptySeq
    <3> HIDE DEF all
    <3>2. RunUpTo(new, logged)
      BY <1>3 DEF RunUpTo
    <3>3. QED
      BY <3>1, <3>2
  <2>2. CASE full
    <3>1. all = old \o new
      BY <2>2
    <3>2. /\ old \in Seq(Nat) /\ \A i \in 1..Len(old) : old[i] = logged - (Len(old) + Len(new)) + i
          /\ \A i \in 1..Len(new) : new[i] = logged - Len(new) + i
      BY <2>2, <1>3, <1>4
    <3> HIDE DEF all
    <3>3. QED
      BY <3>1, <3>2, <1>1, <1>3, RunsJoined
  <2>3. QED
    BY <2>1, <2>2
<1> HIDE DEF all
<1>7. QED
  BY <1>1, <1>5, <1>6, RunLast

(* A run of consecutive lines up to the last one misses none.              *)
LEMMA RunIsStream ==
    ASSUME NEW m \in Nat, NEW s, RunUpTo(s, m)
    PROVE  StreamOK(s, {}, m)
<1>1. Len(s) \in Nat /\ s \in Seq(Nat) /\ \A i \in 1..Len(s) : s[i] = m - Len(s) + i
  BY LenProperties DEF RunUpTo
<1>2. (\A i \in 1..Len(s) : s[i] <= m) /\ (\A i, j \in 1..Len(s) : i < j => s[i] < s[j])
  BY <1>1
<1>3. ASSUME s # <<>>, NEW x \in s[1]..m PROVE \E i \in 1..Len(s) : s[i] = x
  <2>1. Len(s) # 0
    BY <1>3, EmptySeq
  <2>2. s[1] = m - Len(s) + 1
    BY <2>1, <1>1
  <2> PICK i : i = x - m + Len(s)
    OBVIOUS
  <2>3. i \in 1..Len(s) /\ m - Len(s) + i = x
    BY <2>2, <1>1, <1>3
  <2>4. QED
    BY <2>3, <1>1
<1>4. QED
  BY <1>1, <1>2, <1>3 DEF StreamOK


(* The slot after the last one is the first.                               *)
LEMMA RingTurns == \A R \in Nat \ {0} : R % R = 0
  OBVIOUS

(* A line goes to the ring.                                                *)
LEMMA PublishKeepsRing ==
    ASSUME RingInv, NEW h \in Loggers, publish(h)
    PROVE  RingInv'
<1> PICK R : R = RingSize
  OBVIOUS
<1> PICK x : x = next
  OBVIOUS
<1> PICK m : m = logged
  OBVIOUS
<1>1. R \in Nat \ {0} /\ x \in 1..R /\ m \in Nat /\ x - 1 <= m /\ (full => R <= m)
  BY LogAssumption DEF RingInv
<1>2. logged' = m + 1 /\ ring' = [ring EXCEPT ![x] = m + 1] /\ next' = (x % R) + 1 /\ full' = (full \/ next' = 1)
  BY DEF publish
<1>3. \A i \in 1..R : ring'[i] = IF i = x THEN m + 1 ELSE ring[i]
  BY <1>2 DEF RingInv
<1>4. /\ \A i \in 1..(x - 1) : ring[i] = m - (x - 1) + i
      /\ full => \A i \in x..R : ring[i] = m - R + (i - x) + 1
  BY DEF RingInv
<1>5. ring' = [i \in 1..R |-> ring'[i]]
  BY <1>2 DEF RingInv
<1>6. CASE x < R
  <2>1. next' = x + 1 /\ full' = full
    BY <1>1, <1>2, <1>6 DEF RingInv
  <2>2. \A i \in 1..x : ring'[i] = (m + 1) - x + i
    BY <1>1, <1>3, <1>4
  <2>3. full => \A i \in (x + 1)..R : ring'[i] = (m + 1) - R + (i - (x + 1)) + 1
    BY <1>1, <1>3, <1>4
  <2>4. QED
    BY <1>1, <1>2, <1>5, <1>6, <2>1, <2>2, <2>3 DEF RingInv
<1>7. CASE x = R
  <2>1. next' = 1 /\ full' = TRUE
    <3>1. x % R = 0
      BY <1>1, <1>7, RingTurns
    <3>2. next' = 1
      BY <3>1, <1>2
    <3>3. QED
      BY <3>2, <1>2 DEF RingInv
  <2>2. \A i \in 1..R : ring'[i] = (m + 1) - R + (i - 1) + 1
    BY <1>1, <1>3, <1>4, <1>7
  <2>3. R <= m + 1
    BY <1>1, <1>7
  <2>4. logged' = m + 1 /\ logged' \in Nat /\ 1 \in 1..R /\ next' - 1 <= logged' /\ (full' => R <= logged')
    BY <1>1, <1>2, <2>1, <2>3
  <2>5. \A i \in 1..(next' - 1) : FALSE
    BY <2>1
  <2>6. \A i \in next'..R : ring'[i] = logged' - R + (i - next') + 1
    BY <2>1, <2>2, <2>4
  <2>7. QED
    BY <1>5, <2>1, <2>4, <2>5, <2>6 DEF RingInv
<1>8. QED
  BY <1>1, <1>6, <1>7

(* And to the channels of those who follow.                                *)
LEMMA OfferedKeeps ==
    ASSUME NEW n \in Nat, NEW sub, FollowerOK(sub, n)
    PROVE  FollowerOK(OfferedLine(sub, n + 1), n + 1)
<1> PICK t : t = OfferedLine(sub, n + 1)
  OBVIOUS
<1>1. sub = [following |-> sub.following, channel |-> sub.channel, got |-> sub.got, lost |-> sub.lost]
      /\ sub.got \in Seq(Nat) /\ sub.channel \in Seq(Nat)
  BY DEF FollowerOK
<1>2. CASE ~ sub.following
  <2>1. t = sub
    BY <1>2 DEF OfferedLine
  <2>2. QED
    BY <1>2, <2>1 DEF FollowerOK
<1>3. CASE sub.following /\ Len(sub.channel) < ChannelSize
  <2>1. t = [following |-> sub.following, channel |-> Append(sub.channel, n + 1), got |-> sub.got, lost |-> sub.lost]
    BY <1>1, <1>3 DEF OfferedLine
  <2>2. StreamOK(sub.got \o sub.channel, sub.lost, n)
    BY <1>3 DEF FollowerOK
  <2>3. StreamOK(Append(sub.got \o sub.channel, n + 1), sub.lost, n + 1)
    BY <2>2, StreamTakes
  <2>4. sub.got \o Append(sub.channel, n + 1) = Append(sub.got \o sub.channel, n + 1)
        /\ Append(sub.channel, n + 1) \in Seq(Nat)
    <3>1. n + 1 \in Nat
      OBVIOUS
    <3>2. QED
      BY <3>1, <1>1, TailTaken
  <2>5. t.channel = Append(sub.channel, n + 1) /\ t.got = sub.got /\ t.lost = sub.lost
    BY <2>1
  <2>6. StreamOK(t.got \o t.channel, t.lost, n + 1)
    BY <2>3, <2>4, <2>5
  <2>7. t = [following |-> t.following, channel |-> t.channel, got |-> t.got, lost |-> t.lost]
    BY <2>1
  <2>8. QED
    BY <1>1, <2>4, <2>5, <2>6, <2>7 DEF FollowerOK
<1>4. CASE sub.following /\ ~ (Len(sub.channel) < ChannelSize)
  <2>1. t = [following |-> sub.following, channel |-> sub.channel, got |-> sub.got,
             lost |-> sub.lost \union {n + 1}]
    BY <1>1, <1>4 DEF OfferedLine
  <2>2. StreamOK(sub.got \o sub.channel, sub.lost \union {n + 1}, n + 1)
    BY <1>4, StreamLoses DEF FollowerOK
  <2>3. t.channel = sub.channel /\ t.got = sub.got /\ t.lost = sub.lost \union {n + 1}
    BY <2>1
  <2>4. t = [following |-> t.following, channel |-> t.channel, got |-> t.got, lost |-> t.lost]
    BY <2>1
  <2>5. QED
    BY <1>1, <2>2, <2>3, <2>4 DEF FollowerOK
<1>5. QED
  BY <1>2, <1>3, <1>4

(* One follower's subscription changes.                                    *)
LEMMA FollowerChanged ==
    ASSUME StreamInv, NEW f \in Followers, NEW sub, FollowerOK(sub, logged),
           follower' = [follower EXCEPT ![f] = sub], logged' = logged
    PROVE  StreamInv'
<1>1. \A g \in Followers : follower'[g] = IF g = f THEN sub ELSE follower[g]
  BY DEF StreamInv
<1>2. \A g \in Followers : FollowerOK(follower'[g], logged)
  BY <1>1 DEF StreamInv
<1>3. follower' = [g \in Followers |-> follower'[g]]
  BY DEF StreamInv
<1>4. QED
  BY <1>2, <1>3 DEF StreamInv

(* Nobody follows, or the one who follows begins with what the ring holds. *)
LEMMA SubscribedOK ==
    ASSUME NEW n \in Nat
    PROVE  /\ FollowerOK(NotFollowing, n)
           /\ \A s : RunUpTo(s, n) =>
                FollowerOK([following |-> TRUE, channel |-> <<>>, got |-> s, lost |-> {}], n)
<1>1. <<>> \in Seq(Nat)
  OBVIOUS
<1>2. FollowerOK(NotFollowing, n)
  BY <1>1 DEF FollowerOK, NotFollowing
<1>3. ASSUME NEW s, RunUpTo(s, n)
      PROVE  FollowerOK([following |-> TRUE, channel |-> <<>>, got |-> s, lost |-> {}], n)
  <2> PICK t : t = [following |-> TRUE, channel |-> <<>>, got |-> s, lost |-> {}]
    OBVIOUS
  <2>1. s \in Seq(Nat) /\ StreamOK(s, {}, n)
    BY <1>3, RunIsStream DEF RunUpTo
  <2>2. s \o <<>> = s
    BY <2>1, ConcatEmptySeq
  <2>3. t.got = s /\ t.channel = <<>> /\ t.lost = {}
        /\ t = [following |-> t.following, channel |-> t.channel, got |-> t.got, lost |-> t.lost]
    OBVIOUS
  <2>4. StreamOK(t.got \o t.channel, t.lost, n)
    BY <2>1, <2>2, <2>3
  <2>5. FollowerOK(t, n)
    BY <1>1, <2>1, <2>3, <2>4 DEF FollowerOK
  <2>6. QED
    BY <2>5
<1>4. QED
  BY <1>2, <1>3

(* Every step keeps what the followers have.                               *)
LEMMA StreamStep ==
    ASSUME RingInv, StreamInv, LogNext
    PROVE  RingInv' /\ StreamInv'
<1>1. logged \in Nat
  BY DEF RingInv
<1>2. ASSUME NEW h \in Loggers, publish(h) PROVE RingInv' /\ StreamInv'
  <2>1. logged' = logged + 1 /\ follower' = [f \in Followers |-> OfferedLine(follower[f], logged + 1)]
    BY <1>2 DEF publish
  <2>2. \A f \in Followers : FollowerOK(follower'[f], logged + 1)
    BY <1>1, <2>1, OfferedKeeps DEF StreamInv
  <2>3. follower' = [f \in Followers |-> follower'[f]]
    BY <2>1
  <2>4. StreamInv'
    BY <2>1, <2>2, <2>3 DEF StreamInv
  <2>5. QED
    BY <1>2, <2>4, PublishKeepsRing
<1>3. ASSUME UNCHANGED <<ring, next, full, logged>> PROVE RingInv'
  BY <1>3 DEF RingInv
<1>4. ASSUME NEW h \in Loggers, Write(h) PROVE RingInv' /\ StreamInv'
  BY <1>3, <1>4 DEF Write, busVars, StreamInv
<1>5. ASSUME NEW f \in Followers, Subscribe(f) PROVE RingInv' /\ StreamInv'
  <2>1. RunUpTo(snapshotLocked(Backscroll), logged)
    BY SnapshotIsRun, LogAssumption
  <2> PICK s : s = snapshotLocked(Backscroll)
    OBVIOUS
  <2>2. FollowerOK([following |-> TRUE, channel |-> <<>>, got |-> s, lost |-> {}], logged)
    BY <1>1, <2>1, SubscribedOK
  <2>3. follower' = [follower EXCEPT ![f] = [following |-> TRUE, channel |-> <<>>, got |-> s, lost |-> {}]]
    BY <1>5 DEF Subscribe
  <2>4. QED
    BY <1>3, <1>5, <2>2, <2>3, FollowerChanged DEF Subscribe
<1>6. ASSUME NEW f \in Followers, StreamLogs(f) PROVE RingInv' /\ StreamInv'
  <2> PICK u : u = follower[f]
    OBVIOUS
  <2>1. FollowerOK(u, logged) /\ u.channel # <<>> /\ u.following
    BY <1>6 DEF StreamLogs, StreamInv
  <2>2. u = [following |-> u.following, channel |-> u.channel, got |-> u.got, lost |-> u.lost]
        /\ u.got \in Seq(Nat) /\ u.channel \in Seq(Nat) /\ StreamOK(u.got \o u.channel, u.lost, logged)
    BY <2>1 DEF FollowerOK
  <2> PICK t : t = [following |-> u.following, channel |-> Tail(u.channel),
                    got |-> Append(u.got, Head(u.channel)), lost |-> u.lost]
    OBVIOUS
  <2>3. follower' = [follower EXCEPT ![f] = t]
    BY <1>6 DEF StreamLogs
  <2>4. t.following = u.following /\ t.channel = Tail(u.channel) /\ t.got = Append(u.got, Head(u.channel))
        /\ t.lost = u.lost /\ t = [following |-> t.following, channel |-> t.channel, got |-> t.got, lost |-> t.lost]
    OBVIOUS
  <2>5. t.got \in Seq(Nat) /\ t.channel \in Seq(Nat) /\ t.got \o t.channel = u.got \o u.channel
    BY <2>1, <2>2, <2>4, HeadMoved
  <2>6. FollowerOK(t, logged)
    BY <2>2, <2>4, <2>5 DEF FollowerOK
  <2>7. QED
    BY <1>3, <1>6, <2>3, <2>6, FollowerChanged DEF StreamLogs
<1>7. ASSUME NEW f \in Followers, Cancel(f) PROVE RingInv' /\ StreamInv'
  <2>1. FollowerOK(NotFollowing, logged)
    BY <1>1, SubscribedOK
  <2>2. QED
    BY <1>3, <1>7, <2>1, FollowerChanged DEF Cancel
<1>8. ASSUME LogRestart PROVE RingInv' /\ StreamInv'
  <2>1. RingInv'
    <3>1. /\ logged' = logged /\ next' = 1 /\ full' = FALSE
          /\ ring' = [i \in 1..RingSize |-> NoLogLine] /\ RingSize \in Nat \ {0}
      BY <1>8, LogAssumption DEF LogRestart
    <3>2. next' \in 1..RingSize /\ next' - 1 = 0 /\ next' - 1 <= logged'
      BY <1>1, <3>1
    <3>3. ring' = [i \in 1..RingSize |-> ring'[i]]
      BY <3>1
    <3>4. \A i \in 1..(next' - 1) : ring'[i] = logged' - (next' - 1) + i
      BY <3>2
    <3>5. logged' \in Nat /\ ~ full' /\ full' \in BOOLEAN
      BY <1>1, <3>1
    <3>6. QED
      BY <3>2, <3>3, <3>4, <3>5 DEF RingInv
  <2>2. FollowerOK(NotFollowing, logged)
    BY <1>1, SubscribedOK
  <2>3. StreamInv'
    BY <1>8, <2>2 DEF LogRestart, StreamInv
  <2>4. QED
    BY <2>1, <2>3
<1>9. ASSUME LogTick PROVE RingInv' /\ StreamInv'
  BY <1>3, <1>9 DEF LogTick, busVars, StreamInv
<1>10. QED
  BY <1>2, <1>4, <1>5, <1>6, <1>7, <1>8, <1>9 DEF LogNext

(* What a follower has says which lines it missed.                         *)
LEMMA StreamSays ==
    ASSUME NEW all, NEW lost, NEW n \in Nat, StreamOK(all, lost, n), all # <<>>
    PROVE  /\ \A i, j \in DOMAIN all : i < j => all[i] < all[j]
           /\ (all[1]..Last(all)) \ Range(all) \subseteq lost
<1>1. all \in Seq(Nat) /\ Len(all) \in Nat /\ DOMAIN all = 1..Len(all) /\ Len(all) # 0
  BY LenProperties, EmptySeq DEF StreamOK
<1>2. Last(all) = all[Len(all)] /\ Len(all) \in 1..Len(all) /\ 1 \in 1..Len(all)
  BY <1>1 DEF Last
<1>3. \A i \in 1..Len(all) : all[i] \in Nat /\ all[i] <= n
  BY <1>1, ElementOfSeq DEF StreamOK
<1>4. ASSUME NEW x \in all[1]..Last(all), x \notin lost PROVE x \in Range(all)
  <2>1. x \in all[1]..n
    BY <1>2, <1>3, <1>4
  <2>2. PICK i \in 1..Len(all) : all[i] = x
    BY <2>1, <1>4 DEF StreamOK
  <2>3. QED
    BY <2>2, <1>1 DEF Range
<1>5. QED
  BY <1>1, <1>4 DEF StreamOK

(* What the invariant says of a console that follows.                      *)
LEMMA StreamInvCompletes == RingInv /\ StreamInv => StreamComplete
<1> SUFFICES ASSUME RingInv, StreamInv, NEW f \in Followers, follower[f].following,
                    follower[f].got \o follower[f].channel # <<>>
             PROVE  LET all == follower[f].got \o follower[f].channel
                    IN  /\ \A i, j \in DOMAIN all : i < j => all[i] < all[j]
                        /\ (all[1]..Last(all)) \ Range(all) \subseteq follower[f].lost
  BY DEF StreamComplete
<1>1. StreamOK(follower[f].got \o follower[f].channel, follower[f].lost, logged) /\ logged \in Nat
  BY DEF RingInv, StreamInv, FollowerOK
<1>2. QED
  BY <1>1, StreamSays


----------------------------------------------------------------------------
(* The log: what the files keep. *)

ArchiveInv ==
    /\ stamp \in Nat
    /\ archive = [a \in DOMAIN archive |-> archive[a]]
    /\ DOMAIN archive \subseteq Nat \X Nat /\ IsFiniteSet(DOMAIN archive)
    /\ writer = [state |-> writer.state, lines |-> writer.lines, modified |-> writer.modified]

(* A finite set has no room for as many different values as a larger one   *)
(* has elements.                                                           *)
LEMMA NoRoom ==
    ASSUME NEW S, IsFiniteSet(S), NEW D, IsFiniteSet(D), Cardinality(D) < Cardinality(S), NEW g \in [S -> D],
           \A x, y \in S : x # y => g[x] # g[y]
    PROVE  FALSE
  BY FS_PigeonHole

(* Of n + 1 names of one second, a directory of n files leaves one free.   *)
LEMMA NameFree ==
    ASSUME NEW D, IsFiniteSet(D), NEW t
    PROVE  \E n \in 0..Cardinality(D) : <<t, n>> \notin D
<1> SUFFICES ASSUME \A n \in 0..Cardinality(D) : <<t, n>> \in D PROVE FALSE
  OBVIOUS
<1>1. Cardinality(D) \in Nat
  BY FS_CardinalityType
<1>2. PICK S : S = 0..Cardinality(D)
  OBVIOUS
<1>3. IsFiniteSet(S) /\ Cardinality(D) < Cardinality(S)
  BY <1>1, <1>2, FS_Interval
<1>4. PICK g : g = [n \in S |-> <<t, n>>]
  OBVIOUS
<1>5. g \in [S -> D]
  BY <1>2, <1>4
<1>6. \A x, y \in S : x # y => g[x] # g[y]
  BY <1>4
<1>7. QED
  BY <1>3, <1>5, <1>6, NoRoom

(* A set of numbers from 0 on that is not empty has a smallest one.        *)
LEMMA SmallestChosen ==
    ASSUME NEW c \in Nat, NEW T, T \subseteq 0..c, T # {}
    PROVE  Min(T) \in T
<1>1. PICK R : R = OpToRel(<, Nat)
  OBVIOUS
<1>2. IsWellFoundedOn(R, Nat)
  BY <1>1, NatLessThanWellFounded
<1>3. T \subseteq Nat
  OBVIOUS
<1>4. PICK m \in T : \A y \in T : ~ (<<y, m>> \in R)
  BY <1>2, <1>3, WFMin
<1>5. \A y \in T : y < m => <<y, m>> \in R
  BY <1>1, <1>3 DEF OpToRel
<1>6. ASSUME NEW y \in T PROVE m <= y
  <2>1. y \in Nat /\ m \in Nat /\ ~ (y < m)
    BY <1>3, <1>4, <1>5
  <2>2. QED
    BY <2>1
<1>7. QED
  BY <1>6 DEF Min

(* The name of the file moved aside is free.                               *)
LEMMA RotatedNameFree ==
    ASSUME ArchiveInv
    PROVE  rotatedName \notin DOMAIN archive /\ rotatedName \in Nat \X Nat
<1> PICK D : D = DOMAIN archive
  OBVIOUS
<1> PICK c : c = Cardinality(D)
  OBVIOUS
<1> PICK T : T = {n \in 0..c : <<stamp, n>> \notin D}
  OBVIOUS
<1>1. IsFiniteSet(D) /\ c \in Nat /\ stamp \in Nat
  BY FS_CardinalityType DEF ArchiveInv
<1>2. T # {} /\ T \subseteq 0..c
  BY <1>1, NameFree
<1>3. Min(T) \in T
  BY <1>1, <1>2, SmallestChosen
<1>4. rotatedName = <<stamp, Min(T)>>
  BY DEF rotatedName
<1>5. QED
  BY <1>1, <1>3, <1>4

(* A file that prune removes for its place is beside Keep others that are  *)
(* as new.                                                                 *)
LEMMA PrunedBeside ==
    ASSUME NEW D, D \subseteq Nat \X Nat, IsFiniteSet(D), NEW a \in D,
           Cardinality({b \in D : Before(a, b)}) >= Keep
    PROVE  Cardinality({b \in D \ {a} : b[1] >= a[1]}) >= Keep
<1> PICK S : S = {b \in D \ {a} : b[1] >= a[1]}
  OBVIOUS
<1> PICK T : T = {b \in D : Before(a, b)}
  OBVIOUS
<1>1. IsFiniteSet(S)
  BY FS_Subset
<1>2. \A b \in D : b[1] \in Nat /\ b[2] \in Nat
  OBVIOUS
<1>3. \A b \in D : Before(a, b) => b # a /\ b[1] >= a[1]
  BY <1>2 DEF Before
<1>4. T \subseteq S
  BY <1>3
<1>5. Cardinality(T) <= Cardinality(S) /\ IsFiniteSet(T)
  BY <1>1, <1>4, FS_Subset
<1>6. Cardinality(T) \in Nat /\ Cardinality(S) \in Nat /\ Keep \in Nat
  BY <1>1, <1>5, FS_CardinalityType, LogAssumption
<1>7. QED
  BY <1>5, <1>6

(* Where the lines are.                                                    *)
Kept(x) == \/ x \in writer.lines
           \/ \E a \in DOMAIN archive : x \in archive[a].lines
           \/ \E p \in pruned : x \in p.file.lines
PrunedRightly(p) == \/ p.file.modified < p.at - MaxAge
                    \/ Cardinality({a \in p.among \ {p.name} : a[1] >= p.name[1]}) >= Keep
FileInv == ArchiveInv /\ (\A x \in acknowledged : Kept(x)) /\ (\A p \in pruned : PrunedRightly(p))

(* Moving the file aside loses none of its lines and none of the others'.  *)
LEMMA AsideKeeps ==
    ASSUME FileInv
    PROVE  /\ DOMAIN Aside = DOMAIN archive \union {rotatedName}
           /\ Aside[rotatedName] = [lines |-> writer.lines, modified |-> writer.modified]
           /\ \A a \in DOMAIN archive : Aside[a] = archive[a]
           /\ DOMAIN Aside \subseteq Nat \X Nat /\ IsFiniteSet(DOMAIN Aside)
<1>1. rotatedName \notin DOMAIN archive /\ rotatedName \in Nat \X Nat
  BY RotatedNameFree DEF FileInv
<1> PICK n : n = rotatedName
  OBVIOUS
<1>2. Aside = [name \in DOMAIN archive \union {n} |->
                 IF name = n THEN [lines |-> writer.lines, modified |-> writer.modified] ELSE archive[name]]
  BY DEF Aside
<1>3. IsFiniteSet(DOMAIN archive \union {n})
  BY FS_AddElement DEF FileInv, ArchiveInv
<1>4. QED
  BY <1>1, <1>2, <1>3 DEF FileInv, ArchiveInv


(* Every way a write can end keeps the lines the file took.                *)
LEMMA WriteKeeps ==
    ASSUME FileInv, NEW h \in Loggers, Write(h)
    PROVE  FileInv'
<1> PICK line : line = pending[h]
  OBVIOUS
<1> PICK w : w = writer
  OBVIOUS
<1>0. stamp' = stamp /\ stamp \in Nat
  BY DEF Write, FileInv, ArchiveInv
<1>1. \A x \in acknowledged : Kept(x)
  BY DEF FileInv
<1>2. ASSUME NEW took,
             /\ writer' = [state |-> "open", lines |-> w.lines \union took, modified |-> stamp]
             /\ acknowledged' = acknowledged \union took
             /\ archive' = archive /\ pruned' = pruned
      PROVE  FileInv'
  <2>1. writer'.lines = w.lines \union took /\ ArchiveInv'
    BY <1>0, <1>2 DEF FileInv, ArchiveInv
  <2>2. \A x \in acknowledged' : Kept(x)'
    BY <1>1, <1>2, <2>1 DEF Kept
  <2>3. QED
    BY <1>2, <2>1, <2>2 DEF FileInv, PrunedRightly
<1>3. ASSUME NEW took,
           /\ archive' = [a \in DOMAIN Aside \ prune(Aside) |-> Aside[a]]
           /\ pruned' = pruned \union {[name |-> a, file |-> Aside[a], at |-> stamp,
                                        among |-> DOMAIN Aside] : a \in prune(Aside)}
           /\ writer' = [state |-> "open", lines |-> took, modified |-> stamp]
           /\ acknowledged' = acknowledged \union took
      PROVE  FileInv'
  <2> PICK n : n = rotatedName
    OBVIOUS
  <2> PICK A : A = Aside
    OBVIOUS
  <2> PICK gone : gone = prune(Aside)
    OBVIOUS
  <2>1. /\ DOMAIN A = DOMAIN archive \union {n} /\ A[n].lines = w.lines
        /\ \A a \in DOMAIN archive : A[a] = archive[a]
        /\ DOMAIN A \subseteq Nat \X Nat /\ IsFiniteSet(DOMAIN A)
    BY AsideKeeps
  <2>2. archive' = [a \in DOMAIN A \ gone |-> A[a]] /\ writer'.lines = took
    BY <1>3
  <2>3. \A a \in gone : [name |-> a, file |-> A[a], at |-> stamp, among |-> DOMAIN A] \in pruned'
    BY <1>3
  <2>4. ASSUME NEW x, NEW a \in DOMAIN A, x \in A[a].lines PROVE Kept(x)'
    <3>1. CASE a \in gone
      <4> PICK p : p = [name |-> a, file |-> A[a], at |-> stamp, among |-> DOMAIN A]
        OBVIOUS
      <4>1. p \in pruned' /\ p.file = A[a]
        BY <3>1, <2>3
      <4>2. QED
        BY <4>1, <2>4 DEF Kept
    <3>2. CASE a \notin gone
      <4>1. a \in DOMAIN archive' /\ archive'[a] = A[a]
        BY <3>2, <2>2
      <4>2. QED
        BY <4>1, <2>4 DEF Kept
    <3>3. QED
      BY <3>1, <3>2
  <2>5. \A p \in pruned : p \in pruned'
    BY <1>3
  <2>6. \A x \in acknowledged' : Kept(x)'
    <3>1. SUFFICES ASSUME NEW x \in acknowledged' PROVE Kept(x)'
      OBVIOUS
    <3>2. CASE x \in took
      BY <3>2, <2>2 DEF Kept
    <3>3. CASE x \in acknowledged
      <4>1. Kept(x)
        BY <3>3, <1>1
      <4>2. CASE x \in writer.lines
        BY <4>2, <2>1, <2>4
      <4>3. CASE \E a \in DOMAIN archive : x \in archive[a].lines
        BY <4>3, <2>1, <2>4
      <4>4. CASE \E p \in pruned : x \in p.file.lines
        BY <4>4, <2>5 DEF Kept
      <4>5. QED
        BY <4>1, <4>2, <4>3, <4>4 DEF Kept
    <3>4. QED
      BY <1>3, <3>2, <3>3
  <2>7. ASSUME NEW a \in gone PROVE PrunedRightly([name |-> a, file |-> A[a], at |-> stamp, among |-> DOMAIN A])
    <3> PICK p : p = [name |-> a, file |-> A[a], at |-> stamp, among |-> DOMAIN A]
      OBVIOUS
    <3>1. p.name = a /\ p.file = A[a] /\ p.at = stamp /\ p.among = DOMAIN A
      OBVIOUS
    <3>2. a \in DOMAIN A /\ (Cardinality({b \in DOMAIN A : Before(a, b)}) >= Keep \/ A[a].modified < stamp - MaxAge)
      BY DEF prune
    <3>3. CASE A[a].modified < stamp - MaxAge
      BY <3>1, <3>3 DEF PrunedRightly
    <3>4. CASE Cardinality({b \in DOMAIN A : Before(a, b)}) >= Keep
      <4>1. Cardinality({b \in DOMAIN A \ {a} : b[1] >= a[1]}) >= Keep
        BY <2>1, <3>2, <3>4, PrunedBeside
      <4>2. QED
        BY <3>1, <4>1 DEF PrunedRightly
    <3>5. QED
      BY <3>2, <3>3, <3>4
  <2>8. \A p \in pruned' : PrunedRightly(p)
    BY <1>3, <2>7 DEF FileInv
  <2>9. ArchiveInv'
    <3>1. DOMAIN archive' = DOMAIN A \ gone
      BY <2>2
    <3>2. IsFiniteSet(DOMAIN archive') /\ DOMAIN archive' \subseteq Nat \X Nat
      BY <2>1, <3>1, FS_Subset
    <3>3. archive' = [a \in DOMAIN archive' |-> archive'[a]]
      BY <2>2
    <3>4. QED
      BY <1>0, <1>3, <3>2, <3>3 DEF ArchiveInv
  <2>10. QED
    BY <2>6, <2>8, <2>9 DEF FileInv, PrunedRightly
<1>4. CASE /\ writer' = [w EXCEPT !.state = "stuck"] /\ archive' = archive
           /\ pruned' = pruned /\ acknowledged' = acknowledged
  <2>1. writer'.lines = w.lines /\ ArchiveInv'
    BY <1>0, <1>4 DEF FileInv, ArchiveInv
  <2>2. QED
    BY <1>1, <1>4, <2>1 DEF FileInv, Kept, PrunedRightly
<1>5. CASE /\ writer' = [w EXCEPT !.state = "stuck", !.lines = {}] /\ archive' = Aside
           /\ pruned' = pruned /\ acknowledged' = acknowledged
  <2> PICK n : n = rotatedName
    OBVIOUS
  <2> PICK A : A = Aside
    OBVIOUS
  <2>1. /\ DOMAIN A = DOMAIN archive \union {n} /\ A[n].lines = w.lines
        /\ \A a \in DOMAIN archive : A[a] = archive[a]
        /\ DOMAIN A \subseteq Nat \X Nat /\ IsFiniteSet(DOMAIN A)
    BY AsideKeeps
  <2>2. A = [a \in DOMAIN A |-> A[a]]
    BY DEF Aside
  <2>3. writer' = [state |-> writer'.state, lines |-> writer'.lines, modified |-> writer'.modified]
    BY <1>5 DEF FileInv, ArchiveInv
  <2>4. ArchiveInv'
    BY <1>0, <1>5, <2>1, <2>2, <2>3 DEF ArchiveInv
  <2>5. \A x \in acknowledged' : Kept(x)'
    BY <1>1, <1>5, <2>1 DEF Kept
  <2>6. QED
    BY <1>5, <2>4, <2>5 DEF FileInv, PrunedRightly
<1>6. CASE UNCHANGED fileVars
  BY <1>0, <1>6 DEF fileVars, FileInv, ArchiveInv, Kept, PrunedRightly
<1>7. CASE \E took : /\ writer' = [state |-> "open", lines |-> w.lines \union took, modified |-> stamp]
                     /\ acknowledged' = acknowledged \union took
                     /\ archive' = archive /\ pruned' = pruned
  BY <1>2, <1>7
<1>8. CASE \E took : /\ archive' = [a \in DOMAIN Aside \ prune(Aside) |-> Aside[a]]
                     /\ pruned' = pruned \union {[name |-> a, file |-> Aside[a], at |-> stamp,
                                                  among |-> DOMAIN Aside] : a \in prune(Aside)}
                     /\ writer' = [state |-> "open", lines |-> took, modified |-> stamp]
                     /\ acknowledged' = acknowledged \union took
  BY <1>3, <1>8
<1>9. QED
  BY <1>4, <1>5, <1>6, <1>7, <1>8 DEF Write

LogInv == RingInv /\ StreamInv /\ FileInv

(* The log starts empty.                                                   *)
LEMMA LogStart == LogInit => LogInv
<1> SUFFICES ASSUME LogInit PROVE LogInv
  OBVIOUS
<1>1. RingInv
  <2>1. /\ logged = 0 /\ next = 1 /\ full = FALSE
        /\ ring = [i \in 1..RingSize |-> NoLogLine] /\ RingSize \in Nat \ {0}
    BY LogAssumption DEF LogInit
  <2>2. next \in 1..RingSize /\ next - 1 = 0 /\ next - 1 <= logged
    BY <2>1
  <2>3. ring = [i \in 1..RingSize |-> ring[i]]
    BY <2>1
  <2>4. \A i \in 1..(next - 1) : ring[i] = logged - (next - 1) + i
    BY <2>2
  <2>5. QED
    BY <2>1, <2>2, <2>3, <2>4 DEF RingInv
<1>2. StreamInv
  <2>1. FollowerOK(NotFollowing, 0)
    BY SubscribedOK
  <2>2. QED
    BY <2>1 DEF LogInit, StreamInv
<1>3. FileInv
  <2>1. archive = <<>> /\ acknowledged = {} /\ pruned = {} /\ stamp = 0
        /\ writer = [state |-> "open", lines |-> {}, modified |-> 0]
    BY DEF LogInit
  <2>2. DOMAIN archive = {} /\ archive = [a \in DOMAIN archive |-> archive[a]]
    BY <2>1
  <2>3. IsFiniteSet({})
    BY FS_EmptySet
  <2>4. QED
    BY <2>1, <2>2, <2>3 DEF FileInv, ArchiveInv
<1>4. QED
  BY <1>1, <1>2, <1>3 DEF LogInv

(* Every step of the log keeps the invariant.                              *)
LEMMA LogStep == LogInv /\ [LogNext]_logVars => LogInv'
<1> SUFFICES ASSUME LogInv, [LogNext]_logVars PROVE LogInv'
  OBVIOUS
<1>1. RingInv /\ StreamInv /\ FileInv
  BY DEF LogInv
<1>2. ASSUME UNCHANGED <<fileVars, stamp>> PROVE FileInv'
  BY <1>1, <1>2 DEF fileVars, FileInv, ArchiveInv, Kept, PrunedRightly
<1>3. CASE UNCHANGED logVars
  <2>1. FileInv'
    BY <1>2, <1>3 DEF logVars
  <2>2. RingInv' /\ StreamInv'
    BY <1>1, <1>3 DEF logVars, busVars, RingInv, StreamInv
  <2>3. QED
    BY <2>1, <2>2 DEF LogInv
<1>4. CASE LogNext
  <2>1. RingInv' /\ StreamInv'
    BY <1>1, <1>4, StreamStep
  <2>2. FileInv'
    <3>1. CASE \E h \in Loggers : publish(h)
      BY <1>2, <3>1 DEF publish
    <3>2. CASE \E h \in Loggers : Write(h)
      BY <1>1, <3>2, WriteKeeps
    <3>3. CASE \E f \in Followers : Subscribe(f) \/ StreamLogs(f) \/ Cancel(f)
      BY <1>2, <3>3 DEF Subscribe, StreamLogs, Cancel
    <3>4. CASE LogRestart
      <4>1. writer'.lines = writer.lines
            /\ writer' = [state |-> writer'.state, lines |-> writer'.lines, modified |-> writer'.modified]
        BY <1>1, <3>4 DEF LogRestart, FileInv, ArchiveInv
      <4>2. QED
        BY <1>1, <3>4, <4>1 DEF LogRestart, FileInv, ArchiveInv, Kept, PrunedRightly
    <3>5. CASE LogTick
      <4>1. stamp' \in Nat
        BY <1>1, <3>5 DEF LogTick, FileInv, ArchiveInv
      <4>2. QED
        BY <1>1, <3>5, <4>1 DEF LogTick, fileVars, FileInv, ArchiveInv, Kept, PrunedRightly
    <3>6. QED
      BY <1>4, <3>1, <3>2, <3>3, <3>4, <3>5 DEF LogNext
  <2>3. QED
    BY <2>1, <2>2 DEF LogInv
<1>5. QED
  BY <1>3, <1>4

(* What the invariant says of the lines the file took.                     *)
LEMMA FileInvKeeps == FileInv => LinesKept
<1> SUFFICES ASSUME FileInv PROVE LinesKept
  OBVIOUS
<1>1. ASSUME NEW x \in acknowledged
      PROVE  x \in writer.lines \union (UNION {archive[a].lines : a \in DOMAIN archive})
                                \union (UNION {p.file.lines : p \in pruned})
  <2>1. Kept(x)
    BY DEF FileInv
  <2>2. CASE \E a \in DOMAIN archive : x \in archive[a].lines
    BY <2>2
  <2>3. CASE \E p \in pruned : x \in p.file.lines
    BY <2>3
  <2>4. QED
    BY <2>1, <2>2, <2>3 DEF Kept
<1>2. QED
  BY <1>1 DEF LinesKept, FileInv, PrunedRightly

(* However many goroutines log and consoles follow, whatever the sizes of  *)
(* the ring, the channels and the files: a console misses only lines that  *)
(* came while its channel was full, and a line the file took is lost only  *)
(* with a file that prune was to remove.                                   *)
THEOREM LinesAlwaysReach == LogSpec => []LinesReach
<1>1. LogInit => LogInv
  BY LogStart
<1>2. LogInv /\ [LogNext]_logVars => LogInv'
  BY LogStep
<1>3. LogInv => LinesReach
  BY StreamInvCompletes, FileInvKeeps DEF LogInv, LinesReach
<1>4. QED
  BY <1>1, <1>2, <1>3, PTL DEF LogSpec


----------------------------------------------------------------------------
(* The installation of a build. *)

(* A set of platforms has a first one.                                     *)
LEMMA FirstIs ==
    ASSUME NEW S, S \subseteq Platforms, S # {}
    PROVE  First(S) \in S
<1>1. Order \in Seq(Range(Order))
  BY InstallAssumption
<1>2. Len(Order) \in Nat /\ DOMAIN Order = 1..Len(Order)
  BY <1>1, LenProperties
<1>3. PICK T : T = {i \in DOMAIN Order : Order[i] \in S}
  OBVIOUS
<1>4. T \subseteq 0..Len(Order) /\ T \subseteq Nat
  BY <1>2, <1>3
<1>5. T # {}
  BY <1>3 DEF Platforms, Range
<1>6. PICK R : R = OpToRel(<, Nat)
  OBVIOUS
<1>7. PICK m \in T : \A y \in T : ~ (<<y, m>> \in R)
  BY <1>4, <1>5, <1>6, NatLessThanWellFounded, WFMin
<1>8. \A y \in T : m <= y
  <2>1. \A y \in T : y < m => <<y, m>> \in R
    BY <1>4, <1>6 DEF OpToRel
  <2>2. \A y \in T : y \in Nat /\ m \in Nat /\ ~ (y < m)
    BY <1>4, <1>7, <2>1
  <2>3. QED
    BY <2>2
<1>9. Order[m] \in S
  BY <1>3
<1>10. \A q \in S : Precedes(Order[m], q)
  <2> SUFFICES ASSUME NEW q \in S PROVE Precedes(Order[m], q)
    OBVIOUS
  <2>1. PICK j \in DOMAIN Order : Order[j] = q
    BY DEF Platforms, Range
  <2>2. j \in T
    BY <1>3, <2>1
  <2>3. QED
    BY <1>3, <1>8, <2>1, <2>2 DEF Precedes
<1>11. QED
  BY <1>9, <1>10 DEF First

(* The command under way is a record, and works on platforms.              *)
RunShape(r) ==
    r \in [pc : {"share", "record", "files", "unpack", "swap", "extra", "launch"}, line : Lines, todo : SUBSET Platforms,
           built : SUBSET Platforms, first : BOOLEAN, left : SUBSET Platforms]

InstallShape ==
    /\ run # NoRun => RunShape(run)
    /\ oldDir \subseteq Platforms /\ moved \subseteq Platforms /\ mark \in BOOLEAN
    /\ oldParts = [p \in Platforms |-> oldParts[p]]
    /\ \A p \in Platforms : oldParts[p] \subseteq {"launch", "mod", "runtime"}
    /\ ownMod = [p \in Platforms |-> ownMod[p]]
    /\ launch = [p \in Platforms |-> launch[p]] /\ runtime = [p \in Platforms |-> runtime[p]]

(* What players of a platform had in the old layout is there for them.     *)
Placed(p) == orig[p] # 0 => PlatformView(p) = orig[p]

(* A platform still has everything in its old directory, its mod has not   *)
(* been taken out, or players find it where the shared layout has it.      *)
Unmoved(p) == "launch" \in oldParts[p] /\ (orig[p] # 0 => "mod" \in oldParts[p])
PartsOK(p) ==
    /\ p \in oldDir \ moved => Unmoved(p)
    /\ "mod" \in oldParts[p] => ownMod[p] = 0
    /\ p \notin moved \cup oldDir => orig[p] = 0

(* Of the platforms of S, which all have their old directories, one at     *)
(* most has begun to move; so what it has in the root is its own.          *)
OneBegun(S) ==
    /\ \A p, q \in S \cap moved : p = q
    /\ \A p \in S : "mod" \notin oldParts[p] => Placed(p)

(* shareCommonFiles between two of its steps.  A platform that has no      *)
(* directory any more will end it; else those it has passed are in place.  *)
ShareOK ==
    /\ mark /\ oldDir \subseteq run.left /\ run.left \subseteq moved \cup oldDir
    /\ run.first => moved \subseteq run.left
    /\ ~ run.first => ~ (moved \subseteq oldDir)
    /\ run.left \subseteq oldDir =>
         /\ OneBegun(run.left)
         /\ \A p \in Platforms \ run.left : Placed(p)
         /\ run.first => \A p \in Platforms : ownMod[p] = 0 /\ (p \notin run.left => orig[p] = 0)

(* Before the move is over no platform is installed; a move that was cut   *)
(* off has removed a directory, and will never end, or is in its first     *)
(* platform.  Afterwards everything is in place.                           *)
MoveInv ==
    /\ \A p \in Platforms : PartsOK(p)
    /\ mark => moved \cup oldDir # {}
    /\ ~ mark /\ oldDir # {} => moved = {} /\ run = NoRun
    /\ mark \/ oldDir # {} => run = NoRun \/ run.pc = "share"
    /\ mark \/ oldDir # {} =>
         \/ ~ (moved \subseteq oldDir)
         \/ OneBegun(oldDir) /\ \A p \in Platforms : ownMod[p] = 0
    /\ ~ mark /\ oldDir = {} => run.pc # "share" /\ \A p \in Platforms : Placed(p)
    /\ run.pc = "share" => ShareOK

(* The stamps: a platform with the stamp of the recorded install has its   *)
(* files, unless somebody went back to a line that was stamped already.    *)
StampInv ==
    /\ run.pc \in {"files", "unpack", "swap", "extra", "launch"} => install = run.line
    /\ ~ wentBack /\ install # NoLine =>
         \A p \in Platforms : launch[p] = install => runtime[p] = install /\ shared = install
    /\ run.pc = "launch" => shared = run.line
    /\ run.pc \in {"extra", "launch"} => runtime[Target] = run.line

InstallInv == InstallShape /\ MoveInv /\ StampInv

(* No command is known by its pc.                                          *)
LEMMA NoRunIs == NoRun.pc = "none" /\ \A r : RunShape(r) => r # NoRun
  BY DEF NoRun, RunShape

(* The invariant says what the runs check.                                 *)
LEMMA InstallInvWhole == InstallInv => PlatformsWhole
<1> SUFFICES ASSUME InstallInv PROVE PlatformsWhole
  OBVIOUS
<1>1. SharingKeepsFiles
  <2> SUFFICES ASSUME layoutShared PROVE \A p \in moved : orig[p] # 0 => PlatformView(p) = orig[p]
    BY DEF SharingKeepsFiles
  <2>1. ~ mark /\ moved # {}
    BY DEF layoutShared
  <2>2. oldDir = {}
    BY <2>1 DEF InstallInv, MoveInv
  <2>3. QED
    BY <2>1, <2>2 DEF InstallInv, MoveInv, InstallShape, Placed
<1>2. ASSUME publishAccepts, install # NoLine, ~ wentBack, NEW p \in layoutPlatforms
      PROVE  runtime[p] = install /\ shared = install
  <2>1. p \in Platforms
    BY DEF layoutPlatforms, leftovers, InstallInv, InstallShape
  <2>2. launch[p] = install
    BY <1>2 DEF publishAccepts
  <2>3. QED
    BY <1>2, <2>1, <2>2 DEF InstallInv, StampInv
<1>3. QED
  BY <1>1, <1>2 DEF PlatformsWhole, PublishedComplete, Complete

(* It holds of a new build and of one in the old layout.                   *)
LEMMA InstallStarts == InstallInit => InstallInv
<1> SUFFICES ASSUME InstallInit PROVE InstallInv
  OBVIOUS
<1>1. PICK old \in SUBSET Platforms, mods \in [Platforms -> FlatMods] :
        /\ oldDir = old
        /\ orig = [p \in Platforms |-> IF p \in old THEN mods[p] ELSE 0]
        /\ oldParts = [p \in Platforms |-> IF p \notin old THEN {}
                        ELSE {"launch", "runtime"} \union (IF mods[p] # 0 THEN {"mod"} ELSE {})]
  BY DEF InstallInit
<1>2. /\ mark = FALSE /\ rootMod = 0 /\ ownMod = [p \in Platforms |-> 0]
      /\ launch = [p \in Platforms |-> NoLine] /\ moved = {}
      /\ runtime = [p \in Platforms |-> NoLine] /\ install = NoLine /\ run = NoRun
  BY DEF InstallInit
<1>3. InstallShape
  BY <1>1, <1>2 DEF InstallShape
<1>4. \A p \in Platforms : /\ p \in oldDir => Unmoved(p)
                           /\ p \notin oldDir => orig[p] = 0
                           /\ orig[p] # 0 => "mod" \in oldParts[p]
                           /\ ownMod[p] = 0
  BY <1>1, <1>2 DEF Unmoved
<1>5. \A p \in Platforms : PartsOK(p)
  BY <1>2, <1>4 DEF PartsOK
<1>6. OneBegun(oldDir)
  BY <1>1, <1>2, <1>4 DEF OneBegun, Placed
<1>7. MoveInv
  BY <1>2, <1>4, <1>5, <1>6, NoRunIs DEF MoveInv, Placed
<1>8. StampInv
  BY <1>2, NoRunIs DEF StampInv
<1>9. QED
  BY <1>3, <1>7, <1>8 DEF InstallInv

(* A command that goes on keeps its shape.                                 *)
LEMMA RunTurned ==
    ASSUME NEW r, RunShape(r), NEW c \in {"share", "record", "files", "unpack", "swap", "extra", "launch"}
    PROVE  /\ RunShape([r EXCEPT !.pc = c])
           /\ [r EXCEPT !.pc = c].pc = c /\ [r EXCEPT !.pc = c].line = r.line
           /\ [r EXCEPT !.pc = c].todo = r.todo
  BY DEF RunShape

(* A run with another set of platforms to do.                              *)
LEMMA RunNext ==
    ASSUME NEW r, RunShape(r), NEW S \in SUBSET Platforms
    PROVE  /\ RunShape([r EXCEPT !.pc = "files", !.todo = S])
           /\ [r EXCEPT !.pc = "files", !.todo = S].pc = "files"
           /\ [r EXCEPT !.pc = "files", !.todo = S].line = r.line
  BY DEF RunShape

(* So does one that is done with a directory of the old layout.            *)
LEMMA RunPasses ==
    ASSUME NEW r, RunShape(r), NEW S \in SUBSET Platforms
    PROVE  /\ RunShape([r EXCEPT !.left = S, !.first = FALSE])
           /\ [r EXCEPT !.left = S, !.first = FALSE].pc = r.pc
           /\ [r EXCEPT !.left = S, !.first = FALSE].left = S
           /\ [r EXCEPT !.left = S, !.first = FALSE].first = FALSE
  BY DEF RunShape

(* Once a command is past the move, the move is over, and it stays so      *)
(* while the layout is left alone.                                         *)
LEMMA MoveStays ==
    ASSUME InstallInv, run # NoRun, run.pc # "share", UNCHANGED layoutVars, run'.pc # "share"
    PROVE  MoveInv'
<1>1. ~ mark /\ oldDir = {} /\ \A p \in Platforms : Placed(p) /\ PartsOK(p)
  BY DEF InstallInv, MoveInv
<1>2. ~ mark' /\ oldDir' = {} /\ \A p \in Platforms : Placed(p)' /\ PartsOK(p)'
  BY <1>1 DEF layoutVars, Placed, PlatformView, PartsOK, Unmoved
<1>3. QED
  BY <1>2 DEF MoveInv

(* prepare starts with the move when something is left of the old layout.  *)
LEMMA StartKeeps ==
    ASSUME InstallInv, NEW line \in Lines, NEW targets \in SUBSET Platforms, prepareStart(line, targets)
    PROVE  InstallInv'
<1>1. /\ run = NoRun /\ RunShape(run') /\ run'.first = TRUE /\ run'.left = layoutPlatforms
      /\ run'.pc = IF ~ layoutShared /\ layoutPlatforms # {} THEN "share" ELSE "record"
  BY DEF prepareStart, RunShape, InstallInv, InstallShape, layoutPlatforms, leftovers
<1>2. /\ mark' = (mark \/ (~ layoutShared /\ layoutPlatforms # {}))
      /\ UNCHANGED <<oldDir, oldParts, rootMod, ownMod, moved, orig, launch, runtime, shared, install, recipe, wentBack>>
  BY DEF prepareStart, stampVars
<1>3. InstallShape'
  BY <1>1, <1>2 DEF InstallInv, InstallShape
<1>4. StampInv'
  BY <1>1, <1>2 DEF InstallInv, StampInv
<1>5. oldDir \subseteq layoutPlatforms /\ layoutPlatforms \subseteq moved \cup oldDir /\ moved \subseteq layoutPlatforms
  BY DEF InstallInv, MoveInv, InstallShape, PartsOK, Unmoved, layoutPlatforms, leftovers
<1>6. \A p \in Platforms : PartsOK(p)' /\ (Placed(p) => Placed(p)')
  BY <1>2 DEF InstallInv, MoveInv, PartsOK, Unmoved, Placed, PlatformView
<1>7. CASE ~ mark /\ oldDir = {}
  <2>1. run'.pc = "record" /\ mark' = FALSE
    BY <1>1, <1>2, <1>5, <1>7 DEF layoutShared, leftovers, InstallInv, InstallShape
  <2>2. MoveInv'
    BY <1>2, <1>6, <1>7, <2>1 DEF InstallInv, MoveInv
  <2>3. QED
    BY <1>3, <1>4, <2>2 DEF InstallInv
<1>8. CASE mark \/ oldDir # {}
  <2>1. layoutPlatforms # {}
    BY <1>5, <1>8 DEF InstallInv, MoveInv
  <2>2. ~ layoutShared
    <3>1. CASE mark
      BY <3>1 DEF layoutShared
    <3>2. CASE ~ mark
      BY <1>8, <3>2 DEF layoutShared, InstallInv, MoveInv
    <3>3. QED
      BY <3>1, <3>2
  <2>3. run'.pc = "share" /\ mark'
    BY <1>1, <1>2, <2>1, <2>2
  <2>4. moved \cup oldDir # {}
    BY <1>8 DEF InstallInv, MoveInv
  <2>5. \/ ~ (moved \subseteq oldDir)
        \/ OneBegun(oldDir) /\ \A p \in Platforms : ownMod[p] = 0
    BY <1>8 DEF InstallInv, MoveInv
  <2>6. OneBegun(oldDir) => OneBegun(oldDir)'
    BY <1>2 DEF OneBegun, Placed, PlatformView
  <2>7. ShareOK'
    <3>1. /\ mark' /\ oldDir' \subseteq run'.left /\ run'.left \subseteq moved' \cup oldDir'
          /\ moved' \subseteq run'.left /\ run'.first = TRUE
      BY <1>1, <1>2, <1>5, <2>3
    <3>2. ASSUME layoutPlatforms \subseteq oldDir
          PROVE  /\ OneBegun(run.left)'
                 /\ \A p \in Platforms \ run'.left : Placed(p)' /\ orig'[p] = 0
                 /\ \A p \in Platforms : ownMod'[p] = 0
      <4>1. run'.left = oldDir' /\ moved \subseteq oldDir
        BY <1>1, <1>2, <1>5, <3>2
      <4>2. OneBegun(run.left)' /\ \A p \in Platforms : ownMod'[p] = 0
        BY <1>2, <2>5, <2>6, <4>1 DEF OneBegun, Placed, PlatformView
      <4>3. \A p \in Platforms \ run'.left : orig'[p] = 0
        BY <1>2, <1>6, <4>1 DEF PartsOK
      <4>4. QED
        BY <4>2, <4>3 DEF Placed
    <3>3. QED
      BY <1>1, <1>2, <3>1, <3>2 DEF ShareOK
  <2>8. MoveInv'
    BY <1>2, <1>6, <2>3, <2>4, <2>5, <2>6, <2>7 DEF MoveInv
  <2>9. QED
    BY <1>3, <1>4, <2>8 DEF InstallInv
<1>9. QED
  BY <1>7, <1>8

(* A platform in the middle of its move.                                   *)
LEMMA SharingIs ==
    ASSUME InstallInv, run.pc = "share", run.left # {}
    PROVE  /\ ShareOK /\ RunShape(run) /\ Sharing \in run.left /\ Sharing \in Platforms
           /\ run.left \cap moved # {} => Sharing \in moved
<1>1. RunShape(run) /\ ShareOK
  BY NoRunIs DEF InstallInv, InstallShape, MoveInv
<1>2. run.left \subseteq Platforms
  BY <1>1 DEF RunShape
<1>3. CASE run.left \cap moved # {}
  <2>1. First(run.left \cap moved) \in run.left \cap moved
    BY <1>2, <1>3, FirstIs
  <2>2. QED
    BY <1>1, <1>2, <1>3, <2>1 DEF Sharing
<1>4. CASE run.left \cap moved = {}
  <2>1. First(run.left) \in run.left
    BY <1>2, FirstIs
  <2>2. QED
    BY <1>1, <1>2, <1>4, <2>1 DEF Sharing
<1>5. QED
  BY <1>3, <1>4

(* What one file of a move does, seen from the platform it belongs to and  *)
(* from the others.                                                        *)
LEMMA PartMoved ==
    ASSUME InstallInv, NEW p \in Platforms, oldParts[p] # {}, MovePart(p, NextPart(p)), UNCHANGED orig
    PROVE  /\ oldParts' = [q \in Platforms |-> IF q = p THEN oldParts[p] \ {NextPart(p)} ELSE oldParts[q]]
           /\ NextPart(p) \in oldParts[p]
           /\ "launch" \in oldParts[p] => /\ moved' = moved \cup {p} /\ UNCHANGED <<rootMod, ownMod>>
                                          /\ NextPart(p) = "launch"
           /\ "launch" \notin oldParts[p] /\ "mod" \in oldParts[p] =>
                /\ moved' = moved /\ NextPart(p) = "mod"
                /\ run.first => rootMod' = orig[p] /\ ownMod' = ownMod
                /\ ~ run.first => /\ rootMod' = rootMod /\ Placed(p)'
                                  /\ ownMod' = [q \in Platforms |-> IF q = p /\ rootMod # orig[p]
                                                                    THEN orig[p] ELSE ownMod[q]]
           /\ "launch" \notin oldParts[p] /\ "mod" \notin oldParts[p] =>
                /\ UNCHANGED <<moved, rootMod, ownMod>> /\ NextPart(p) = "runtime"
<1>1. /\ oldParts = [q \in Platforms |-> oldParts[q]] /\ ownMod = [q \in Platforms |-> ownMod[q]]
      /\ oldParts[p] \subseteq {"launch", "mod", "runtime"}
  BY DEF InstallInv, InstallShape
<1>2. /\ oldParts' = [q \in Platforms |-> IF q = p THEN oldParts[p] \ {NextPart(p)} ELSE oldParts[q]]
      /\ NextPart(p) \in oldParts[p]
  BY <1>1 DEF MovePart, NextPart
<1>3. CASE "launch" \in oldParts[p]
  <2>1. NextPart(p) = "launch"
    BY <1>3 DEF NextPart
  <2>2. moved' = moved \cup {p} /\ UNCHANGED <<rootMod, ownMod>>
    BY <2>1 DEF MovePart, belongsToPlatform
  <2>3. QED
    BY <1>2, <1>3, <2>1, <2>2
<1>4. CASE "launch" \notin oldParts[p] /\ "mod" \in oldParts[p]
  <2>1. NextPart(p) = "mod"
    BY <1>4 DEF NextPart
  <2>2. moved' = moved
    BY <2>1 DEF MovePart
  <2>3. run.first => rootMod' = orig[p] /\ ownMod' = ownMod
    BY <2>1 DEF MovePart, belongsToPlatform
  <2>4. ~ run.first => /\ rootMod' = rootMod
                       /\ ownMod' = [q \in Platforms |-> IF q = p /\ rootMod # orig[p] THEN orig[p] ELSE ownMod[q]]
    BY <1>1, <2>1 DEF MovePart, belongsToPlatform
  <2>5. ownMod[p] = 0
    BY <1>4 DEF InstallInv, MoveInv, PartsOK
  <2>6. ~ run.first => Placed(p)'
    BY <2>4, <2>5 DEF Placed, PlatformView
  <2>7. QED
    BY <1>2, <1>4, <2>1, <2>2, <2>3, <2>4, <2>6
<1>5. CASE "launch" \notin oldParts[p] /\ "mod" \notin oldParts[p]
  <2>1. NextPart(p) = "runtime"
    BY <1>5 DEF NextPart
  <2>2. UNCHANGED <<moved, rootMod, ownMod>>
    BY <2>1 DEF MovePart, belongsToPlatform
  <2>3. QED
    BY <1>2, <1>5, <2>1, <2>2
<1>6. QED
  BY <1>3, <1>4, <1>5

(* One part of an old directory is moved: it is lost nowhere.              *)
LEMMA PartKeeps ==
    ASSUME InstallInv, run.pc = "share", NEW p \in Platforms, p \in run.left, p \in oldDir, oldParts[p] # {},
           run.left \cap moved # {} => p \in moved, ShareOK,
           MovePart(p, NextPart(p)), UNCHANGED <<mark, oldDir, run, orig>>
    PROVE  MoveInv'
<1>1. /\ oldParts' = [q \in Platforms |-> IF q = p THEN oldParts[p] \ {NextPart(p)} ELSE oldParts[q]]
      /\ NextPart(p) \in oldParts[p]
      /\ "launch" \in oldParts[p] => /\ moved' = moved \cup {p} /\ UNCHANGED <<rootMod, ownMod>>
                                     /\ NextPart(p) = "launch"
      /\ "launch" \notin oldParts[p] /\ "mod" \in oldParts[p] =>
           /\ moved' = moved /\ NextPart(p) = "mod"
           /\ run.first => rootMod' = orig[p] /\ ownMod' = ownMod
           /\ ~ run.first => /\ rootMod' = rootMod /\ Placed(p)'
                             /\ ownMod' = [q \in Platforms |-> IF q = p /\ rootMod # orig[p]
                                                               THEN orig[p] ELSE ownMod[q]]
      /\ "launch" \notin oldParts[p] /\ "mod" \notin oldParts[p] =>
           /\ UNCHANGED <<moved, rootMod, ownMod>> /\ NextPart(p) = "runtime"
  BY PartMoved
<1>2. /\ mark /\ oldDir \subseteq run.left /\ run.left \subseteq moved \cup oldDir
      /\ run.first => moved \subseteq run.left
      /\ ~ run.first => ~ (moved \subseteq oldDir)
  BY DEF ShareOK
<1>3. \A q \in Platforms : PartsOK(q)
  BY DEF InstallInv, MoveInv
<1>4. p \notin moved => "launch" \in oldParts[p]
  BY <1>3 DEF PartsOK, Unmoved
<1>5. moved \subseteq moved' /\ moved' \subseteq moved \cup {p}
  BY <1>1
<1>6. \A q \in Platforms : q # p => oldParts'[q] = oldParts[q] /\ ownMod'[q] = ownMod[q]
  BY <1>1 DEF InstallInv, InstallShape
<1>7. \A q \in Platforms : PartsOK(q)'
  <2>1. ASSUME NEW q \in Platforms, q # p PROVE PartsOK(q)'
    BY <1>3, <1>5, <1>6, <2>1 DEF PartsOK, Unmoved
  <2>2. PartsOK(p)'
    <3>1. p \in moved'
      BY <1>1, <1>4
    <3>2. ASSUME "mod" \in oldParts'[p] PROVE ownMod'[p] = 0
      <4>1. "mod" \in oldParts[p] /\ NextPart(p) # "mod"
        BY <1>1, <3>2
      <4>2. ownMod' = ownMod
        BY <1>1, <4>1
      <4>3. QED
        BY <1>3, <4>1, <4>2 DEF PartsOK
    <3>3. QED
      BY <3>1, <3>2 DEF PartsOK
  <2>3. QED
    BY <2>1, <2>2
<1>8. ASSUME run.left \subseteq oldDir
      PROVE  /\ OneBegun(run.left)'
             /\ \A q \in Platforms \ run.left : Placed(q)'
             /\ run.first => \A q \in Platforms : ownMod'[q] = 0 /\ (q \notin run.left => orig'[q] = 0)
  <2>1. /\ OneBegun(run.left)
        /\ \A q \in Platforms \ run.left : Placed(q)
        /\ run.first => \A q \in Platforms : ownMod[q] = 0 /\ (q \notin run.left => orig[q] = 0)
    BY <1>8 DEF ShareOK
  <2>2. \A q, r \in run.left \cap moved' : q = r
    BY <1>1, <2>1 DEF OneBegun
  <2>3. run.first => ownMod' = ownMod
    BY <1>1
  <2>4. ASSUME NEW q \in Platforms, q # p, Placed(q), orig[q] # 0 /\ run.first => q \in run.left /\ "mod" \notin oldParts[q]
        PROVE  Placed(q)'
    <3>1. CASE rootMod' = rootMod
      BY <1>6, <2>4, <3>1 DEF Placed, PlatformView
    <3>2. CASE rootMod' # rootMod
      <4>1. run.first /\ "launch" \notin oldParts[p] /\ "mod" \in oldParts[p]
        BY <1>1, <3>2
      <4>2. p \in moved
        BY <1>4, <4>1
      <4>3. ASSUME orig[q] # 0 PROVE FALSE
        <5>1. q \in run.left /\ "mod" \notin oldParts[q] /\ q \in oldDir
          BY <1>8, <2>4, <4>1, <4>3
        <5>2. q \in moved
          BY <1>3, <4>3, <5>1 DEF PartsOK, Unmoved
        <5>3. QED
          BY <2>1, <2>4, <4>2, <5>1, <5>2 DEF OneBegun
      <4>4. QED
        BY <4>3 DEF Placed
    <3>3. QED
      BY <3>1, <3>2
  <2>5. ASSUME NEW q \in run.left, "mod" \notin oldParts'[q] PROVE Placed(q)'
    <3>1. q \in Platforms
      BY <1>8 DEF InstallInv, InstallShape
    <3>2. CASE q # p
      <4>1. "mod" \notin oldParts[q]
        BY <1>6, <2>5, <3>1, <3>2
      <4>2. Placed(q)
        BY <2>1, <4>1 DEF OneBegun
      <4>3. QED
        BY <2>4, <3>1, <3>2, <4>1, <4>2
    <3>3. CASE q = p /\ "mod" \notin oldParts[p]
      <4>1. Placed(p)
        BY <2>1, <3>3 DEF OneBegun
      <4>2. UNCHANGED <<rootMod, ownMod>>
        BY <1>1, <3>3
      <4>3. QED
        BY <3>3, <4>1, <4>2 DEF Placed, PlatformView
    <3>4. CASE q = p /\ "mod" \in oldParts[p]
      <4>1. "launch" \notin oldParts[p]
        BY <1>1, <2>5, <3>4
      <4>2. CASE run.first
        <5>1. rootMod' = orig[p] /\ ownMod' = ownMod /\ ownMod[p] = 0
          BY <1>1, <2>1, <3>4, <4>1, <4>2
        <5>2. QED
          BY <3>4, <5>1 DEF Placed, PlatformView
      <4>3. CASE ~ run.first
        BY <1>1, <3>4, <4>1, <4>3
      <4>4. QED
        BY <4>2, <4>3
    <3>5. QED
      BY <3>2, <3>3, <3>4
  <2>6. ASSUME NEW q \in Platforms \ run.left PROVE Placed(q)'
    <3>1. Placed(q) /\ q # p /\ (run.first => orig[q] = 0)
      BY <2>1
    <3>2. QED
      BY <2>4, <3>1
  <2>7. OneBegun(run.left)'
    BY <2>2, <2>5 DEF OneBegun
  <2>8. run.first => \A q \in Platforms : ownMod'[q] = 0 /\ (q \notin run.left => orig'[q] = 0)
    BY <2>1, <2>3
  <2>9. QED
    BY <2>6, <2>7, <2>8
<1>9. ShareOK'
  <2>1. /\ mark' /\ oldDir' \subseteq run'.left /\ run'.left \subseteq moved' \cup oldDir'
        /\ run'.first => moved' \subseteq run'.left
        /\ ~ run'.first => ~ (moved' \subseteq oldDir')
    BY <1>2, <1>5
  <2>2. QED
    BY <1>8, <2>1 DEF ShareOK
<1>10. ~ (moved' \subseteq oldDir') \/ (OneBegun(oldDir)' /\ \A q \in Platforms : ownMod'[q] = 0)
  <2>1. CASE ~ (moved \subseteq oldDir)
    <3>1. ~ (moved' \subseteq oldDir')
      BY <1>5, <2>1
    <3>2. QED
      BY <3>1
  <2>2. CASE moved \subseteq oldDir
    <3>1. run.first /\ run.left = oldDir
      BY <1>2, <2>2
    <3>2. QED
      BY <1>8, <3>1 DEF OneBegun, Placed, PlatformView
  <2>3. QED
    BY <2>1, <2>2
<1>11. moved' \cup oldDir' # {} /\ mark' /\ run'.pc = "share"
  BY <1>2
<1>12. QED
  BY <1>7, <1>9, <1>10, <1>11 DEF MoveInv

(* An emptied directory goes, and its platform is in place.                *)
LEMMA DirectoryGone ==
    ASSUME InstallInv, run.pc = "share", RunShape(run), NEW p \in Platforms, p \in run.left, p \in oldDir,
           oldParts[p] = {}, ShareOK, oldDir' = oldDir \ {p},
           run' = [run EXCEPT !.left = run.left \ {p}, !.first = FALSE],
           UNCHANGED <<mark, oldParts, rootMod, ownMod, moved, orig>>
    PROVE  MoveInv' /\ RunShape(run')
<1>1. /\ RunShape(run') /\ run'.pc = "share" /\ run'.left = run.left \ {p} /\ run'.first = FALSE
  <2>1. run.left \ {p} \in SUBSET Platforms
    BY DEF RunShape
  <2>2. QED
    BY <2>1, RunPasses
<1>2. \A q \in Platforms : PartsOK(q)
  BY DEF InstallInv, MoveInv
<1>3. p \in moved
  BY <1>2 DEF PartsOK, Unmoved
<1>4. \A q \in Platforms : PartsOK(q)' /\ (Placed(q) => Placed(q)')
  BY <1>2, <1>3 DEF PartsOK, Unmoved, Placed, PlatformView
<1>5. mark /\ oldDir \subseteq run.left /\ run.left \subseteq moved \cup oldDir
  BY DEF ShareOK
<1>6. ASSUME run'.left \subseteq oldDir'
      PROVE  OneBegun(run.left)' /\ \A q \in Platforms \ run'.left : Placed(q)'
  <2>1. run.left \subseteq oldDir
    BY <1>1, <1>6
  <2>2. OneBegun(run.left) /\ \A q \in Platforms \ run.left : Placed(q)
    BY <2>1 DEF ShareOK
  <2>3. Placed(p)
    BY <2>2 DEF OneBegun
  <2>4. \A q \in run.left : q \in Platforms
    BY DEF RunShape
  <2>5. OneBegun(run.left)'
    BY <1>1, <1>4, <2>2, <2>4 DEF OneBegun
  <2>6. QED
    BY <1>1, <1>4, <2>2, <2>3, <2>5
<1>7. ~ (moved' \subseteq oldDir')
  BY <1>3
<1>8. /\ mark' /\ oldDir' \subseteq run'.left /\ run'.left \subseteq moved' \cup oldDir'
      /\ run'.first = FALSE
  BY <1>1, <1>3, <1>5
<1>9. ShareOK'
  BY <1>6, <1>7, <1>8 DEF ShareOK
<1>10. moved' \cup oldDir' # {}
  BY <1>3
<1>11. MoveInv'
  BY <1>1, <1>4, <1>7, <1>8, <1>9, <1>10 DEF MoveInv
<1>12. QED
  BY <1>1, <1>11

(* A move that is cut off, by a stop or by a platform without a directory, *)
(* leaves what the invariant asks of a build nobody is working on.         *)
LEMMA MoveCut ==
    ASSUME InstallInv, run.pc = "share", run' = NoRun, UNCHANGED layoutVars
    PROVE  MoveInv'
<1>1. mark /\ ShareOK
  BY DEF InstallInv, MoveInv, ShareOK
<1>2. /\ \A p \in Platforms : PartsOK(p) /\ (Placed(p) => Placed(p)')
      /\ moved \cup oldDir # {}
      /\ ~ (moved \subseteq oldDir) \/ (OneBegun(oldDir) /\ \A p \in Platforms : ownMod[p] = 0)
  BY <1>1 DEF InstallInv, MoveInv, layoutVars, Placed, PlatformView
<1>3. /\ \A p \in Platforms : PartsOK(p)'
      /\ moved' \cup oldDir' # {} /\ mark' /\ run'.pc # "share" /\ run' = NoRun
      /\ ~ (moved' \subseteq oldDir') \/ (OneBegun(oldDir)' /\ \A p \in Platforms : ownMod'[p] = 0)
  BY <1>1, <1>2, NoRunIs DEF layoutVars, PartsOK, Unmoved, OneBegun, Placed, PlatformView
<1>4. QED
  BY <1>3 DEF MoveInv

(* One step of the move.                                                   *)
LEMMA ShareKeeps ==
    ASSUME InstallInv, shareCommonFiles
    PROVE  InstallInv'
<1>1. run.pc = "share" /\ UNCHANGED <<orig, launch, runtime, shared, stampVars>>
  BY DEF shareCommonFiles
<1>2. run # NoRun /\ RunShape(run) /\ ShareOK
  BY <1>1, NoRunIs DEF InstallInv, InstallShape, MoveInv
<1>3. ASSUME run'.pc \in {"none", "share", "record"}
      PROVE  StampInv'
  BY <1>1, <1>3 DEF InstallInv, StampInv, stampVars
<1>4. CASE run.left = {} /\ mark' = FALSE /\ run' = [run EXCEPT !.pc = "record"]
           /\ UNCHANGED <<oldDir, oldParts, rootMod, ownMod, moved>>
  <2>1. RunShape(run') /\ run'.pc = "record"
    BY <1>2, <1>4, RunTurned
  <2>2. oldDir = {} /\ \A p \in Platforms : Placed(p) /\ PartsOK(p)
    BY <1>2, <1>4 DEF ShareOK, InstallInv, MoveInv
  <2>3. oldDir' = {} /\ mark' = FALSE /\ \A p \in Platforms : Placed(p)' /\ PartsOK(p)'
    BY <1>1, <1>4, <2>2 DEF Placed, PlatformView, PartsOK, Unmoved
  <2>4. MoveInv'
    BY <2>1, <2>3 DEF MoveInv
  <2>5. InstallShape'
    BY <1>1, <1>4, <2>1 DEF InstallInv, InstallShape
  <2>6. QED
    BY <1>3, <2>1, <2>4, <2>5 DEF InstallInv
<1>5. CASE run.left # {} /\ SharePlatform(Sharing)
  <2>1. /\ Sharing \in run.left /\ Sharing \in Platforms
        /\ run.left \cap moved # {} => Sharing \in moved
    BY <1>1, <1>5, SharingIs
  <2>2. CASE run' = NoRun /\ UNCHANGED <<mark, oldDir, oldParts, rootMod, ownMod, moved>>
    <3>1. MoveInv'
      BY <1>1, <2>2, MoveCut DEF layoutVars
    <3>2. InstallShape' /\ StampInv'
      BY <1>1, <1>3, <2>2, NoRunIs DEF InstallInv, InstallShape
    <3>3. QED
      BY <3>1, <3>2 DEF InstallInv
  <2>3. CASE /\ Sharing \in oldDir /\ oldParts[Sharing] # {}
             /\ MovePart(Sharing, NextPart(Sharing)) /\ UNCHANGED <<mark, oldDir, run>>
    <3>1. MoveInv'
      <4>1. PICK p \in Platforms : p = Sharing
        BY <2>1
      <4>2. QED
        BY <1>1, <1>2, <2>1, <2>3, <4>1, PartKeeps
    <3>2. InstallShape'
      BY <1>1, <2>1, <2>3 DEF InstallInv, InstallShape, MovePart
    <3>3. QED
      BY <1>1, <1>3, <2>3, <3>1, <3>2 DEF InstallInv
  <2>4. CASE /\ Sharing \in oldDir /\ oldParts[Sharing] = {}
             /\ oldDir' = oldDir \ {Sharing}
             /\ run' = [run EXCEPT !.left = run.left \ {Sharing}, !.first = FALSE]
             /\ UNCHANGED <<mark, oldParts, rootMod, ownMod, moved>>
    <3>1. MoveInv' /\ RunShape(run')
      <4>1. PICK p \in Platforms : p = Sharing
        BY <2>1
      <4>2. QED
        BY <1>1, <1>2, <2>1, <2>4, <4>1, DirectoryGone
    <3>2. run'.pc = "share"
      <4>1. run.left \ {Sharing} \in SUBSET Platforms
        BY <1>2 DEF RunShape
      <4>2. QED
        BY <1>1, <1>2, <2>4, <4>1, RunPasses
    <3>3. InstallShape'
      BY <1>1, <2>4, <3>1 DEF InstallInv, InstallShape
    <3>4. QED
      BY <1>3, <3>1, <3>2, <3>3 DEF InstallInv
  <2>5. QED
    BY <1>5, <2>2, <2>3, <2>4 DEF SharePlatform
<1>6. QED
  BY <1>4, <1>5 DEF shareCommonFiles

(* A command that is past the move.                                        *)
LEMMA PreparingIs ==
    ASSUME InstallInv, run.pc \in {"record", "files", "unpack", "swap", "extra", "launch"}
    PROVE  /\ run # NoRun /\ RunShape(run) /\ run.pc # "share"
           /\ run.line \in Lines /\ run.line # NoLine
           /\ run.todo # {} => Target \in Platforms
<1>1. run # NoRun /\ RunShape(run) /\ run.pc # "share"
  BY NoRunIs DEF InstallInv, InstallShape
<1>2. run.line \in Lines /\ run.line # NoLine /\ run.todo \subseteq Platforms
  BY <1>1, InstallAssumption DEF RunShape
<1>3. run.todo # {} => Target \in Platforms
  BY <1>2, FirstIs DEF Target
<1>4. QED
  BY <1>1, <1>2, <1>3

(* The line is recorded,                                                   *)
LEMMA RecordKeeps ==
    ASSUME InstallInv, recordInstall
    PROVE  InstallInv'
<1>1. /\ run.pc = "record" /\ install' = run.line /\ run' = [run EXCEPT !.pc = "files"]
      /\ wentBack' = (wentBack \/ (install # run.line /\ \E p \in Platforms : launch[p] = run.line))
      /\ UNCHANGED <<layoutVars, launch, runtime, shared>>
  BY DEF recordInstall
<1>2. RunShape(run') /\ run'.pc = "files" /\ run'.line = run.line
  BY <1>1, PreparingIs, RunTurned
<1>3. MoveInv'
  BY <1>1, <1>2, PreparingIs, MoveStays
<1>4. InstallShape'
  BY <1>1, <1>2 DEF InstallInv, InstallShape, layoutVars
<1>5. ASSUME ~ wentBack', NEW p \in Platforms, launch'[p] = install'
      PROVE  runtime'[p] = install' /\ shared' = install'
  <2>1. install = run.line /\ ~ wentBack /\ install # NoLine
    BY <1>1, <1>5, PreparingIs
  <2>2. QED
    BY <1>1, <1>5, <2>1 DEF InstallInv, StampInv
<1>6. StampInv'
  BY <1>1, <1>2, <1>5 DEF StampInv
<1>7. QED
  BY <1>3, <1>4, <1>6 DEF InstallInv

(* the files are downloaded,                                               *)
LEMMA FilesKeep ==
    ASSUME InstallInv, downloadFiles
    PROVE  InstallInv'
<1>1. /\ run.pc = "files" /\ run' = [run EXCEPT !.pc = "unpack"]
      /\ shared' = IF shared = run.line THEN shared ELSE "mixed"
      /\ UNCHANGED <<layoutVars, launch, runtime, install, wentBack>>
  BY DEF downloadFiles, stampVars
<1>2. RunShape(run') /\ run'.pc = "unpack" /\ run'.line = run.line
  BY <1>1, PreparingIs, RunTurned
<1>3. MoveInv'
  BY <1>1, <1>2, PreparingIs, MoveStays
<1>4. InstallShape'
  BY <1>1, <1>2 DEF InstallInv, InstallShape, layoutVars
<1>5. install = run.line
  BY <1>1 DEF InstallInv, StampInv
<1>6. StampInv'
  BY <1>1, <1>2, <1>5 DEF InstallInv, StampInv
<1>7. QED
  BY <1>3, <1>4, <1>6 DEF InstallInv

(* Another Java is put in place of the one of the launch profile that is   *)
(* still there, whose stamp is not the recorded one.                       *)
LEMMA RuntimeKeeps ==
    ASSUME InstallInv, downloadRuntime
    PROVE  InstallInv'
<1>1. /\ run.pc = "unpack" /\ run.todo # {} /\ UNCHANGED <<layoutVars, launch, shared, install, wentBack>>
      /\ \/ /\ launch[Target] # run.line
            /\ runtime' = [runtime EXCEPT ![Target] = NoLine] /\ run' = [run EXCEPT !.pc = "swap"]
         \/ runtime' = [runtime EXCEPT ![Target] = run.line] /\ run' = [run EXCEPT !.pc = "extra"]
  BY DEF downloadRuntime, MayHaveAnotherJava, Preparing, stampVars
<1>2. /\ RunShape(run') /\ run'.pc \in {"swap", "extra"} /\ run'.line = run.line /\ run'.todo = run.todo
      /\ run'.pc = "extra" => runtime' = [runtime EXCEPT ![Target] = run.line]
  <2>1. RunShape(run)
    BY <1>1, PreparingIs
  <2>2. CASE run' = [run EXCEPT !.pc = "swap"]
    BY <2>1, <2>2, RunTurned
  <2>3. CASE run' = [run EXCEPT !.pc = "extra"]
    <3>1. RunShape(run') /\ run'.pc = "extra" /\ run'.line = run.line /\ run'.todo = run.todo
      BY <2>1, <2>3, RunTurned
    <3>2. run' # [run EXCEPT !.pc = "swap"]
      BY <2>1, <3>1, RunTurned
    <3>3. QED
      BY <1>1, <3>1, <3>2
  <2>4. QED
    BY <1>1, <2>2, <2>3
<1>3. MoveInv'
  BY <1>1, <1>2, PreparingIs, MoveStays
<1>4. InstallShape'
  BY <1>1, <1>2 DEF InstallInv, InstallShape, layoutVars
<1>5. install = run.line
  BY <1>1 DEF InstallInv, StampInv
<1>6. Target \in Platforms /\ Target' = Target
  BY <1>1, <1>2, PreparingIs DEF Target
<1>7. ASSUME ~ wentBack, install # NoLine, NEW p \in Platforms, launch[p] = install
      PROVE  runtime'[p] = install
  <2>1. runtime[p] = install
    BY <1>7 DEF InstallInv, StampInv
  <2>2. CASE p = Target
    BY <1>1, <1>4, <1>5, <1>6, <1>7, <2>2 DEF InstallInv, InstallShape
  <2>3. CASE p # Target
    BY <1>1, <1>6, <2>1, <2>3 DEF InstallInv, InstallShape
  <2>4. QED
    BY <2>2, <2>3
<1>8. run'.pc = "extra" => runtime'[Target'] = run'.line
  BY <1>2, <1>6 DEF InstallInv, InstallShape
<1>9. StampInv'
  BY <1>1, <1>2, <1>5, <1>7, <1>8 DEF InstallInv, StampInv
<1>10. QED
  BY <1>3, <1>4, <1>9 DEF InstallInv

(* the Java of a platform is put in place.                                 *)
LEMMA SwapKeeps ==
    ASSUME InstallInv, swapRuntime
    PROVE  InstallInv'
<1>1. /\ run.pc = "swap" /\ run.todo # {} /\ UNCHANGED <<layoutVars, launch, shared, install, wentBack>>
      /\ runtime' = [runtime EXCEPT ![Target] = run.line] /\ run' = [run EXCEPT !.pc = "extra"]
  BY DEF swapRuntime, Preparing, stampVars
<1>2. RunShape(run') /\ run'.pc = "extra" /\ run'.line = run.line /\ run'.todo = run.todo
  BY <1>1, PreparingIs, RunTurned
<1>3. MoveInv'
  BY <1>1, <1>2, PreparingIs, MoveStays
<1>4. InstallShape'
  BY <1>1, <1>2 DEF InstallInv, InstallShape, layoutVars
<1>5. install = run.line
  BY <1>1 DEF InstallInv, StampInv
<1>6. Target \in Platforms /\ Target' = Target
  BY <1>1, <1>2, PreparingIs DEF Target
<1>7. runtime'[Target] = run.line /\ \A p \in Platforms : p # Target => runtime'[p] = runtime[p]
  BY <1>1, <1>6 DEF InstallInv, InstallShape
<1>8. StampInv'
  BY <1>1, <1>2, <1>5, <1>6, <1>7 DEF InstallInv, StampInv
<1>9. QED
  BY <1>3, <1>4, <1>8 DEF InstallInv

(* The loader, the mods of the recipe and authlib complete the files.      *)
LEMMA ExtraKeeps ==
    ASSUME InstallInv, downloadExtraFiles
    PROVE  InstallInv'
<1>1. /\ run.pc = "extra" /\ run.todo # {} /\ shared' = run.line /\ run' = [run EXCEPT !.pc = "launch"]
      /\ UNCHANGED <<layoutVars, launch, runtime, install, wentBack>>
  BY DEF downloadExtraFiles, Preparing, stampVars
<1>2. RunShape(run') /\ run'.pc = "launch" /\ run'.line = run.line /\ run'.todo = run.todo
  BY <1>1, PreparingIs, RunTurned
<1>3. MoveInv'
  BY <1>1, <1>2, PreparingIs, MoveStays
<1>4. InstallShape'
  BY <1>1, <1>2 DEF InstallInv, InstallShape, layoutVars
<1>5. install = run.line /\ runtime[Target] = run.line /\ Target' = Target
  BY <1>1, <1>2 DEF InstallInv, StampInv, Target
<1>6. StampInv'
  BY <1>1, <1>2, <1>5 DEF InstallInv, StampInv
<1>7. QED
  BY <1>3, <1>4, <1>6 DEF InstallInv

(* The stamp comes when the platform has its files and its Java.           *)
LEMMA LaunchKeeps ==
    ASSUME InstallInv, writeLaunchProfile
    PROVE  InstallInv'
<1>1. /\ run.pc = "launch" /\ run.todo # {} /\ launch' = [launch EXCEPT ![Target] = run.line]
      /\ moved' = moved \cup {Target}
      /\ run' = [run EXCEPT !.pc = "files", !.todo = run.todo \ {Target}, !.built = run.built \cup {Target}]
      /\ UNCHANGED <<mark, oldDir, oldParts, rootMod, ownMod, orig, runtime, shared, install, wentBack>>
  BY DEF writeLaunchProfile, Preparing, stampVars
<1>2. Target \in Platforms /\ RunShape(run) /\ run # NoRun /\ run.pc # "share"
  BY <1>1, PreparingIs
<1>3. run.todo \ {Target} \in SUBSET Platforms /\ run.built \cup {Target} \in SUBSET Platforms
  BY <1>2 DEF RunShape
<1>4. RunShape(run') /\ run'.pc = "files" /\ run'.line = run.line
  <2>1. PICK S \in SUBSET Platforms, B \in SUBSET Platforms : S = run.todo \ {Target} /\ B = run.built \cup {Target}
    BY <1>3
  <2>2. run' = [run EXCEPT !.pc = "files", !.todo = S, !.built = B]
    BY <1>1, <2>1
  <2>3. RunShape(run)
    BY <1>2
  <2>4. QED
    BY <2>2, <2>3 DEF RunShape
<1>5. ~ mark /\ oldDir = {} /\ \A p \in Platforms : Placed(p) /\ PartsOK(p)
  BY <1>2 DEF InstallInv, MoveInv
<1>6. ~ mark' /\ oldDir' = {} /\ \A p \in Platforms : Placed(p)' /\ PartsOK(p)'
  BY <1>1, <1>5 DEF Placed, PlatformView, PartsOK, Unmoved
<1>7. MoveInv'
  BY <1>4, <1>6 DEF MoveInv
<1>8. InstallShape'
  BY <1>1, <1>2, <1>4 DEF InstallInv, InstallShape
<1>9. install = run.line /\ shared = run.line /\ runtime[Target] = run.line
  BY <1>1 DEF InstallInv, StampInv
<1>10. \A p \in Platforms : p # Target => launch'[p] = launch[p]
  BY <1>1 DEF InstallInv, InstallShape
<1>11. StampInv'
  BY <1>1, <1>4, <1>9, <1>10 DEF InstallInv, StampInv
<1>12. QED
  BY <1>7, <1>8, <1>11 DEF InstallInv

(* A platform that is skipped may leave the shared files mixed; then none  *)
(* had the stamp.                                                          *)
LEMMA FailKeeps ==
    ASSUME InstallInv, PrepareFails
    PROVE  InstallInv'
<1>1. /\ run.pc \in {"files", "unpack", "swap", "extra", "launch"} /\ run.todo # {}
      /\ shared' = shared \/ shared # run.line
      /\ run' = [run EXCEPT !.pc = "files", !.todo = run.todo \ {Target}]
      /\ UNCHANGED <<layoutVars, launch, runtime, install, wentBack>>
  BY DEF PrepareFails, Preparing, stampVars
<1>2. RunShape(run) /\ run # NoRun /\ run.pc # "share"
  BY <1>1, PreparingIs
<1>3. run.todo \ {Target} \in SUBSET Platforms
  BY <1>2 DEF RunShape
<1>4. RunShape(run') /\ run'.pc = "files" /\ run'.line = run.line
  BY <1>1, <1>2, <1>3, RunNext
<1>5. MoveInv'
  BY <1>1, <1>2, <1>4, MoveStays
<1>6. InstallShape'
  BY <1>1, <1>4 DEF InstallInv, InstallShape, layoutVars
<1>7. install = run.line
  BY <1>1 DEF InstallInv, StampInv
<1>8. StampInv'
  BY <1>1, <1>4, <1>7 DEF InstallInv, StampInv
<1>9. QED
  BY <1>5, <1>6, <1>8 DEF InstallInv

(* The command ends, or the process stops.                                 *)
LEMMA EndKeeps ==
    ASSUME InstallInv, run # NoRun, run' = NoRun, UNCHANGED <<layoutVars, launch, runtime, shared, install, wentBack>>
    PROVE  InstallInv'
<1>1. MoveInv'
  BY NoRunIs, MoveStays, MoveCut
<1>2. InstallShape'
  BY DEF InstallInv, InstallShape, layoutVars
<1>3. StampInv'
  BY NoRunIs DEF InstallInv, StampInv
<1>4. QED
  BY <1>1, <1>2, <1>3 DEF InstallInv

(* Every step of an install, of its failures and of the move to the shared *)
(* layout.                                                                 *)
LEMMA InstallStep == InstallInv /\ [InstallNext]_installVars => InstallInv'
<1> SUFFICES ASSUME InstallInv, [InstallNext]_installVars PROVE InstallInv'
  OBVIOUS
<1>1. CASE UNCHANGED installVars
  <2>1. InstallShape' /\ StampInv'
    BY <1>1 DEF InstallInv, InstallShape, StampInv, Target, installVars
  <2>2. MoveInv'
    BY <1>1 DEF InstallInv, MoveInv, ShareOK, OneBegun, PartsOK, Unmoved, Placed, PlatformView, installVars
  <2>3. QED
    BY <2>1, <2>2 DEF InstallInv
<1>2. CASE \E line \in Lines, targets \in (SUBSET Platforms) \ {{}} : prepareStart(line, targets)
  BY <1>2, StartKeeps
<1>3. CASE rememberRecipe
  <2>1. run # NoRun
    BY <1>3, NoRunIs DEF rememberRecipe
  <2>2. QED
    BY <1>3, <2>1, EndKeeps DEF rememberRecipe
<1>4. CASE InstallCrash
  BY <1>4, EndKeeps DEF InstallCrash, stampVars
<1>5. CASE shareCommonFiles
  BY <1>5, ShareKeeps
<1>6. CASE recordInstall \/ downloadFiles \/ downloadRuntime \/ swapRuntime
             \/ downloadExtraFiles \/ writeLaunchProfile \/ PrepareFails
  BY <1>6, RecordKeeps, FilesKeep, RuntimeKeeps, SwapKeeps, ExtraKeeps, LaunchKeeps, FailKeeps
<1>7. QED
  BY <1>1, <1>2, <1>3, <1>4, <1>5, <1>6 DEF InstallNext

(* Players of every platform get whole files, wherever the installs and    *)
(* the move to the shared layout were cut off: a publish accepts only      *)
(* platforms that have the Java and the files of the recorded line, and    *)
(* no file of the old layout is lost.                                      *)
THEOREM PlatformsAlwaysWhole == InstallSpec => []PlatformsWhole
<1>1. InstallInv /\ [InstallNext]_installVars => InstallInv'
  BY InstallStep
<1>2. QED
  BY <1>1, InstallStarts, InstallInvWhole, PTL DEF InstallSpec

----------------------------------------------------------------------------
(* Media: the bytes of the mirror. *)

(* A nonempty set of natural numbers has a least element.                  *)
LEMMA LeastIs ==
  ASSUME NEW S, S \subseteq Nat, S # {}
  PROVE  \E x \in S : \A y \in S : x <= y
<1> DEFINE R == OpToRel(<, Nat)
<1>1. R = {ss \in Nat \X Nat : ss[1] < ss[2]}
  BY DEF OpToRel
<1>2. IsWellFoundedOn(R, Nat)
  BY NatLessThanWellFounded
<1> HIDE DEF R
<1>3. PICK x \in S : \A y \in S : ~(<<y, x>> \in R)
  BY <1>2, WFMin
<1>4. \A y \in S : x <= y
  <2> SUFFICES ASSUME NEW y \in S, y < x PROVE FALSE
    OBVIOUS
  <2> DEFINE p == <<y, x>>
  <2>1. p \in Nat \X Nat /\ p[1] < p[2]
    OBVIOUS
  <2> HIDE DEF p
  <2>2. p \in R
    BY <1>1, <2>1
  <2> QED
    BY <1>3, <2>2 DEF p
<1> QED
  BY <1>4

(* f counts the bytes of the first k pictures of a sequence, one by one.   *)
IsCount(f, s, k) ==
  /\ f = [n \in 0 .. k |-> f[n]]
  /\ f[0] = 0
  /\ \A n \in 1 .. k : f[n] = f[n - 1] + Bytes[s[n]]

(* t is the j pictures of s after the first d; the first k of s are        *)
(* pictures.                                                               *)
IsPart(t, s, d, j) == \A n \in 1 .. j : t[n] = s[d + n]
OfPictures(s, k) == \A n \in 1 .. k : s[n] \in Pictures

(* Such a count exists,                                                    *)
LEMMA CountsExist ==
  ASSUME NEW s, NEW k \in Nat
  PROVE  \E f : IsCount(f, s, k)
<1> DEFINE T == {n \in Nat : ~\E f : IsCount(f, s, n)}
<1> SUFFICES ASSUME k \in T PROVE FALSE
  OBVIOUS
<1>1. T \subseteq Nat /\ T # {}
  OBVIOUS
<1>2. PICK m \in T : \A n \in T : m <= n
  BY <1>1, LeastIs
<1>3. m # 0
  <2> SUFFICES ASSUME m = 0 PROVE FALSE
    OBVIOUS
  <2> DEFINE f == [n \in 0 .. 0 |-> 0]
  <2>1. IsCount(f, s, 0)
    BY DEF IsCount
  <2> QED
    BY <1>2, <2>1
<1>4. m \in Nat /\ m - 1 \in Nat /\ m - 1 \notin T
  BY <1>1, <1>2, <1>3
<1>5. PICK f : IsCount(f, s, m - 1)
  BY <1>4
<1> DEFINE g == [n \in 0 .. m |-> IF n = m THEN f[m - 1] + Bytes[s[m]] ELSE f[n]]
<1>6. g = [n \in 0 .. m |-> g[n]]
  OBVIOUS
<1>7. g[0] = 0
  BY <1>3, <1>4, <1>5 DEF IsCount
<1>8. ASSUME NEW n \in 1 .. m PROVE g[n] = g[n - 1] + Bytes[s[n]]
  <2>1. n - 1 \in 0 .. m /\ n \in 0 .. m /\ n - 1 # m /\ g[n - 1] = f[n - 1]
    BY <1>4
  <2>2. CASE n = m
    BY <2>1, <2>2
  <2>3. CASE n # m
    <3>1. n \in 1 .. m - 1 /\ g[n] = f[n]
      BY <1>4, <2>1, <2>3
    <3> QED
      BY <1>5, <2>1, <3>1 DEF IsCount
  <2> QED
    BY <2>2, <2>3
<1> HIDE DEF g
<1>9. IsCount(g, s, m)
  BY <1>6, <1>7, <1>8 DEF IsCount
<1> QED
  BY <1>2, <1>9

(* and TotalBytes is the last number of it.                                *)
LEMMA TotalIs ==
  ASSUME NEW s, Len(s) \in Nat
  PROVE  \E f : IsCount(f, s, Len(s)) /\ TotalBytes(s) = f[Len(s)]
<1> DEFINE Is(f) == f = [n \in 0 .. Len(s) |-> IF n = 0 THEN 0 ELSE f[n - 1] + Bytes[s[n]]]
           count == CHOOSE f : Is(f)
<1>1. TotalBytes(s) = count[Len(s)]
  BY Zenon DEF TotalBytes
<1>2. PICK f : IsCount(f, s, Len(s))
  BY CountsExist
<1>3. Is(f)
  <2>1. ASSUME NEW n \in 0 .. Len(s) PROVE f[n] = IF n = 0 THEN 0 ELSE f[n - 1] + Bytes[s[n]]
    <3>1. n = 0 \/ n \in 1 .. Len(s)
      OBVIOUS
    <3>2. f[0] = 0 /\ \A i \in 1 .. Len(s) : f[i] = f[i - 1] + Bytes[s[i]]
      BY <1>2 DEF IsCount
    <3> QED
      BY <3>1, <3>2
  <2>2. f = [n \in 0 .. Len(s) |-> f[n]]
    BY <1>2 DEF IsCount
  <2> QED
    BY <2>1, <2>2
<1>4. Is(count)
  BY <1>3, Zenon
<1> HIDE DEF count
<1>5. IsCount(count, s, Len(s))
  <2>1. \A n \in 0 .. Len(s) : count[n] = IF n = 0 THEN 0 ELSE count[n - 1] + Bytes[s[n]]
    BY <1>4
  <2>2. DOMAIN count = 0 .. Len(s) /\ count = [n \in 0 .. Len(s) |-> count[n]]
    BY <1>4
  <2>3. count[0] = 0
    BY <2>1
  <2>4. \A n \in 1 .. Len(s) : count[n] = count[n - 1] + Bytes[s[n]]
    BY <2>1
  <2> QED
    BY <2>2, <2>3, <2>4 DEF IsCount
<1> QED
  BY <1>1, <1>5

(* Its numbers are natural,                                                *)
LEMMA CountTyped ==
  ASSUME NEW s, NEW k \in Nat, NEW f, IsCount(f, s, k), OfPictures(s, k)
  PROVE  \A n \in 0 .. k : f[n] \in Nat
<1> DEFINE T == {n \in 0 .. k : f[n] \notin Nat}
<1> SUFFICES ASSUME T # {} PROVE FALSE
  OBVIOUS
<1>1. T \subseteq Nat
  OBVIOUS
<1>2. PICK m \in T : \A n \in T : m <= n
  BY <1>1, LeastIs
<1>3. m \in 0 .. k /\ f[m] \notin Nat
  BY <1>2
<1>4. m # 0
  BY <1>3 DEF IsCount
<1>5. m \in 1 .. k /\ m - 1 \in 0 .. k
  BY <1>3, <1>4
<1>6. f[m - 1] \in Nat
  BY <1>2, <1>5
<1>7. f[m] = f[m - 1] + Bytes[s[m]] /\ Bytes[s[m]] \in Nat
  BY <1>5, MediaAssumption DEF IsCount, OfPictures, IsPart
<1> QED
  BY <1>3, <1>6, <1>7

(* and part of a sequence counts the difference.                           *)
LEMMA CountsAgree ==
  ASSUME NEW s, NEW t, NEW k \in Nat, NEW j \in Nat, NEW d \in Nat, d + j <= k, NEW f, NEW g,
         IsCount(f, s, k), IsCount(g, t, j), IsPart(t, s, d, j), OfPictures(s, k)
  PROVE  g[j] = f[d + j] - f[d]
<1>0. \A n \in 0 .. k : f[n] \in Nat
  BY CountTyped
<1> DEFINE T == {n \in 0 .. j : g[n] # f[d + n] - f[d]}
<1> SUFFICES ASSUME T # {} PROVE FALSE
  OBVIOUS
<1>1. T \subseteq Nat
  OBVIOUS
<1>2. PICK m \in T : \A n \in T : m <= n
  BY <1>1, LeastIs
<1>3. m \in 0 .. j /\ g[m] # f[d + m] - f[d]
  BY <1>2
<1>4. m # 0
  <2> SUFFICES ASSUME m = 0 PROVE FALSE
    OBVIOUS
  <2>1. d + m = d /\ d \in 0 .. k /\ g[m] = 0
    BY DEF IsCount
  <2>2. f[d] \in Nat /\ f[d + m] = f[d]
    BY <1>0, <2>1
  <2> QED
    BY <1>3, <2>1, <2>2
<1>5. PICK a \in Nat, b \in Nat : a = d + m /\ b = m - 1
  BY <1>3, <1>4
<1>6. /\ m \in 1 .. j /\ b \in 0 .. j /\ a \in 1 .. k /\ a - 1 \in 0 .. k /\ a - 1 = d + b /\ d \in 0 .. k
      /\ b \notin T
  BY <1>2, <1>3, <1>4, <1>5
<1>7. g[b] = f[a - 1] - f[d]
  BY <1>6
<1>8. g[m] = g[m - 1] + Bytes[t[m]] /\ f[a] = f[a - 1] + Bytes[s[a]] /\ t[m] = s[a] /\ Bytes[s[a]] \in Nat
  BY <1>5, <1>6, MediaAssumption DEF IsCount, OfPictures, IsPart
<1>9. f[a - 1] \in Nat /\ f[d] \in Nat
  BY <1>0, <1>6
<1> QED
  BY <1>3, <1>5, <1>7, <1>8, <1>9

(* The bytes of the end of a sequence are those of all of it without those *)
(* of its beginning.                                                       *)
LEMMA PartCounted ==
  ASSUME NEW s \in Seq(Pictures), NEW n \in 0 .. Len(s)
  PROVE  /\ TotalBytes(SubSeq(s, n + 1, Len(s))) \in Nat
         /\ TotalBytes(SubSeq(s, 1, n)) \in Nat
         /\ TotalBytes(SubSeq(s, n + 1, Len(s))) = TotalBytes(s) - TotalBytes(SubSeq(s, 1, n))
         /\ TotalBytes(s) \in Nat
<1>0. PICK k \in Nat, d \in Nat, j \in Nat, q \in Nat : k = Len(s) /\ d = n /\ j = k - n /\ q = n + 1
  OBVIOUS
<1>1. OfPictures(s, k) /\ \A i \in 1 .. k : s[i] \in Pictures
  BY <1>0 DEF OfPictures
<1>2. PICK a : a = SubSeq(s, 1, d)
  OBVIOUS
<1>3. PICK b : b = SubSeq(s, q, k)
  OBVIOUS
<1>4. a \in Seq(Pictures) /\ Len(a) = d /\ IsPart(a, s, 0, d)
  <2>1. \A i \in 1 .. d : s[i] \in Pictures
    BY <1>0, <1>1
  <2>2. /\ SubSeq(s, 1, d) \in Seq(Pictures) /\ Len(SubSeq(s, 1, d)) = IF 1 <= d THEN d - 1 + 1 ELSE 0
        /\ \A i \in 1 .. d - 1 + 1 : SubSeq(s, 1, d)[i] = s[1 + i - 1]
    BY <2>1, SubSeqProperties
  <2>3. /\ a \in Seq(Pictures) /\ Len(a) = IF 1 <= d THEN d - 1 + 1 ELSE 0
        /\ \A i \in 1 .. d - 1 + 1 : a[i] = s[1 + i - 1]
    BY <1>2, <2>2
  <2> QED
    BY <2>3 DEF IsPart
<1>5. b \in Seq(Pictures) /\ Len(b) = j /\ IsPart(b, s, d, j)
  <2>1. \A i \in q .. k : s[i] \in Pictures
    BY <1>0, <1>1
  <2>2. /\ SubSeq(s, q, k) \in Seq(Pictures) /\ Len(SubSeq(s, q, k)) = IF q <= k THEN k - q + 1 ELSE 0
        /\ \A i \in 1 .. k - q + 1 : SubSeq(s, q, k)[i] = s[q + i - 1]
    BY <2>1, SubSeqProperties
  <2>3. /\ b \in Seq(Pictures) /\ Len(b) = IF q <= k THEN k - q + 1 ELSE 0
        /\ \A i \in 1 .. k - q + 1 : b[i] = s[q + i - 1]
    BY <1>3, <2>2
  <2> QED
    BY <1>0, <2>3 DEF IsPart
<1>6. PICK f : IsCount(f, s, k) /\ TotalBytes(s) = f[k]
  BY <1>0, TotalIs
<1>7. PICK g : IsCount(g, a, d) /\ TotalBytes(a) = g[d]
  BY <1>4, TotalIs
<1>8. PICK h : IsCount(h, b, j) /\ TotalBytes(b) = h[j]
  BY <1>5, TotalIs
<1>9. \A i \in 0 .. k : f[i] \in Nat
  BY <1>1, <1>6, CountTyped
<1>10. g[d] = f[0 + d] - f[0]
  <2>1. 0 \in Nat /\ 0 + d <= k
    BY <1>0
  <2> QED
    BY <1>1, <1>4, <1>6, <1>7, <2>1, CountsAgree
<1>11. h[j] = f[d + j] - f[d] /\ d + j = k
  <2>1. d + j <= k /\ d + j = k
    BY <1>0
  <2>3. h[j] = f[d + j] - f[d]
    BY <1>1, <1>5, <1>6, <1>8, <2>1, CountsAgree
  <2> QED
    BY <2>1, <2>3
<1>12. f[0] = 0 /\ 0 \in 0 .. k /\ d \in 0 .. k /\ k \in 0 .. k
  BY <1>0, <1>6 DEF IsCount
<1>13. TotalBytes(a) = f[d] /\ TotalBytes(b) = f[k] - f[d]
  <2>1. 0 + d = d /\ f[d] \in Nat
    BY <1>9, <1>12
  <2>2. TotalBytes(a) = f[0 + d] - 0
    BY <1>7, <1>10, <1>12
  <2>3. TotalBytes(a) = f[d]
    BY <2>1, <2>2
  <2> QED
    BY <1>8, <1>11, <2>3
<1>14. TotalBytes(b) \in Nat
  <2>1. \A i \in 0 .. j : h[i] \in Nat
    <3>1. OfPictures(b, j)
      BY <1>5 DEF OfPictures
    <3> QED
      BY <1>8, <3>1, CountTyped
  <2> QED
    BY <1>8, <2>1
<1>15. SubSeq(s, n + 1, Len(s)) = b /\ SubSeq(s, 1, n) = a
  BY <1>0, <1>2, <1>3
<1> QED
  BY <1>6, <1>9, <1>12, <1>13, <1>14, <1>15

(* One picture more is its bytes more.                                     *)
LEMMA OneMoreCounted ==
  ASSUME NEW s \in Seq(Pictures), NEW p \in Pictures
  PROVE  TotalBytes(Append(s, p)) = TotalBytes(s) + Bytes[p]
<1>1. PICK t : t = Append(s, p)
  OBVIOUS
<1>2. /\ Len(s) \in Nat /\ Len(t) = Len(s) + 1 /\ t[Len(s) + 1] = p
      /\ \A n \in 1 .. Len(s) : t[n] = s[n]
  BY <1>1, AppendProperties
<1>3. PICK k \in Nat, q \in Nat : k = Len(s) /\ q = k + 1
  BY <1>2
<1>4. PICK f : IsCount(f, t, q) /\ TotalBytes(t) = f[q]
  BY <1>2, <1>3, TotalIs
<1>5. PICK g : IsCount(g, s, k) /\ TotalBytes(s) = g[k]
  BY <1>3, TotalIs
<1>6. t \in Seq(Pictures)
  BY <1>1
<1>7. OfPictures(t, q)
  BY <1>2, <1>3, <1>6 DEF OfPictures
<1>8. \A i \in 0 .. q : f[i] \in Nat
  BY <1>4, <1>7, CountTyped
<1>9. g[k] = f[0 + k] - f[0]
  <2>1. 0 \in Nat /\ 0 + k <= q /\ IsPart(s, t, 0, k)
    BY <1>2, <1>3 DEF IsPart
  <2> QED
    BY <1>4, <1>5, <1>7, <2>1, CountsAgree
<1>10. f[0] = 0 /\ f[q] = f[q - 1] + Bytes[t[q]] /\ q - 1 = k /\ k \in 0 .. q /\ t[q] = p
  BY <1>2, <1>3, <1>4 DEF IsCount
<1> QED
  BY <1>1, <1>4, <1>5, <1>8, <1>9, <1>10

(* As many of the oldest go as it takes, and the newest stays.             *)
LEMMA DroppedIs ==
  ASSUME NEW s \in Seq(Pictures), s # <<>>
  PROVE  /\ Dropped(s) \in 0 .. Len(s) - 1
         /\ \/ Dropped(s) = Len(s) - 1
            \/ TotalBytes(SubSeq(s, Dropped(s) + 1, Len(s))) <= MirrorTotal
<1>0. Len(s) \in Nat /\ Len(s) # 0 /\ Len(s) - 1 \in 0 .. Len(s) - 1
  OBVIOUS
<1> DEFINE Rest(n) == TotalBytes(SubSeq(s, n + 1, Len(s)))
           Enough(n) == n = Len(s) - 1 \/ Rest(n) <= MirrorTotal
           T == {n \in 0 .. (Len(s) - 1) : Enough(n)}
<1>1. T \subseteq Nat /\ Len(s) - 1 \in T
  BY <1>0
<1>2. PICK m \in T : \A n \in T : m <= n
  BY <1>1, LeastIs
<1>3. m \in 0 .. (Len(s) - 1) /\ Enough(m)
  BY <1>2
<1>4. ASSUME NEW n \in 0 .. (m - 1) PROVE Rest(n) > MirrorTotal
  <2>1. n \in 0 .. (Len(s) - 1) /\ n \notin T
    BY <1>0, <1>2, <1>3
  <2>2. ~(Rest(n) <= MirrorTotal)
    BY <2>1
  <2>3. Rest(n) \in Nat /\ MirrorTotal \in Nat
    <3>1. n \in 0 .. Len(s)
      BY <1>0, <2>1
    <3> QED
      BY <3>1, PartCounted, MediaAssumption
  <2> HIDE DEF Rest
  <2> QED
    BY <2>2, <2>3
<1>5. Dropped(s) = CHOOSE n \in 0 .. (Len(s) - 1) : Enough(n) /\ \A i \in 0 .. (n - 1) : Rest(i) > MirrorTotal
  BY Zenon DEF Dropped
<1> HIDE DEF Rest, T
<1>7. Dropped(s) \in 0 .. (Len(s) - 1) /\ Enough(Dropped(s))
  BY <1>3, <1>4, <1>5, Zenon
<1> QED
  BY <1>7 DEF Rest

-----------------------------------------------------------------------------
(* The inductive invariant.                                                *)

Distinct(s) == \A i, j \in 1 .. Len(s) : s[i] = s[j] => i = j

(* What the mirror holds.                                                  *)
HeldInv ==
  /\ order \in Seq(Pictures) /\ Distinct(order) /\ kept = Range(order)
  /\ bytes = TotalBytes(order)
  /\ bytes <= MirrorTotal \/ Len(order) = 1

(* What is left of a sequence without duplicates after its first d.        *)
LEMMA EndIs ==
  ASSUME NEW s \in Seq(Pictures), Distinct(s), NEW d \in 0 .. Len(s)
  PROVE  /\ SubSeq(s, d + 1, Len(s)) \in Seq(Pictures) /\ Len(SubSeq(s, d + 1, Len(s))) = Len(s) - d
         /\ Distinct(SubSeq(s, d + 1, Len(s)))
         /\ Range(SubSeq(s, d + 1, Len(s))) = Range(s) \ Range(SubSeq(s, 1, d))
<1>0. PICK k \in Nat, n \in Nat, q \in Nat : k = Len(s) /\ n = d /\ q = d + 1
  OBVIOUS
<1>1. \A i \in 1 .. k : s[i] \in Pictures
  BY <1>0
<1>2. PICK a : a = SubSeq(s, 1, n)
  OBVIOUS
<1>3. PICK b : b = SubSeq(s, q, k)
  OBVIOUS
<1>4. a \in Seq(Pictures) /\ Len(a) = n /\ \A i \in 1 .. n : a[i] = s[i]
  <2>1. \A i \in 1 .. n : s[i] \in Pictures
    BY <1>0, <1>1
  <2>2. /\ SubSeq(s, 1, n) \in Seq(Pictures) /\ Len(SubSeq(s, 1, n)) = IF 1 <= n THEN n - 1 + 1 ELSE 0
        /\ \A i \in 1 .. n - 1 + 1 : SubSeq(s, 1, n)[i] = s[1 + i - 1]
    BY <2>1, SubSeqProperties
  <2>3. /\ a \in Seq(Pictures) /\ Len(a) = IF 1 <= n THEN n - 1 + 1 ELSE 0
        /\ \A i \in 1 .. n - 1 + 1 : a[i] = s[1 + i - 1]
    BY <1>2, <2>2
  <2> QED
    BY <2>3
<1>5. b \in Seq(Pictures) /\ Len(b) = k - n /\ \A i \in 1 .. k - n : b[i] = s[n + i]
  <2>1. \A i \in q .. k : s[i] \in Pictures
    BY <1>0, <1>1
  <2>2. /\ SubSeq(s, q, k) \in Seq(Pictures) /\ Len(SubSeq(s, q, k)) = IF q <= k THEN k - q + 1 ELSE 0
        /\ \A i \in 1 .. k - q + 1 : SubSeq(s, q, k)[i] = s[q + i - 1]
    BY <2>1, SubSeqProperties
  <2>3. /\ b \in Seq(Pictures) /\ Len(b) = IF q <= k THEN k - q + 1 ELSE 0
        /\ \A i \in 1 .. k - q + 1 : b[i] = s[q + i - 1]
    BY <1>3, <2>2
  <2> QED
    BY <1>0, <2>3
<1>6. \A i, j \in 1 .. k : s[i] = s[j] => i = j
  BY <1>0 DEF Distinct
<1>7. Distinct(b)
  <2> SUFFICES ASSUME NEW i \in 1 .. k - n, NEW j \in 1 .. k - n, b[i] = b[j] PROVE i = j
    BY <1>5 DEF Distinct
  <2>1. n + i \in 1 .. k /\ n + j \in 1 .. k
    BY <1>0
  <2>2. s[n + i] = s[n + j]
    BY <1>5
  <2>3. n + i = n + j
    BY <1>6, <2>1, <2>2
  <2> QED
    BY <2>3
<1>8. DOMAIN a = 1 .. n /\ DOMAIN b = 1 .. k - n /\ DOMAIN s = 1 .. k
  BY <1>0, <1>4, <1>5
<1>9. Range(b) \subseteq Range(s) \ Range(a)
  <2> SUFFICES ASSUME NEW i \in 1 .. k - n PROVE b[i] \in Range(s) \ Range(a)
    BY <1>8 DEF Range
  <2>1. n + i \in 1 .. k /\ b[i] = s[n + i]
    BY <1>0, <1>5
  <2>2. ASSUME NEW j \in 1 .. n, a[j] = b[i] PROVE FALSE
    <3>1. j \in 1 .. k /\ s[j] = s[n + i] /\ j # n + i
      BY <1>0, <1>4, <2>1, <2>2
    <3> QED
      BY <1>6, <2>1, <3>1
  <2> QED
    BY <1>8, <2>1, <2>2 DEF Range
<1>10. Range(s) \ Range(a) \subseteq Range(b)
  <2> SUFFICES ASSUME NEW i \in 1 .. k, s[i] \notin Range(a) PROVE s[i] \in Range(b)
    BY <1>8 DEF Range
  <2>1. ~(i \in 1 .. n)
    BY <1>4, <1>8 DEF Range
  <2>2. PICK j \in 1 .. k - n : i = n + j
    <3>1. i - n \in 1 .. k - n /\ i = n + (i - n)
      BY <1>0, <2>1
    <3> QED
      BY <3>1
  <2>3. b[j] = s[i]
    BY <1>5, <2>2
  <2> QED
    BY <1>8, <2>3 DEF Range
<1>11. SubSeq(s, d + 1, Len(s)) = b /\ SubSeq(s, 1, d) = a
  BY <1>0, <1>2, <1>3
<1> QED
  BY <1>0, <1>5, <1>7, <1>9, <1>10, <1>11

(* keep, with a picture that is held and with a new one.                   *)
LEMMA KeepHolds ==
  ASSUME HeldInv, NEW p \in Pictures, keep(p)
  PROVE  HeldInv'
<1>1. CASE p \in kept
  BY <1>1 DEF keep, HeldInv
<1>2. CASE p \notin kept
  <2>1. KeepNew(p)
    BY <1>2 DEF keep
  <2>2. PICK old \in Seq(Pictures) : old = order /\ Distinct(old) /\ kept = Range(old) /\ bytes = TotalBytes(old)
    BY DEF HeldInv
  <2>3. PICK s \in Seq(Pictures) : s = Append(old, p)
    <3>1. Append(old, p) \in Seq(Pictures)
      BY AppendProperties
    <3> QED
      BY <3>1
  <2>4. /\ Len(old) \in Nat /\ Len(s) = Len(old) + 1 /\ s[Len(old) + 1] = p
        /\ \A n \in 1 .. Len(old) : s[n] = old[n]
    BY <2>3, AppendProperties
  <2>5. DOMAIN old = 1 .. Len(old) /\ DOMAIN s = 1 .. Len(s)
    OBVIOUS
  <2>6. \A n \in 1 .. Len(old) : s[n] # p
    BY <1>2, <2>2, <2>4, <2>5 DEF Range
  <2>7. Distinct(s)
    <3> SUFFICES ASSUME NEW i \in 1 .. Len(s), NEW j \in 1 .. Len(s), s[i] = s[j] PROVE i = j
      BY DEF Distinct
    <3>1. (i \in 1 .. Len(old) \/ i = Len(old) + 1) /\ (j \in 1 .. Len(old) \/ j = Len(old) + 1)
      BY <2>4
    <3>2. i \in 1 .. Len(old) /\ j \in 1 .. Len(old) => i = j
      BY <2>2, <2>4 DEF Distinct
    <3> QED
      BY <2>4, <2>6, <3>1, <3>2
  <2>8. Range(s) = kept \cup {p}
    <3>1. Range(s) \subseteq kept \cup {p}
      <4> SUFFICES ASSUME NEW i \in 1 .. Len(s) PROVE s[i] \in kept \cup {p}
        BY <2>5 DEF Range
      <4>1. i \in 1 .. Len(old) \/ i = Len(old) + 1
        BY <2>4
      <4> QED
        BY <2>2, <2>4, <2>5, <4>1 DEF Range
    <3>2. kept \cup {p} \subseteq Range(s)
      <4>1. Len(old) + 1 \in 1 .. Len(s) /\ \A i \in 1 .. Len(old) : i \in 1 .. Len(s)
        BY <2>4
      <4> QED
        BY <2>2, <2>4, <2>5, <4>1 DEF Range
    <3> QED
      BY <3>1, <3>2
  <2>9. s # <<>> /\ Len(s) \in Nat
    BY <2>4
  <2>10. PICK d : /\ d = Dropped(s) /\ d \in 0 .. Len(s) - 1
                  /\ d = Len(s) - 1 \/ TotalBytes(SubSeq(s, d + 1, Len(s))) <= MirrorTotal
    BY <2>9, DroppedIs
  <2>11. d \in 0 .. Len(s)
    BY <2>9, <2>10
  <2>12. PICK a, b : a = SubSeq(s, 1, d) /\ b = SubSeq(s, d + 1, Len(s))
    OBVIOUS
  <2>13. order' = b /\ kept' = (kept \cup {p}) \ Range(a) /\ bytes' = bytes + Bytes[p] - TotalBytes(a)
    BY <2>1, <2>2, <2>3, <2>10, <2>12 DEF KeepNew
  <2>14. b \in Seq(Pictures) /\ Len(b) = Len(s) - d /\ Distinct(b) /\ Range(b) = Range(s) \ Range(a)
    BY <2>7, <2>11, <2>12, EndIs
  <2>15. /\ TotalBytes(b) \in Nat /\ TotalBytes(a) \in Nat /\ TotalBytes(s) \in Nat
         /\ TotalBytes(b) = TotalBytes(s) - TotalBytes(a)
    BY <2>11, <2>12, PartCounted
  <2>16. TotalBytes(s) = TotalBytes(old) + Bytes[p]
    BY <2>3, OneMoreCounted
  <2>17. bytes' = TotalBytes(b) /\ kept' = Range(b)
    <3>1. bytes' = TotalBytes(s) - TotalBytes(a)
      <4>1. bytes' = TotalBytes(old) + Bytes[p] - TotalBytes(a)
        BY <2>2, <2>13, Zenon
      <4>2. Len(old) \in Nat /\ 0 \in 0 .. Len(old)
        BY <2>4
      <4>3. TotalBytes(old) \in Nat /\ Bytes[p] \in Nat
        BY <4>2, PartCounted, MediaAssumption
      <4> QED
        BY <2>15, <2>16, <4>1, <4>3
    <3>2. kept' = Range(b)
      BY <2>8, <2>13, <2>14
    <3> QED
      BY <2>15, <3>1, <3>2
  <2>18. TotalBytes(b) <= MirrorTotal \/ Len(b) = 1
    BY <2>9, <2>10, <2>12, <2>14
  <2> QED
    BY <2>13, <2>14, <2>17, <2>18 DEF HeldInv, Distinct
<1> QED
  BY <1>1, <1>2

(* A sequence without duplicates has as many places as elements.           *)
LEMMA HeldBounded == HeldInv => MirrorBounded
<1> SUFFICES ASSUME HeldInv PROVE MirrorBounded
  OBVIOUS
<1>1. PICK n \in Nat : n = Len(order) /\ DOMAIN order = 1 .. n
  BY DEF HeldInv
<1>2. order \in [1 .. n -> kept]
  BY <1>1 DEF HeldInv, Range
<1>3. \A i, j \in 1 .. n : order[i] = order[j] => i = j
  BY <1>1 DEF HeldInv, Distinct
<1>4. \A x \in kept : \E i \in 1 .. n : order[i] = x
  BY <1>1 DEF HeldInv, Range
<1>5. order \in Bijection(1 .. n, kept)
  BY <1>2, <1>3, <1>4 DEF Bijection, Injection, Surjection, IsInjective
<1>6. ExistsBijection(1 .. n, kept)
  BY <1>5 DEF ExistsBijection
<1>7. Cardinality(kept) = n
  BY <1>6, FS_CountingElements
<1> QED
  BY <1>1, <1>7 DEF HeldInv, MirrorBounded

-----------------------------------------------------------------------------
(* What the mirror shows.                                                  *)

(* A picture found at some moment was behind the URL (P) or behind it      *)
(* until that moment or later, or the site has failed (F) since.           *)
Sound(P, F, u, found, moment) == found = P[u].now \/ P[u].since >= moment \/ F >= moment

(* A call, at the time T: it began at most AnswerTime ago.                 *)
LookOK(P, F, T, l) ==
  \/ l = Resting
  \/ /\ l.pc \in {"fetch", "remember"} /\ l.url \in URLs
     /\ l.began \in Nat /\ l.began <= T /\ T <= l.began + AnswerTime
     /\ l.pc = "remember" => Sound(P, F, l.url, l.found, l.began)

(* What is remembered for a URL was found at most AnswerTime before.       *)
NameOK(P, F, T, u, n) ==
  \/ n = NeverAsked
  \/ /\ n.fetched \in Nat /\ n.fetched <= T
     /\ Sound(P, F, u, n.name, n.fetched - AnswerTime)

MirrorInv ==
  /\ mediaClock \in Nat /\ failedAt \in Int /\ failedAt <= mediaClock
  /\ picture \in [URLs -> [now : Pictures \cup {NoPicture}, since : Nat]]
  /\ names = [u \in URLs |-> names[u]] /\ looking = [c \in MediaCalls |-> looking[c]]
  /\ \A u \in URLs : picture[u].since <= mediaClock /\ NameOK(picture, failedAt, mediaClock, u, names[u])
  /\ \A c \in MediaCalls : LookOK(picture, failedAt, mediaClock, looking[c])

(* The constants of time are numbers.                                      *)
LEMMA MediaTimes == MirrorTTL \in Nat /\ AnswerTime \in Nat /\ NewsTTL \in Nat
BY MediaAssumption

(* What was sound stays so when a picture changes (at the time T) or the   *)
(* site fails.                                                             *)
LEMMA SoundStays ==
  ASSUME NEW P, NEW Q, NEW F \in Int, NEW G \in Int, NEW T \in Nat, NEW u, NEW found, NEW moment \in Int,
         moment <= T, F <= G, P[u].since \in Nat, Q[u] = P[u] \/ Q[u].since = T,
         Sound(P, F, u, found, moment)
  PROVE  Sound(Q, G, u, found, moment)
BY DEF Sound

(* A step of the world outside: a picture changes, the site fails, time    *)
(* passes, and then every call had time left.                              *)
Moved(P, F, T, Q, G, V) ==
  /\ T \in Nat /\ V \in {T, T + 1} /\ F \in Int /\ G \in Int /\ F <= G
  /\ \A u \in URLs : P[u].since \in Nat /\ (Q[u] = P[u] \/ Q[u].since = T)
TimeLeft(T, V, l) == V = T + 1 => (l # Resting => T - l.began < AnswerTime)

(* So a call and a name stay right, the call if its answer is in time.     *)
LEMMA LookStays ==
  ASSUME NEW P, NEW F, NEW T, NEW Q, NEW G, NEW V, Moved(P, F, T, Q, G, V),
         NEW l, LookOK(P, F, T, l), TimeLeft(T, V, l)
  PROVE  LookOK(Q, G, V, l)
<1>0. T \in Nat /\ V \in {T, T + 1} /\ F \in Int /\ G \in Int /\ F <= G
  BY DEF Moved
<1>1. CASE l = Resting
  BY <1>1 DEF LookOK
<1>2. CASE l # Resting
  <2>1. /\ l.pc \in {"fetch", "remember"} /\ l.url \in URLs
        /\ l.began \in Nat /\ l.began <= T /\ T <= l.began + AnswerTime
        /\ l.pc = "remember" => Sound(P, F, l.url, l.found, l.began)
    BY <1>2 DEF LookOK
  <2>2. l.began <= V /\ V <= l.began + AnswerTime
    BY <1>0, <1>2, <2>1, MediaTimes DEF TimeLeft
  <2>3. l.pc = "remember" => Sound(Q, G, l.url, l.found, l.began)
    <3> SUFFICES ASSUME l.pc = "remember" PROVE Sound(Q, G, l.url, l.found, l.began)
      OBVIOUS
    <3>1. PICK u \in URLs, moment \in Int : u = l.url /\ moment = l.began /\ moment <= T
      BY <2>1
    <3>2. Sound(P, F, u, l.found, moment) /\ P[u].since \in Nat /\ (Q[u] = P[u] \/ Q[u].since = T)
      BY <2>1, <3>1 DEF Moved
    <3>3. Sound(Q, G, u, l.found, moment)
      BY <1>0, <3>1, <3>2, SoundStays
    <3> QED
      BY <3>1, <3>3
  <2> QED
    BY <2>1, <2>2, <2>3 DEF LookOK
<1> QED
  BY <1>1, <1>2

(* A name needs no time left.                                              *)
LEMMA NameStays ==
  ASSUME NEW P, NEW F, NEW T, NEW Q, NEW G, NEW V, Moved(P, F, T, Q, G, V),
         NEW u \in URLs, NEW n, NameOK(P, F, T, u, n)
  PROVE  NameOK(Q, G, V, u, n)
<1>0. /\ T \in Nat /\ V \in {T, T + 1} /\ F \in Int /\ G \in Int /\ F <= G
      /\ P[u].since \in Nat /\ (Q[u] = P[u] \/ Q[u].since = T)
  BY DEF Moved
<1>1. CASE n = NeverAsked
  BY <1>1 DEF NameOK
<1>2. CASE n # NeverAsked
  <2>1. n.fetched \in Nat /\ n.fetched <= T /\ Sound(P, F, u, n.name, n.fetched - AnswerTime)
    BY <1>2 DEF NameOK
  <2>2. PICK moment \in Int : moment = n.fetched - AnswerTime /\ moment <= T
    BY <1>0, <2>1, MediaTimes
  <2>3. Sound(Q, G, u, n.name, moment)
    BY <1>0, <2>1, <2>2, SoundStays
  <2>4. n.fetched <= V
    BY <1>0, <2>1
  <2> QED
    BY <2>1, <2>2, <2>3, <2>4 DEF NameOK
<1> QED
  BY <1>1, <1>2

(* Then the invariant holds of the names and the calls there were.         *)
LEMMA WorldMoves ==
  ASSUME MirrorInv, Moved(picture, failedAt, mediaClock, picture', failedAt', mediaClock'),
         \A c \in MediaCalls : TimeLeft(mediaClock, mediaClock', looking[c])
  PROVE  /\ mediaClock' \in Nat /\ failedAt' \in Int
         /\ \A u \in URLs : /\ picture'[u].since <= mediaClock'
                            /\ NameOK(picture', failedAt', mediaClock', u, names[u])
         /\ \A c \in MediaCalls : LookOK(picture', failedAt', mediaClock', looking[c])
<1>1. mediaClock \in Nat /\ mediaClock' \in {mediaClock, mediaClock + 1} /\ failedAt' \in Int
  BY DEF Moved
<1>2. ASSUME NEW u \in URLs PROVE picture'[u].since <= mediaClock'
  <2>1. picture[u].since \in Nat /\ picture[u].since <= mediaClock
    BY DEF MirrorInv
  <2> QED
    BY <1>1, <2>1 DEF Moved
<1>3. ASSUME NEW u \in URLs PROVE NameOK(picture', failedAt', mediaClock', u, names[u])
  BY NameStays DEF MirrorInv
<1>4. ASSUME NEW c \in MediaCalls PROVE LookOK(picture', failedAt', mediaClock', looking[c])
  BY LookStays DEF MirrorInv
<1> QED
  BY <1>1, <1>2, <1>3, <1>4

(* The greater of two numbers is at least each of them.                    *)
LEMMA GreaterIs ==
  ASSUME NEW a \in Int, NEW b \in Int
  PROVE  Max({a, b}) \in Int /\ Max({a, b}) >= a /\ Max({a, b}) >= b
<1>1. \E x \in {a, b} : \A y \in {a, b} : x >= y
  OBVIOUS
<1> QED
  BY <1>1 DEF Max

(* What was sound AnswerTime and MirrorTTL ago is fresh enough.            *)
LEMMA SoundIsFresh ==
  ASSUME MirrorInv, NEW u \in URLs, NEW found, NEW moment \in Int, Sound(picture, failedAt, u, found, moment),
         mediaClock - moment <= MirrorTTL + AnswerTime
  PROVE  \/ found = picture[u].now
         \/ mediaClock - Max({picture[u].since, failedAt}) <= MirrorTTL + AnswerTime
<1>1. PICK a \in Int, b \in Int : a = picture[u].since /\ b = failedAt
  BY DEF MirrorInv
<1>2. PICK m \in Int : m = Max({a, b}) /\ m >= a /\ m >= b
  BY GreaterIs
<1>3. found = picture[u].now \/ a >= moment \/ b >= moment
  BY <1>1 DEF Sound
<1>4. mediaClock \in Nat
  BY DEF MirrorInv
<1>5. found = picture[u].now \/ mediaClock - m <= MirrorTTL + AnswerTime
  BY <1>2, <1>3, <1>4, MediaTimes
<1> QED
  BY <1>1, <1>2, <1>5

(* What is remembered, or on its way, is fresh enough to be shown.         *)
LEMMA MirrorFresh == MirrorInv => ShownFresh
<1> SUFFICES ASSUME MirrorInv PROVE ShownFresh
  OBVIOUS
<1> DEFINE Fresh(u, shown) == \/ shown = picture[u].now
                              \/ mediaClock - Max({picture[u].since, failedAt}) <= MirrorTTL + AnswerTime
<1>0. mediaClock \in Nat
  BY DEF MirrorInv
<1>1. ASSUME NEW u \in URLs, remembered(u) PROVE Fresh(u, names[u].name)
  <2>1. names[u] # NeverAsked /\ mediaClock - names[u].fetched <= MirrorTTL
    BY <1>1 DEF remembered
  <2>2. names[u].fetched \in Nat /\ Sound(picture, failedAt, u, names[u].name, names[u].fetched - AnswerTime)
    BY <2>1 DEF MirrorInv, NameOK
  <2>3. PICK moment \in Int : /\ moment = names[u].fetched - AnswerTime
                              /\ mediaClock - moment <= MirrorTTL + AnswerTime
    BY <1>0, <2>1, <2>2, MediaTimes
  <2> QED
    BY <2>2, <2>3, SoundIsFresh
<1>2. ASSUME NEW c \in MediaCalls, looking[c].pc = "remember" PROVE Fresh(looking[c].url, looking[c].found)
  <2>1. /\ looking[c].url \in URLs /\ looking[c].began \in Nat /\ mediaClock <= looking[c].began + AnswerTime
        /\ Sound(picture, failedAt, looking[c].url, looking[c].found, looking[c].began)
    BY <1>2 DEF MirrorInv, LookOK, Resting
  <2>2. PICK u \in URLs, moment \in Int : /\ u = looking[c].url /\ moment = looking[c].began
                                          /\ mediaClock - moment <= MirrorTTL + AnswerTime
    BY <1>0, <2>1, MediaTimes
  <2>3. Sound(picture, failedAt, u, looking[c].found, moment)
    BY <2>1, <2>2
  <2>4. Fresh(u, looking[c].found)
    BY <2>2, <2>3, SoundIsFresh
  <2> QED
    BY <2>2, <2>4
<1> QED
  BY <1>1, <1>2 DEF ShownFresh

(* The site has another picture.                                           *)
LEMMA PictureKeeps ==
  ASSUME MirrorInv, NEW u \in URLs, ChangePicture(u)
  PROVE  MirrorInv'
<1>1. PICK p \in Pictures \cup {NoPicture} :
        picture' = [picture EXCEPT ![u] = [now |-> p, since |-> mediaClock]]
  BY DEF ChangePicture
<1>2. /\ names' = names /\ looking' = looking /\ mediaClock' = mediaClock /\ failedAt' = failedAt
      /\ mediaClock \in Nat /\ failedAt \in Int /\ failedAt <= mediaClock
      /\ picture \in [URLs -> [now : Pictures \cup {NoPicture}, since : Nat]]
  BY DEF ChangePicture, MirrorInv
<1>3. picture' \in [URLs -> [now : Pictures \cup {NoPicture}, since : Nat]]
  BY <1>1, <1>2
<1>4. Moved(picture, failedAt, mediaClock, picture', failedAt', mediaClock')
  BY <1>1, <1>2 DEF Moved
<1>5. \A c \in MediaCalls : TimeLeft(mediaClock, mediaClock', looking[c])
  BY <1>2 DEF TimeLeft
<1> QED
  BY <1>2, <1>3, <1>4, <1>5, WorldMoves DEF MirrorInv

(* A call begins.                                                          *)
LEMMA LookKeeps ==
  ASSUME MirrorInv, NEW c \in MediaCalls, NEW u \in URLs, Look(c, u)
  PROVE  MirrorInv'
<1>1. PICK l : l = [pc |-> "fetch", url |-> u, began |-> mediaClock]
  OBVIOUS
<1>2. /\ looking' = [looking EXCEPT ![c] = l] /\ names' = names /\ picture' = picture
      /\ mediaClock' = mediaClock /\ failedAt' = failedAt
  BY <1>1 DEF Look
<1>3. LookOK(picture, failedAt, mediaClock, l)
  <2>1. l.pc = "fetch" /\ l.url = u /\ l.began = mediaClock /\ mediaClock \in Nat
    BY <1>1 DEF MirrorInv
  <2> QED
    BY <2>1, MediaTimes DEF LookOK
<1> QED
  BY <1>2, <1>3 DEF MirrorInv

(* A call fetches: what it found is behind the URL now, or the site fails  *)
(* now.                                                                    *)
LEMMA FetchKeeps ==
  ASSUME MirrorInv, HeldInv, NEW c \in MediaCalls, Fetch(c)
  PROVE  MirrorInv' /\ HeldInv'
<1> DEFINE u == looking[c].url
           Then(p) == [pc |-> "remember", url |-> u, found |-> p, began |-> looking[c].began]
<1>0. /\ u \in URLs /\ looking[c].began \in Nat /\ looking[c].began <= mediaClock
      /\ mediaClock <= looking[c].began + AnswerTime
  BY DEF Fetch, MirrorInv, LookOK, Resting
<1>1. /\ names' = names /\ mediaClock' = mediaClock /\ picture' = picture
      /\ mediaClock \in Nat /\ failedAt \in Int /\ failedAt <= mediaClock
      /\ picture \in [URLs -> [now : Pictures \cup {NoPicture}, since : Nat]]
  BY DEF Fetch, MirrorInv
<1>2. \E p : /\ looking' = [looking EXCEPT ![c] = Then(p)]
             /\ \/ p = picture[u].now /\ failedAt' = failedAt
                \/ failedAt' = mediaClock
  BY DEF Fetch
<1>3. PICK p : /\ looking' = [looking EXCEPT ![c] = Then(p)]
               /\ \/ p = picture[u].now /\ failedAt' = failedAt
                  \/ failedAt' = mediaClock
  BY <1>2
<1>4. failedAt' \in Int /\ failedAt <= failedAt' /\ failedAt' <= mediaClock
  BY <1>1, <1>3
<1>5. Moved(picture, failedAt, mediaClock, picture', failedAt', mediaClock')
  BY <1>1, <1>4 DEF Moved
<1>6. \A d \in MediaCalls : TimeLeft(mediaClock, mediaClock', looking[d])
  BY <1>1 DEF TimeLeft
<1>7. LookOK(picture', failedAt', mediaClock', Then(p))
  <2>1. PICK l : l = Then(p)
    OBVIOUS
  <2>2. l.pc = "remember" /\ l.url = u /\ l.found = p /\ l.began = looking[c].began
    BY <2>1
  <2>3. Sound(picture', failedAt', u, p, looking[c].began)
    BY <1>0, <1>1, <1>3, <1>4 DEF Sound
  <2>4. LookOK(picture', failedAt', mediaClock', l)
    BY <1>0, <1>1, <2>2, <2>3 DEF LookOK
  <2> QED
    BY <2>1, <2>4
<1> HIDE DEF Then
<1>8. MirrorInv'
  <2>1. /\ mediaClock' \in Nat /\ failedAt' \in Int
        /\ \A v \in URLs : /\ picture'[v].since <= mediaClock'
                           /\ NameOK(picture', failedAt', mediaClock', v, names[v])
        /\ \A d \in MediaCalls : LookOK(picture', failedAt', mediaClock', looking[d])
    BY <1>5, <1>6, WorldMoves
  <2>2. looking = [d \in MediaCalls |-> looking[d]] /\ names = [v \in URLs |-> names[v]]
    BY DEF MirrorInv
  <2>3. looking' = [d \in MediaCalls |-> looking'[d]]
        /\ \A d \in MediaCalls : looking'[d] = IF d = c THEN Then(p) ELSE looking[d]
    BY <1>3, <2>2
  <2> QED
    BY <1>1, <1>4, <1>7, <2>1, <2>2, <2>3 DEF MirrorInv
<1>9. HeldInv'
  <2>1. CASE picture[u].now # NoPicture /\ keep(picture[u].now)
    <3>1. picture[u].now \in Pictures
      BY <1>0, <1>1, <2>1
    <3> QED
      BY <2>1, <3>1, KeepHolds
  <2>2. CASE UNCHANGED <<kept, order, bytes>>
    BY <2>2 DEF HeldInv
  <2> QED
    BY <2>1, <2>2 DEF Fetch
<1> QED
  BY <1>8, <1>9

(* A call remembers what it found, at most AnswerTime after it began.      *)
LEMMA RememberKeeps ==
  ASSUME MirrorInv, NEW c \in MediaCalls, Remember(c)
  PROVE  MirrorInv'
<1> DEFINE u == looking[c].url
<1>0. /\ u \in URLs /\ looking[c].began \in Nat /\ mediaClock <= looking[c].began + AnswerTime
      /\ Sound(picture, failedAt, u, looking[c].found, looking[c].began)
  BY DEF Remember, MirrorInv, LookOK, Resting
<1>1. /\ picture' = picture /\ mediaClock' = mediaClock /\ failedAt' = failedAt
      /\ looking' = [looking EXCEPT ![c] = Resting]
  BY DEF Remember
<1>2. PICK n : n = [name |-> looking[c].found, fetched |-> mediaClock]
  OBVIOUS
<1>3. PICK known : /\ names' = [known EXCEPT ![u] = n]
                   /\ known = [v \in URLs |-> NeverAsked] \/ known = names
  BY <1>2 DEF Remember
<1>4. known = [v \in URLs |-> known[v]] /\ \A v \in URLs : known[v] \in {NeverAsked, names[v]}
  BY <1>3 DEF MirrorInv
<1>5. names' = [v \in URLs |-> names'[v]] /\ \A v \in URLs : names'[v] = IF v = u THEN n ELSE known[v]
  BY <1>3, <1>4
<1>6. NameOK(picture, failedAt, mediaClock, u, n)
  <2>1. n.name = looking[c].found /\ n.fetched = mediaClock /\ mediaClock \in Nat
    BY <1>2 DEF MirrorInv
  <2>2. /\ mediaClock - AnswerTime <= looking[c].began /\ mediaClock - AnswerTime \in Int
        /\ picture[u].since \in Nat /\ failedAt \in Int
    BY <1>0, <2>1, MediaTimes DEF MirrorInv
  <2>3. Sound(picture, failedAt, u, n.name, n.fetched - AnswerTime)
    BY <1>0, <2>1, <2>2, MediaTimes DEF Sound
  <2> QED
    BY <2>1, <2>3 DEF NameOK
<1>7. \A v \in URLs : NameOK(picture, failedAt, mediaClock, v, names'[v])
  BY <1>4, <1>5, <1>6 DEF MirrorInv, NameOK
<1>8. \A d \in MediaCalls : LookOK(picture, failedAt, mediaClock, looking'[d])
  BY <1>1 DEF MirrorInv, LookOK
<1>9. looking' = [d \in MediaCalls |-> looking'[d]]
  BY <1>1 DEF MirrorInv
<1> QED
  BY <1>1, <1>5, <1>7, <1>8, <1>9 DEF MirrorInv

(* Time passes.                                                            *)
LEMMA TickKeeps ==
  ASSUME MirrorInv, MediaTick
  PROVE  MirrorInv'
<1>1. /\ names' = names /\ looking' = looking /\ picture' = picture /\ failedAt' = failedAt
      /\ mediaClock' = mediaClock + 1
      /\ mediaClock \in Nat /\ failedAt \in Int /\ failedAt <= mediaClock
      /\ picture \in [URLs -> [now : Pictures \cup {NoPicture}, since : Nat]]
  BY DEF MediaTick, MirrorInv, mirrorVars
<1>2. Moved(picture, failedAt, mediaClock, picture', failedAt', mediaClock')
  BY <1>1 DEF Moved
<1>3. \A c \in MediaCalls : TimeLeft(mediaClock, mediaClock', looking[c])
  BY DEF MediaTick, TimeLeft, InTime
<1> QED
  BY <1>1, <1>2, <1>3, WorldMoves DEF MirrorInv

-----------------------------------------------------------------------------
(* The news.                                                               *)

(* A call that asks is the only one, and what it got is not older than the *)
(* news there are.                                                         *)
NewsCallOK(call) ==
  \/ call = Resting
  \/ asking /\ call.pc = "ask"
  \/ /\ asking /\ call.pc = "store" /\ call.got \in Int /\ call.got <= edition
     /\ call.got >= 0 => items <= call.got

NewsInv ==
  /\ edition \in Nat /\ items \in Int /\ items <= edition
  /\ newsCall = [c \in MediaCalls |-> newsCall[c]]
  /\ \A c \in MediaCalls : NewsCallOK(newsCall[c])
  /\ \A c, d \in MediaCalls : newsCall[c] # Resting /\ newsCall[d] # Resting => c = d

(* The site has news.                                                      *)
LEMMA AnnounceKeeps ==
  ASSUME NewsInv, Announce
  PROVE  NewsInv' /\ items' = items
<1>1. edition' = edition + 1 /\ items' = items /\ newsCall' = newsCall /\ asking' = asking
  BY DEF Announce
<1>2. \A c \in MediaCalls : NewsCallOK(newsCall[c])'
  BY <1>1 DEF NewsInv, NewsCallOK
<1> QED
  BY <1>1, <1>2 DEF NewsInv

(* A call asks when no other does.                                         *)
LEMMA ItemsKeeps ==
  ASSUME NewsInv, NEW c \in MediaCalls, Items(c)
  PROVE  NewsInv' /\ items' = items
<1>1. PICK call : call = [pc |-> "ask", began |-> mediaClock]
  OBVIOUS
<1>2. /\ edition' = edition /\ items' = items /\ asking' = TRUE /\ ~asking
      /\ newsCall' = [newsCall EXCEPT ![c] = call]
  BY <1>1 DEF Items, OthersAsk
<1>3. \A d \in MediaCalls : newsCall[d] = Resting
  BY <1>2 DEF NewsInv, NewsCallOK
<1>4. newsCall' = [d \in MediaCalls |-> newsCall'[d]]
      /\ \A d \in MediaCalls : newsCall'[d] = IF d = c THEN call ELSE Resting
  BY <1>2, <1>3 DEF NewsInv
<1>5. call.pc = "ask"
  BY <1>1
<1>6. \A d \in MediaCalls : NewsCallOK(newsCall[d])'
  BY <1>2, <1>4, <1>5 DEF NewsCallOK
<1> QED
  BY <1>2, <1>4, <1>6 DEF NewsInv

(* The site answers it, or does not.                                       *)
LEMMA AskKeeps ==
  ASSUME NewsInv, NEW c \in MediaCalls, AskNews(c)
  PROVE  NewsInv' /\ items' = items
<1>1. /\ edition' = edition /\ items' = items /\ asking' = asking /\ newsCall[c].pc = "ask"
      /\ edition \in Nat /\ items \in Int /\ items <= edition
  BY DEF AskNews, NewsInv
<1>2. PICK got \in {edition, -1} :
        newsCall' = [newsCall EXCEPT ![c] = [pc |-> "store", got |-> got, began |-> newsCall[c].began]]
  BY DEF AskNews
<1>3. PICK call : call = [pc |-> "store", got |-> got, began |-> newsCall[c].began]
  OBVIOUS
<1>4. newsCall' = [d \in MediaCalls |-> newsCall'[d]]
      /\ \A d \in MediaCalls : newsCall'[d] = IF d = c THEN call ELSE newsCall[d]
  BY <1>2, <1>3 DEF NewsInv
<1>5. asking /\ newsCall[c] # Resting
  BY <1>1 DEF NewsInv, NewsCallOK, Resting
<1>6. call.pc = "store" /\ call.got = got
  BY <1>3
<1>7. NewsCallOK(call)'
  BY <1>1, <1>5, <1>6 DEF NewsCallOK
<1>8. \A d \in MediaCalls : NewsCallOK(newsCall[d])'
  BY <1>1, <1>4, <1>7 DEF NewsInv, NewsCallOK
<1>9. ASSUME NEW d \in MediaCalls, NEW e \in MediaCalls, newsCall'[d] # Resting, newsCall'[e] # Resting
      PROVE  d = e
  <2>1. newsCall[d] # Resting /\ newsCall[e] # Resting
    BY <1>4, <1>5, <1>9
  <2> QED
    BY <2>1 DEF NewsInv
<1> QED
  BY <1>1, <1>4, <1>8, <1>9 DEF NewsInv

(* It stores what it got, and the news do not go back.                     *)
LEMMA StoreKeeps ==
  ASSUME NewsInv, NEW c \in MediaCalls, Store(c)
  PROVE  NewsInv' /\ NewsNeverBack
<1>1. /\ edition' = edition /\ asking' = FALSE /\ newsCall[c].pc = "store"
      /\ newsCall' = [newsCall EXCEPT ![c] = Resting]
      /\ items' = IF newsCall[c].got >= 0 THEN newsCall[c].got ELSE Max({items, 0})
      /\ edition \in Nat /\ items \in Int /\ items <= edition
  BY DEF Store, NewsInv
<1>2. /\ newsCall[c] # Resting /\ newsCall[c].got \in Int /\ newsCall[c].got <= edition
      /\ newsCall[c].got >= 0 => items <= newsCall[c].got
  BY <1>1 DEF NewsInv, NewsCallOK, Resting
<1>3. Max({items, 0}) \in {items, 0} /\ Max({items, 0}) >= items
  <2>1. \E x \in {items, 0} : \A y \in {items, 0} : x >= y
    BY <1>1
  <2> QED
    BY <1>1, <2>1 DEF Max
<1>4. items' \in Int /\ items' <= edition /\ items' >= items
  BY <1>1, <1>2, <1>3
<1>5. newsCall' = [d \in MediaCalls |-> newsCall'[d]] /\ \A d \in MediaCalls : newsCall'[d] = Resting
  BY <1>1, <1>2 DEF NewsInv
<1>6. \A d \in MediaCalls : NewsCallOK(newsCall[d])'
  BY <1>5 DEF NewsCallOK
<1> QED
  BY <1>1, <1>4, <1>5, <1>6 DEF NewsInv, NewsNeverBack

-----------------------------------------------------------------------------
(* Together.                                                               *)

MediaInv == MirrorInv /\ HeldInv /\ NewsInv

(* The empty mirror holds nothing.                                         *)
LEMMA MediaStarts == MediaInit => MediaInv
<1> SUFFICES ASSUME MediaInit PROVE MediaInv
  OBVIOUS
<1>1. HeldInv
  <2>1. order = <<>> /\ kept = {} /\ bytes = 0
    BY DEF MediaInit
  <2>2. PICK s : s = <<>> /\ Len(s) = 0
    OBVIOUS
  <2>3. PICK f : IsCount(f, s, Len(s)) /\ TotalBytes(s) = f[Len(s)]
    BY <2>2, TotalIs
  <2>4. TotalBytes(s) = 0
    BY <2>2, <2>3 DEF IsCount
  <2>5. TotalBytes(order) = 0
    BY <2>1, <2>2, <2>4
  <2>6. order \in Seq(Pictures) /\ Distinct(order) /\ Range(order) = {}
    BY <2>1 DEF Distinct, Range
  <2>7. MirrorTotal \in Nat
    BY MediaAssumption
  <2> QED
    BY <2>1, <2>5, <2>6, <2>7 DEF HeldInv
<1>2. MirrorInv
  <2>1. PICK p \in Pictures : p = CHOOSE q \in Pictures : TRUE
    BY MediaAssumption, Zenon
  <2>2. picture = [u \in URLs |-> [now |-> p, since |-> 0]]
    BY <2>1 DEF MediaInit
  <2>3. /\ mediaClock = 0 /\ failedAt = -1 /\ names = [u \in URLs |-> NeverAsked]
        /\ looking = [c \in MediaCalls |-> Resting]
    BY DEF MediaInit
  <2> QED
    BY <2>2, <2>3 DEF MirrorInv, NameOK, LookOK
<1>3. NewsInv
  BY DEF MediaInit, NewsInv, NewsCallOK
<1> QED
  BY <1>1, <1>2, <1>3 DEF MediaInv

(* Every step keeps the three parts, and the news do not go back.          *)
LEMMA MediaStep == MediaInv /\ [MirrorNext \/ NewsNext]_mediaVars => MediaInv' /\ NewsNeverBack
<1> SUFFICES ASSUME MediaInv, [MirrorNext \/ NewsNext]_mediaVars PROVE MediaInv' /\ NewsNeverBack
  OBVIOUS
<1>0. MirrorInv /\ HeldInv /\ NewsInv /\ items \in Int
  BY DEF MediaInv, NewsInv
<1>1. ASSUME UNCHANGED newsVars PROVE NewsInv' /\ NewsNeverBack
  BY <1>0, <1>1 DEF newsVars, NewsInv, NewsCallOK, NewsNeverBack
<1>2. ASSUME UNCHANGED <<kept, order, bytes>> PROVE HeldInv'
  BY <1>0, <1>2 DEF HeldInv
<1>3. ASSUME UNCHANGED <<mirrorVars, mediaClock, failedAt>> PROVE MirrorInv' /\ HeldInv'
  <2>1. MirrorInv'
    BY <1>0, <1>3 DEF mirrorVars, MirrorInv
  <2> QED
    BY <1>2, <1>3, <2>1 DEF mirrorVars
<1>4. CASE UNCHANGED mediaVars
  BY <1>1, <1>3, <1>4 DEF mediaVars, MediaInv
<1>5. CASE MediaTick
  BY <1>0, <1>1, <1>2, <1>5, TickKeeps DEF MediaTick, mirrorVars, MediaInv
<1>6. ASSUME NEW u \in URLs, ChangePicture(u) PROVE MediaInv' /\ NewsNeverBack
  BY <1>0, <1>1, <1>2, <1>6, PictureKeeps DEF ChangePicture, MediaInv
<1>7. ASSUME NEW u \in URLs, NEW c \in MediaCalls, Look(c, u) PROVE MediaInv' /\ NewsNeverBack
  BY <1>0, <1>1, <1>2, <1>7, LookKeeps DEF Look, MediaInv
<1>8. ASSUME NEW c \in MediaCalls, Fetch(c) PROVE MediaInv' /\ NewsNeverBack
  <2>1. UNCHANGED newsVars
    BY <1>8 DEF Fetch
  <2> QED
    BY <1>0, <1>1, <1>8, <2>1, FetchKeeps DEF MediaInv
<1>9. ASSUME NEW c \in MediaCalls, Remember(c) PROVE MediaInv' /\ NewsNeverBack
  <2>1. UNCHANGED newsVars /\ UNCHANGED <<kept, order, bytes>>
    BY <1>9 DEF Remember
  <2> QED
    BY <1>0, <1>1, <1>2, <1>9, <2>1, RememberKeeps DEF MediaInv
<1>10. ASSUME Announce PROVE MediaInv' /\ NewsNeverBack
  BY <1>0, <1>3, <1>10, AnnounceKeeps DEF Announce, MediaInv, NewsNeverBack
<1>11. ASSUME NEW c \in MediaCalls, Items(c) PROVE MediaInv' /\ NewsNeverBack
  <2>1. UNCHANGED <<mirrorVars, mediaClock, failedAt>>
    BY <1>11 DEF Items
  <2> QED
    BY <1>0, <1>3, <1>11, <2>1, ItemsKeeps DEF MediaInv, NewsNeverBack
<1>12. ASSUME NEW c \in MediaCalls, AskNews(c) PROVE MediaInv' /\ NewsNeverBack
  <2>1. UNCHANGED <<mirrorVars, mediaClock, failedAt>>
    BY <1>12 DEF AskNews
  <2> QED
    BY <1>0, <1>3, <1>12, <2>1, AskKeeps DEF MediaInv, NewsNeverBack
<1>13. ASSUME NEW c \in MediaCalls, Store(c) PROVE MediaInv' /\ NewsNeverBack
  <2>1. UNCHANGED <<mirrorVars, mediaClock, failedAt>>
    BY <1>13 DEF Store
  <2> QED
    BY <1>0, <1>3, <1>13, <2>1, StoreKeeps DEF MediaInv
<1> QED
  BY <1>4, <1>5, <1>6, <1>7, <1>8, <1>9, <1>10, <1>11, <1>12, <1>13 DEF MirrorNext, NewsNext

(* For any calls, URLs, pictures, sizes and times: a picture that is shown *)
(* is at most MirrorTTL and one slow answer stale unless the site failed,  *)
(* the mirror counts what it holds and stays within its memory, and the    *)
(* news never go back, however the calls overtake each other               *)
(* (skin/mirror.go, news/sources.go).                                         *)
THEOREM MediaStaysHonest == MediaSpec => MediaHonest
<1>1. MediaInit => MediaInv
  BY MediaStarts
<1>2. MediaInv /\ [MirrorNext \/ NewsNext]_mediaVars => MediaInv' /\ NewsNeverBack
  BY MediaStep
<1>3. MediaInv => ShownFresh /\ MirrorBounded
  BY MirrorFresh, HeldBounded DEF MediaInv
<1> QED
  BY <1>1, <1>2, <1>3, PTL DEF MediaSpec, MediaHonest

=============================================================================
