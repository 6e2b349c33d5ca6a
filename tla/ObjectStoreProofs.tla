-------------------------- MODULE ObjectStoreProofs --------------------------
(***************************************************************************)
(* Proofs about ObjectStore, for any files, contents and callers.  Over    *)
(* the file system backend nothing but a verified copy is ever renamed     *)
(* under a key; over either backend a wrong object is accounted for.       *)
(***************************************************************************)
EXTENDS ObjectStore, TLAPS

(* The record of a caller between calls has the type of a call. *)
LEMMA IdleTyped == Idle \in Call
BY DEF Idle, Call, OrNone

(* A caller past the hash knows its key, and one past the copy its bytes. *)
Knows == \A p \in Callers :
           /\ put[p].at # "idle" => put[p].key \in Contents /\ put[p].file \in Files
           /\ put[p].at \in {"staged", "compare", "delete"} => put[p].bytes \in Contents

(* The file system backend: objects are absent or right, none is removed,  *)
(* and no caller is ever in the part of streamFile that compares.          *)
Verified == backend = "fs" =>
              /\ \A k \in Contents : object[k] \in {None, k}
              /\ \A k \in referenced : object[k] = k
              /\ \A p \in Callers : ~Comparing(p)

(* WrongReported with its reason: the caller still to compare is one that  *)
(* uploaded these very bytes, so its comparison will fail.                 *)
Caught == \A k \in Contents :
            \/ object[k] \in {None, k}
            \/ k \in reported \cup cut
            \/ \E p \in Callers : /\ put[p].key = k /\ put[p].bytes = object[k]
                                  /\ Comparing(p)

Inductive == TypeOK /\ Knows /\ Verified /\ Caught

(* PutFile's return keeps the types of what it changes. *)
LEMMA ReferTypes ==
  ASSUME TypeOK, NEW p \in Callers, put[p].key \in Contents, Refer(p)
  PROVE  referenced' \in SUBSET Contents /\ put' \in [Callers -> Call]
BY IdleTyped DEF TypeOK, Refer, Goto

(* The inductive invariant holds before the first publication. *)
THEOREM InductiveInit == Init => Inductive
BY Setting, IdleTyped
   DEF Init, Inductive, TypeOK, Knows, Verified, Caught, Comparing, Idle, OrNone

(* Every step of PutFile, of the operator and of the daemon keeps it. *)
THEOREM InductiveStep == Inductive /\ [Next]_vars => Inductive'
<1> SUFFICES ASSUME Inductive, [Next]_vars PROVE Inductive'
  OBVIOUS
<1> USE DEF Inductive
<1>1. CASE UNCHANGED vars
  BY <1>1 DEF vars, TypeOK, Knows, Verified, Caught, Comparing
<1>2. ASSUME NEW f \in Files, NEW c \in Contents, EditFile(f, c) PROVE Inductive'
  BY <1>2, Setting DEF EditFile, TypeOK, Knows, Verified, Caught, Comparing
<1>3. CASE Crash
  BY <1>3, Setting, IdleTyped
     DEF Crash, TypeOK, Knows, Verified, Caught, Comparing, Idle, OrNone
<1>4. ASSUME NEW p \in Callers, NEW f \in Files, hashFile(p, f) PROVE Inductive'
  BY <1>4 DEF hashFile, Goto, TypeOK, Call, OrNone, Knows, Verified, Caught, Comparing
<1>5. ASSUME NEW p \in Callers, Exists(p) PROVE Inductive'
  <2>1. put[p].key \in Contents
    BY <1>5 DEF Exists, Knows
  <2>2. TypeOK'
    BY <1>5, <2>1, ReferTypes DEF Exists, TypeOK
  <2>3. Knows' /\ Verified' /\ Caught'
    BY <1>5, <2>1
       DEF Exists, Refer, Goto, TypeOK, Idle, Knows, Verified, Caught, Comparing
  <2> QED BY <2>2, <2>3
<1>6. ASSUME NEW p \in Callers, Missing(p) PROVE Inductive'
  BY <1>6 DEF Missing, Goto, TypeOK, Call, OrNone, Knows, Verified, Caught, Comparing
<1>7. ASSUME NEW p \in Callers, Stage(p) PROVE Inductive'
  <2>1. put[p].key \in Contents /\ file[put[p].file] \in Contents
    BY <1>7 DEF Stage, Knows, TypeOK
  <2>2. put' \in [Callers -> Call]
    BY <1>7, <2>1 DEF Stage, Goto, TypeOK, Call, OrNone
  <2>3. /\ \A q \in Callers \ {p} : put'[q] = put[q]
        /\ put'[p].at = "staged" /\ put'[p].key = put[p].key
        /\ put'[p].file = put[p].file /\ put'[p].bytes = file[put[p].file]
    BY <1>7 DEF Stage, Goto, TypeOK, Call
  <2>4. TypeOK'
    BY <1>7, <2>2 DEF Stage, TypeOK
  <2>5. Knows' /\ Verified'
    BY <1>7, <2>1, <2>3 DEF Stage, Knows, Verified, Comparing
  <2>6. Caught'
    BY <1>7, <2>3 DEF Stage, Caught, Comparing
  <2> QED BY <2>4, <2>5, <2>6
<1>8. ASSUME NEW p \in Callers, RenameInto(p) PROVE Inductive'
  <2>1. put[p].key \in Contents /\ put[p].bytes = put[p].key
    BY <1>8 DEF RenameInto, matches, Knows
  <2>2. TypeOK'
    BY <1>8, <2>1, ReferTypes DEF RenameInto, TypeOK, OrNone
  <2>3. Knows' /\ Verified' /\ Caught'
    BY <1>8, <2>1
       DEF RenameInto, Refer, Goto, TypeOK, Idle, Knows, Verified, Caught, Comparing
  <2> QED BY <2>2, <2>3
<1>9. ASSUME NEW p \in Callers, Upload(p) PROVE Inductive'
  <2>1. put[p].key \in Contents /\ file[put[p].file] \in Contents
    BY <1>9 DEF Upload, Knows, TypeOK
  <2>2. put' \in [Callers -> Call]
    BY <1>9, <2>1 DEF Upload, Goto, TypeOK, Call, OrNone
  <2>3. /\ \A q \in Callers \ {p} : put'[q] = put[q]
        /\ put'[p].at = "compare" /\ put'[p].key = put[p].key
        /\ put'[p].file = put[p].file /\ put'[p].bytes = file[put[p].file]
    BY <1>9 DEF Upload, Goto, TypeOK, Call
  <2>4. /\ \A k \in Contents \ {put[p].key} : object'[k] = object[k]
        /\ object'[put[p].key] = file[put[p].file]
    BY <1>9, <2>1 DEF Upload, TypeOK
  <2>5. TypeOK'
    BY <1>9, <2>1, <2>2 DEF Upload, TypeOK, OrNone
  <2>6. Knows'
    BY <1>9, <2>1, <2>3 DEF Upload, Knows
  <2>7. Verified'
    BY <1>9 DEF Upload, Verified
  <2>8. Caught'
    BY <1>9, <2>3, <2>4 DEF Upload, Caught, Comparing
  <2> QED BY <2>5, <2>6, <2>7, <2>8
<1>10. ASSUME NEW p \in Callers, UploadUnanswered(p) PROVE Inductive'
  BY <1>10, IdleTyped
     DEF UploadUnanswered, Goto, TypeOK, Idle, OrNone, Knows, Verified, Caught, Comparing
<1>11. ASSUME NEW p \in Callers, Compared(p) PROVE Inductive'
  <2>1. put[p].key \in Contents
    BY <1>11 DEF Compared, Knows
  <2>2. TypeOK'
    BY <1>11, <2>1, ReferTypes DEF Compared, TypeOK
  <2>3. Knows' /\ Verified'
    BY <1>11, <2>1 DEF Compared, Refer, Goto, TypeOK, Idle, Knows, Verified, Comparing
  <2>4. Caught'
    <3> SUFFICES ASSUME NEW k \in Contents, object[k] \notin {None, k},
                        k \notin reported \cup cut
                 PROVE  \E q \in Callers : /\ put'[q].key = k /\ put'[q].bytes = object[k]
                                           /\ Comparing(q)'
      BY <1>11 DEF Compared, Caught
    <3>1. PICK q \in Callers : /\ put[q].key = k /\ put[q].bytes = object[k]
                               /\ Comparing(q)
      BY DEF Caught
    <3>2. q # p
      BY <1>11, <3>1 DEF Compared, matches
    <3>3. put'[q] = put[q]
      BY <1>11, <3>2 DEF Compared, Refer, Goto, TypeOK
    <3> QED BY <3>1, <3>3 DEF Comparing
  <2> QED BY <2>2, <2>3, <2>4
<1>12. ASSUME NEW p \in Callers, Mismatch(p) PROVE Inductive'
  BY <1>12 DEF Mismatch, Goto, TypeOK, Call, OrNone, Knows, Verified, Caught, Comparing
<1>13. ASSUME NEW p \in Callers, DeleteMismatch(p) PROVE Inductive'
  BY <1>13, IdleTyped
     DEF DeleteMismatch, Goto, TypeOK, Idle, OrNone, Knows, Verified, Caught, Comparing
<1>14. ASSUME NEW p \in Callers, DeleteFailed(p) PROVE Inductive'
  BY <1>14, IdleTyped
     DEF DeleteFailed, Goto, TypeOK, Idle, OrNone, Knows, Verified, Caught, Comparing
<1>15. ASSUME NEW p \in Callers, Fail(p) PROVE Inductive'
  BY <1>15, IdleTyped
     DEF Fail, Goto, TypeOK, Idle, Knows, Verified, Caught, Comparing
<1> QED
  BY <1>1, <1>2, <1>3, <1>4, <1>5, <1>6, <1>7, <1>8, <1>9, <1>10, <1>11, <1>12,
     <1>13, <1>14, <1>15 DEF Next, FileNext, CallNext

(* The inductive invariant holds of every reachable state. *)
THEOREM InductiveInvariant == Spec => []Inductive
BY InductiveInit, InductiveStep, PTL DEF Spec

(* All variables keep their types, over both backends. *)
THEOREM TypeCorrect == Spec => []TypeOK
<1>1. Inductive => TypeOK
  BY DEF Inductive
<1> QED BY <1>1, InductiveInvariant, PTL

(***************************************************************************)
(* With the file system backend the objects publications name are there    *)
(* with the right bytes, whatever files change and however PutFile calls   *)
(* interleave: PutFromFile verifies the copy it renames.                   *)
(***************************************************************************)
THEOREM ReferencedAlwaysIntact == Spec => []ReferencedIntact
<1>1. Inductive => ReferencedIntact
  BY DEF Inductive, Verified, ReferencedIntact, PublishedIntact
<1> QED BY <1>1, InductiveInvariant, PTL

(***************************************************************************)
(* With either backend streamFile leaves wrong bytes only where it had no  *)
(* chance to remove them, or told the administrator to.                    *)
(***************************************************************************)
THEOREM WrongAlwaysReported == Spec => []WrongReported
<1>1. Inductive => WrongReported
  BY DEF Inductive, Caught, WrongReported
<1> QED BY <1>1, InductiveInvariant, PTL
=============================================================================
