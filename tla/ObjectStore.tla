----------------------------- MODULE ObjectStore -----------------------------
(***************************************************************************)
(* The content-addressed store of server/internal/storage: CAS.PutFile,    *)
(* which publish calls for every file of a build, over the file system     *)
(* backend (copy to a temporary file, verify, rename) or the S3 backend    *)
(* (stream under the final key, compare, delete on a mismatch).  Builds    *)
(* are published concurrently and share objects, and the administrator may *)
(* change a file between its hash and its copy.  A content stands for the  *)
(* key made of its hash.                                                   *)
(***************************************************************************)
EXTENDS Naturals

CONSTANTS Files, Contents, Callers,
          None,        \* the absent value
          MaxEdits,    \* bound: changes of files
          MaxCrashes   \* bound: restarts of the daemon

ASSUME Setting == /\ None \notin Contents
                  /\ MaxEdits \in Nat /\ MaxCrashes \in Nat

VARIABLES
  backend,     \* the configured backend, "fs" or "s3"
  file,        \* what is in the files to publish
  object,      \* key -> the bytes stored under it
  referenced,  \* keys PutFile has returned, for manifests to name
  reported,    \* keys an error asked the administrator to remove by hand
  cut,         \* keys whose upload ended before its bytes were compared
  put,         \* caller -> its PutFile
  edits, crashes

vars == <<backend, file, object, referenced, reported, cut, put, edits, crashes>>

OrNone(S) == S \cup {None}
Call == [at : {"idle", "stat", "store", "staged", "compare", "delete"},
         file : OrNone(Files), key : OrNone(Contents), bytes : OrNone(Contents)]
Idle == [at |-> "idle", file |-> None, key |-> None, bytes |-> None]

Init == /\ backend \in {"fs", "s3"}
        /\ file \in [Files -> Contents]
        /\ object = [k \in Contents |-> None]
        /\ referenced = {} /\ reported = {} /\ cut = {}
        /\ put = [p \in Callers |-> Idle]
        /\ edits = 0 /\ crashes = 0

Goto(p, c) == put' = [put EXCEPT ![p] = c]

EditFile(f, c) ==
  /\ edits < MaxEdits /\ edits' = edits + 1
  /\ file' = [file EXCEPT ![f] = c]
  /\ UNCHANGED <<backend, object, referenced, reported, cut, put, crashes>>

-----------------------------------------------------------------------------
hashFile(p, f) ==
  /\ put[p].at = "idle"
  /\ Goto(p, [at |-> "stat", file |-> f, key |-> file[f], bytes |-> None])
  /\ UNCHANGED <<backend, file, object, referenced, reported, cut, edits, crashes>>

\* PutFile returns the reference.
Refer(p) == /\ referenced' = referenced \cup {put[p].key}
            /\ Goto(p, Idle)

\* An object that exists is not read again, and not stored again.
Exists(p) ==
  /\ put[p].at = "stat"
  /\ object[put[p].key] # None
  /\ Refer(p)
  /\ UNCHANGED <<backend, file, object, reported, cut, edits, crashes>>

Missing(p) ==
  /\ put[p].at = "stat"
  /\ object[put[p].key] = None
  /\ Goto(p, [put[p] EXCEPT !.at = "store"])
  /\ UNCHANGED <<backend, file, object, referenced, reported, cut, edits, crashes>>

-----------------------------------------------------------------------------
(* fsBackend.PutFromFile. *)

Stage(p) ==
  /\ backend = "fs" /\ put[p].at = "store"
  /\ Goto(p, [put[p] EXCEPT !.at = "staged", !.bytes = file[put[p].file]])
  /\ UNCHANGED <<backend, file, object, referenced, reported, cut, edits, crashes>>

MatchesUnchecked(p) == TRUE
matches(p) == put[p].bytes = put[p].key

RenameInto(p) ==
  /\ put[p].at = "staged"
  /\ matches(p)
  /\ object' = [object EXCEPT ![put[p].key] = put[p].bytes]
  /\ Refer(p)
  /\ UNCHANGED <<backend, file, reported, cut, edits, crashes>>

-----------------------------------------------------------------------------
(* CAS.streamFile over s3Backend. *)

Upload(p) ==
  /\ backend = "s3" /\ put[p].at = "store"
  /\ object' = [object EXCEPT ![put[p].key] = file[put[p].file]]
  /\ Goto(p, [put[p] EXCEPT !.at = "compare", !.bytes = file[put[p].file]])
  /\ UNCHANGED <<backend, file, referenced, reported, cut, edits, crashes>>

\* The bucket stored the bytes and its answer was lost: Put is an error.
UploadUnanswered(p) ==
  /\ backend = "s3" /\ put[p].at = "store"
  /\ object' = [object EXCEPT ![put[p].key] = file[put[p].file]]
  /\ cut' = cut \cup {put[p].key}
  /\ Goto(p, Idle)
  /\ UNCHANGED <<backend, file, referenced, reported, edits, crashes>>

Compared(p) ==
  /\ put[p].at = "compare"
  /\ matches(p)
  /\ Refer(p)
  /\ UNCHANGED <<backend, file, object, reported, cut, edits, crashes>>

Mismatch(p) ==
  /\ put[p].at = "compare"
  /\ ~matches(p)
  /\ Goto(p, [put[p] EXCEPT !.at = "delete"])
  /\ UNCHANGED <<backend, file, object, referenced, reported, cut, edits, crashes>>

DeleteMismatch(p) ==
  /\ put[p].at = "delete"
  /\ object' = [object EXCEPT ![put[p].key] = None]
  /\ Goto(p, Idle)
  /\ UNCHANGED <<backend, file, referenced, reported, cut, edits, crashes>>

DeleteFailedSilently(p) ==
  /\ put[p].at = "delete"
  /\ Goto(p, Idle)
  /\ UNCHANGED <<backend, file, object, referenced, reported, cut, edits, crashes>>

DeleteFailed(p) ==
  /\ put[p].at = "delete"
  /\ reported' = reported \cup {put[p].key}
  /\ Goto(p, Idle)
  /\ UNCHANGED <<backend, file, object, referenced, cut, edits, crashes>>

-----------------------------------------------------------------------------
Comparing(p) == put[p].at \in {"compare", "delete"}

\* Any other error: the file changed on its way to a temporary file, or an
\* operation of the backend failed and stored nothing.
Fail(p) ==
  /\ put[p].at \in {"stat", "store", "staged"}
  /\ Goto(p, Idle)
  /\ UNCHANGED <<backend, file, object, referenced, reported, cut, edits, crashes>>

Crash ==
  /\ crashes < MaxCrashes /\ crashes' = crashes + 1
  /\ put' = [p \in Callers |-> Idle]
  /\ cut' = cut \cup {put[p].key : p \in {q \in Callers : Comparing(q)}}
  /\ UNCHANGED <<backend, file, object, referenced, reported, edits>>

FileNext == \E f \in Files, c \in Contents : EditFile(f, c)

CallNext(p) == \/ \E f \in Files : hashFile(p, f)
               \/ Exists(p) \/ Missing(p)
               \/ Stage(p) \/ RenameInto(p)
               \/ Upload(p) \/ UploadUnanswered(p) \/ Compared(p) \/ Mismatch(p)
               \/ DeleteMismatch(p) \/ DeleteFailed(p)
               \/ Fail(p)

Next == FileNext \/ Crash \/ \E p \in Callers : CallNext(p)

Spec == Init /\ [][Next]_vars

-----------------------------------------------------------------------------
(***************************************************************************)
(* Files, objects and calls of PutFile have their types; what PutFile      *)
(* returns is always a key.                                                *)
(***************************************************************************)
TypeOK == /\ backend \in {"fs", "s3"}
          /\ file \in [Files -> Contents]
          /\ object \in [Contents -> OrNone(Contents)]
          /\ referenced \in SUBSET Contents
          /\ reported \in SUBSET Contents
          /\ cut \in SUBSET Contents
          /\ put \in [Callers -> Call]
          /\ edits \in 0 .. MaxEdits
          /\ crashes \in 0 .. MaxCrashes

(***************************************************************************)
(* An object a manifest may name is there, and its bytes have the hash it  *)
(* is named by: whichever publications run at the same time, whatever      *)
(* files change under them and wherever the daemon stops.  Players check   *)
(* the hash, and would fetch a wrong object again and again.               *)
(* storage_test.go:264 asks this of the store whatever its backend.        *)
(***************************************************************************)
PublishedIntact == \A k \in referenced : object[k] = k

(***************************************************************************)
(* PublishedIntact over the file system backend, which verifies its copy   *)
(* before the rename (fs.go PutFromFile).                                  *)
(***************************************************************************)
ReferencedIntact == backend = "fs" => PublishedIntact

(***************************************************************************)
(* A changed file leaves wrong bytes under a key only where the code has   *)
(* no chance to remove them (the answer to the upload was lost, or the     *)
(* daemon stopped before comparing) or where the administrator was asked   *)
(* to remove them.  In every order of concurrent uploads PutFile removes    *)
(* the other wrong bytes before it returns.                                *)
(***************************************************************************)
WrongReported ==
  \A k \in Contents :
    \/ object[k] \in {None, k}
    \/ k \in reported \cup cut
    \/ \E p \in Callers : put[p].key = k /\ Comparing(p)

=============================================================================
