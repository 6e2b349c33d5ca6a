------------------------------ MODULE Uploads ------------------------------
(***************************************************************************)
(* Files of a build on their way to the server: `build push` on the        *)
(* client (cli/build.go) sends a file in chunks, UploadBuildChunk appends  *)
(* them to a .part file and, once it is whole and its hash is right, gives *)
(* it its hash for a name.  One chunk is handled at a time, a second one   *)
(* is refused; a part is continued by whoever comes next.  The file on the *)
(* client may be edited, an answer may be lost, the server may die between *)
(* two steps, and files older than a day are swept.  A file is a sequence  *)
(* of chunks; a hash is the name of the sequence it stands for.            *)
(***************************************************************************)
EXTENDS Integers, Sequences, FiniteSets, FiniteSetsExt, Functions

CONSTANTS Pushers,      \* clients
          Digests,
          Content,      \* [Digests -> the sequence with that hash]
          Drafts,       \* what a client's file may hold instead
          UploadLimit,  \* bytes of the uploads directory, in chunks
          MaxPushes, MaxUploadTrouble   \* bounds: pushes; edits, losses, crashes, days

ASSUME UploadAssumption ==
    /\ {UploadLimit, MaxPushes, MaxUploadTrouble} \subseteq Nat
    /\ Content \in [Digests -> Seq(Nat)] /\ Drafts \subseteq Seq(Nat)

VARIABLES parts,      \* digest -> what its .part file holds
          wholes,     \* digest -> what the file of that name holds
          stale,      \* names (<<kind, digest>>) older than a day
          sources,    \* client, digest -> the file the client reads
          push,       \* what each client is doing
          chunk,      \* the request the server is handling
          pushes, trouble

uploadVars == <<parts, wholes, stale, sources, push, chunk, pushes, trouble>>

NoPush == [at |-> "idle"]
NoChunk == [at |-> "none"]
PutIn(f, d, v) == [x \in DOMAIN f \union {d} |-> IF x = d THEN v ELSE f[x]]
WithoutFiles(f, S) == Restrict(f, DOMAIN f \ S)
Size(d) == Len(Content[d])

----------------------------------------------------------------------------
(* The client. *)

(* A file of the plan's missing hashes, from its beginning.                *)
PushStart(p, d) ==
    /\ push[p].at = "idle" /\ pushes < MaxPushes
    /\ pushes' = pushes + 1
    /\ push' = [push EXCEPT ![p] = [at |-> "send", digest |-> d, offset |-> 0]]
    /\ UNCHANGED <<parts, wholes, stale, sources, chunk, trouble>>

(* Reads at the offset, at most to the size the description names; a file  *)
(* that has become shorter gives an empty chunk.                           *)
PushSend(p) ==
    LET d == push[p].digest
        source == sources[p][d]
        next == push[p].offset + 1
    IN  /\ push[p].at = "send"
        /\ IF chunk.at # "none"
           THEN /\ push' = [push EXCEPT ![p] = NoPush]    \* alone: busy, the push ends
                /\ UNCHANGED chunk
           ELSE /\ push' = [push EXCEPT ![p].at = "wait"]
                /\ chunk' = [at |-> "look", from |-> p, lost |-> FALSE, digest |-> d, offset |-> push[p].offset,
                             data |-> IF next <= Len(source) /\ next <= Size(d)
                                      THEN <<source[next]>> ELSE <<>>]
        /\ UNCHANGED <<parts, wholes, stale, sources, pushes, trouble>>

(* The answer, if the client still waits: done, no further than before (an *)
(* error), or the offset to go on from.                                    *)
ChunkAnswered(p, offset, complete) ==
    push' = [push EXCEPT ![p] =
        IF chunk.lost THEN @ ELSE
        IF complete \/ offset > Size(@.digest) \/ offset = @.offset THEN NoPush
        ELSE [at |-> "send", digest |-> @.digest, offset |-> offset]]

----------------------------------------------------------------------------
(* The server: one request from lock to unlock. *)

Held(name) == IF name[1] = "part" THEN parts[name[2]] ELSE wholes[name[2]]
Names(P, W) == {<<"part", d>> : d \in DOMAIN P} \union {<<"whole", d>> : d \in DOMAIN W}

Refuse(p) ==
    /\ push' = [push EXCEPT ![p] = IF chunk.lost THEN @ ELSE NoPush]
    /\ chunk' = NoChunk

(* A file that is there ends it; otherwise everything older than a day     *)
(* goes, the directory must have room, and the part decides the offset.    *)
ChunkLook ==
    LET d == chunk.digest
        keptParts == WithoutFiles(parts, {e \in DOMAIN parts : <<"part", e>> \in stale})
        keptWholes == WithoutFiles(wholes, {e \in DOMAIN wholes : <<"whole", e>> \in stale})
        used == Cardinality({x \in Names(keptParts, keptWholes) \X (1..UploadLimit + 1) :
                                             x[2] <= Len(Held(x[1]))})
        part == IF d \in DOMAIN keptParts THEN keptParts[d] ELSE <<>>
    IN  /\ chunk.at = "look"
        /\ IF d \in DOMAIN wholes /\ Len(wholes[d]) = Size(d)
           THEN /\ ChunkAnswered(chunk.from, Size(d), TRUE) /\ chunk' = NoChunk
                /\ UNCHANGED <<parts, wholes, stale>>
           ELSE /\ wholes' = keptWholes /\ stale' = {}
                /\ IF used + Len(chunk.data) > UploadLimit
                   THEN parts' = keptParts /\ Refuse(chunk.from)
                   ELSE /\ parts' = PutIn(keptParts, d, part)
                        /\ IF Len(part) # chunk.offset
                           THEN ChunkAnswered(chunk.from, Len(part), FALSE) /\ chunk' = NoChunk
                           ELSE chunk' = [chunk EXCEPT !.at = "write"] /\ UNCHANGED push
        /\ UNCHANGED <<sources, pushes, trouble>>

ChunkWrite ==
    LET d == chunk.digest
        part == parts[d] \o chunk.data
    IN  /\ chunk.at = "write"
        /\ parts' = [parts EXCEPT ![d] = part]
        /\ IF Len(part) < Size(d)
           THEN ChunkAnswered(chunk.from, Len(part), FALSE) /\ chunk' = NoChunk
           ELSE chunk' = [chunk EXCEPT !.at = "hash"] /\ UNCHANGED push
        /\ UNCHANGED <<wholes, stale, sources, pushes, trouble>>

(* The hash is taken of the whole file, not of the last chunk.             *)
HashRight(d) == parts[d] = Content[d]

ChunkHash ==
    LET d == chunk.digest
    IN  /\ chunk.at = "hash"
        /\ parts' = WithoutFiles(parts, {d})
        /\ IF HashRight(d)
           THEN /\ wholes' = PutIn(wholes, d, parts[d]) /\ stale' = stale \ {<<"part", d>>}
                /\ ChunkAnswered(chunk.from, Size(d), TRUE) /\ chunk' = NoChunk
           ELSE Refuse(chunk.from) /\ UNCHANGED <<wholes, stale>>
        /\ UNCHANGED <<sources, pushes, trouble>>

----------------------------------------------------------------------------
(* What goes wrong. *)

Trouble == trouble < MaxUploadTrouble /\ trouble' = trouble + 1

EditSource(p, d, draft) ==
    /\ Trouble /\ draft # sources[p][d]
    /\ sources' = [sources EXCEPT ![p][d] = draft]
    /\ UNCHANGED <<parts, wholes, stale, push, chunk, pushes>>

(* The client gives up waiting; the server goes on with the request.       *)
LoseAnswer(p) ==
    /\ Trouble /\ push[p].at = "wait"
    /\ push' = [push EXCEPT ![p] = NoPush]
    /\ chunk' = [chunk EXCEPT !.lost = TRUE]
    /\ UNCHANGED <<parts, wholes, stale, sources, pushes>>

ServerDies ==
    /\ Trouble
    /\ chunk' = NoChunk
    /\ push' = [p \in Pushers |-> NoPush]
    /\ UNCHANGED <<parts, wholes, stale, sources, pushes>>

DayPasses ==
    /\ Trouble
    /\ stale' = Names(parts, wholes)
    /\ UNCHANGED <<parts, wholes, sources, push, chunk, pushes>>

UploadNext ==
    \/ ChunkLook \/ ChunkWrite \/ ChunkHash \/ ServerDies \/ DayPasses
    \/ \E p \in Pushers :
        \/ PushSend(p) \/ LoseAnswer(p)
        \/ \E d \in Digests :
            PushStart(p, d) \/ \E draft \in Drafts : EditSource(p, d, draft)

UploadInit ==
    /\ parts = <<>> /\ wholes = <<>> /\ stale = {}
    /\ sources = [p \in Pushers |-> Content]
    /\ push = [p \in Pushers |-> NoPush] /\ chunk = NoChunk
    /\ pushes = 0 /\ trouble = 0

----------------------------------------------------------------------------
(* Properties. *)

(* A file under its hash is the file with that hash (upload.go:19), though *)
(* its chunks come from several clients, several attempts and files edited *)
(* meanwhile; and a part never grows past the file, so a later push can    *)
(* always finish or discard it.                                            *)
HashHolds ==
    /\ \A d \in DOMAIN wholes : wholes[d] = Content[d]
    /\ \A d \in DOMAIN parts : Len(parts[d]) <= Size(d)
=============================================================================
