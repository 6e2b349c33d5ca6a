------------------------------ MODULE Modules ------------------------------
(***************************************************************************)
(* Modules: programs beside the server, started and configured by          *)
(* remote.Loader, asked over gRPC (sdk/go/module) for the providers they   *)
(* give the server, and told about events through a queue each.  A module  *)
(* is not started again when its process dies.  What a module decides is   *)
(* its own; the model follows how the decision travels back.               *)
(***************************************************************************)
EXTENDS Integers, Sequences, SequencesExt, FiniteSets

CONSTANTS ModuleFiles,   \* the directory, in the order it is read
          Gives,         \* file -> sequence of <<kind, name>> in its manifest
          Builtin,       \* <<kind, name>> of the server's own providers
          Configured,    \* <<kind, name>> the configuration asks for
          Publishers, QueueSize, MaxEvents

Files == Range(ModuleFiles)
Own == "server"
Nobody == "nobody"

ASSUME ModulesAssumption ==
    /\ QueueSize \in Nat \ {0} /\ MaxEvents \in Nat
    /\ ModuleFiles \in Seq(Files) /\ IsInjective(ModuleFiles)
    /\ Own \notin Files /\ Nobody \notin Files

VARIABLES loading,   \* index of the next file; past the end the server serves
          process,   \* file -> whether its process runs
          described, \* files whose settings schema is registered
          subscribed,\* Loader.handlers
          owner,     \* <<kind, name>> -> who registered it
          opened,    \* file -> its grpcServer.opened
          wired,     \* <<kind, name>> -> the provider the server built
          outcome,   \* the answer to the last call of a provider
          queue, emitting, seen,  \* file -> its eventTarget.queue, worker, and events it was given
          sending,   \* publisher -> the event and the targets it has still to offer
          published, \* events so far: those that were published before it began
          finished   \* history: events whose Publish returned

modulesVars == <<loading, process, described, subscribed, owner, opened, wired, outcome, queue,
                 emitting, seen, sending, published, finished>>
eventVars == <<queue, emitting, seen, sending, published, finished>>
providerVars == <<owner, opened, wired, outcome>>

NoOutcome == [of |-> Nobody]
Serving == loading > Len(ModuleFiles)

----------------------------------------------------------------------------
(* Loading, one file after the other, before the server serves.            *)

freeAlways(spec) == TRUE
free(spec) == owner[spec] = Nobody

registerProviders(f) ==
    owner' = [spec \in DOMAIN owner |->
                IF spec \in Range(Gives[f]) /\ free(spec) THEN f ELSE owner[spec]]

(* registerSchemas: the descriptions of a module's settings and of those   *)
(* of its providers, all of them or none: a name that is described already *)
(* (RegisterSchema) takes the others back.                                 *)
RegisterSchema(spec) == \A f \in described : spec \notin Range(Gives[f])
registerSchemas(f) == IF \A spec \in Range(Gives[f]) : RegisterSchema(spec)
                      THEN described \union {f} ELSE described

(* load: not executable or no handshake, nothing of it stays; a rejected   *)
(* configuration (configure) kills it and leaves its schema for the        *)
(* settings screen; otherwise it is added, with its events and providers.  *)
loadModule(f) ==
    /\ ~ Serving /\ f = ModuleFiles[loading]
    /\ loading' = loading + 1
    /\ \/ UNCHANGED <<process, described, subscribed, owner>>
       \/ described' = registerSchemas(f) /\ UNCHANGED <<process, subscribed, owner>>
       \/ /\ process' = [process EXCEPT ![f] = TRUE]
          /\ described' \in {described, registerSchemas(f)}
          /\ subscribed' = Append(subscribed, f)
          /\ registerProviders(f)
    /\ UNCHANGED <<opened, wired, outcome, eventVars>>

(* BuildProvider, skin.Build, access.New, news.New: the owner opens it and *)
(* answers with a handle.                                                  *)
OpenProvider(spec) ==
    /\ Serving /\ wired[spec] = NoOutcome
    /\ LET f == owner[spec] IN
       /\ f # Nobody
       /\ IF f = Own
          THEN /\ wired' = [wired EXCEPT ![spec] = [of |-> Own, handle |-> 0]]
               /\ UNCHANGED opened
          ELSE /\ process[f]
               /\ opened' = [opened EXCEPT ![f] = Append(@, spec)]
               /\ wired' = [wired EXCEPT ![spec] = [of |-> f, handle |-> Len(opened[f]) + 1]]
    /\ UNCHANGED <<loading, process, described, subscribed, owner, outcome, eventVars>>

----------------------------------------------------------------------------
(* A call of a provider and the way of its answer: the module's decision   *)
(* on the wire, and what the server makes of it.                           *)

Decisions == {"accept", "second factor", "invalid", "error"}

(* grpcServer.Authenticate, Allows, Textures, NewsItems.                   *)
wireAnswer(decision) ==
    CASE decision = "accept" -> "ACCEPTED"
      [] decision = "second factor" -> "TWO_FACTOR_REQUIRED"
      [] decision = "invalid" -> "INVALID_CREDENTIALS"
      [] OTHER -> "rpc error"

(* grpcClient.Authenticate and remoteAuth: an outcome nobody knows is an   *)
(* error of the source, never a wrong password.                            *)
clientAnswer(wire) ==
    CASE wire = "ACCEPTED" -> "identity"
      [] wire = "TWO_FACTOR_REQUIRED" -> "second factor"
      [] wire = "INVALID_CREDENTIALS" -> "invalid"
      [] OTHER -> "unavailable"

(* provider: the handle must have been opened in the process that runs,    *)
(* for a provider of the kind that is called.                              *)
provider(f, handle) == IF handle \in DOMAIN opened[f] THEN opened[f][handle] ELSE <<Nobody, Nobody>>

AuthenticateRemote(spec) ==
    /\ wired[spec] # NoOutcome /\ wired[spec].of # Own
    /\ LET f == wired[spec].of
           found == provider(f, wired[spec].handle)
       IN  \E decision \in Decisions :
             LET wire == IF ~ process[f] \/ found[1] # spec[1] THEN "rpc error" ELSE wireAnswer(decision)
             IN  outcome' = [of |-> f, spec |-> spec, found |-> found, decision |-> decision,
                             alive |-> process[f], result |-> clientAnswer(wire)]
    /\ UNCHANGED <<loading, process, described, subscribed, owner, opened, wired, eventVars>>

----------------------------------------------------------------------------
(* Events.  Publish offers the event to one target after another and       *)
(* waits for none: a full queue loses it.                                  *)

BeginPublish(p) ==
    /\ Serving /\ sending[p] = NoOutcome
    /\ Len(published) < MaxEvents
    /\ published' = Append(published, finished)
    /\ sending' = [sending EXCEPT ![p] = [of |-> Len(published) + 1, left |-> subscribed]]
    /\ UNCHANGED <<loading, process, described, subscribed, providerVars, queue, emitting, seen, finished>>

OfferEvent(p) ==
    /\ sending[p] # NoOutcome
    /\ LET event == sending[p].of
           left == sending[p].left
       IN  IF left = <<>>
           THEN /\ sending' = [sending EXCEPT ![p] = NoOutcome]
                /\ finished' = finished \union {event}
                /\ UNCHANGED queue
           ELSE /\ sending' = [sending EXCEPT ![p].left = Tail(left)]
                /\ queue' = IF Len(queue[Head(left)]) < QueueSize
                            THEN [queue EXCEPT ![Head(left)] = Append(@, event)] ELSE queue
                /\ UNCHANGED finished
    /\ UNCHANGED <<loading, process, described, subscribed, providerVars, emitting, seen, published>>

(* worker: one event at a time.                                            *)
worker(f) ==
    /\ Serving /\ emitting[f] = 0 /\ queue[f] # <<>>
    /\ emitting' = [emitting EXCEPT ![f] = Head(queue[f])]
    /\ queue' = [queue EXCEPT ![f] = Tail(@)]
    /\ UNCHANGED <<loading, process, described, subscribed, providerVars, seen, sending, published, finished>>

(* dispatch: the module gets it, and its error or a call that took too     *)
(* long ends the matter; the event is not offered again.                   *)
dispatch(f) ==
    /\ emitting[f] # 0
    /\ \/ seen' = [seen EXCEPT ![f] = Append(@, emitting[f])] /\ process[f]
       \/ UNCHANGED seen
    /\ emitting' = [emitting EXCEPT ![f] = 0]
    /\ UNCHANGED <<loading, process, described, subscribed, providerVars, queue, sending, published, finished>>

----------------------------------------------------------------------------
(* The process of a module dies by itself, or Close kills it.              *)
Kill(f) ==
    /\ process[f]
    /\ process' = [process EXCEPT ![f] = FALSE]
    /\ UNCHANGED <<loading, described, subscribed, providerVars, eventVars>>

(* Calls and events share the processes and nothing else.                  *)
ModuleCalls ==
    \/ \E f \in Files : loadModule(f) \/ Kill(f)
    \/ \E spec \in Configured : OpenProvider(spec) \/ AuthenticateRemote(spec)
ModuleEvents ==
    \/ \E f \in Files : loadModule(f) \/ worker(f) \/ dispatch(f) \/ Kill(f)
    \/ \E p \in Publishers : BeginPublish(p) \/ OfferEvent(p)

ModulesInit ==
    /\ loading = 1
    /\ process = [f \in Files |-> FALSE]
    /\ described = {} /\ subscribed = <<>>
    /\ owner = [spec \in Builtin \union Configured \union UNION {Range(Gives[f]) : f \in Files} |->
                  IF spec \in Builtin THEN Own ELSE Nobody]
    /\ opened = [f \in Files |-> <<>>]
    /\ wired = [spec \in Configured |-> NoOutcome]
    /\ outcome = NoOutcome
    /\ queue = [f \in Files |-> <<>>] /\ seen = [f \in Files |-> <<>>]
    /\ emitting = [f \in Files |-> 0]
    /\ sending = [p \in Publishers |-> NoOutcome]
    /\ published = <<>> /\ finished = {}

ModulesSpec == ModulesInit /\ [][ModuleCalls \/ ModuleEvents]_modulesVars

----------------------------------------------------------------------------
(* Properties *)

(* A module is given no event twice, and none before one whose Publish had *)
(* returned when the other's began, although publishers run at the same    *)
(* time, queues overflow and calls fail (Loader.Subscribe, worker,         *)
(* dispatch).                                                              *)
EventsInOrder ==
    \A f \in Files : \A i, j \in DOMAIN seen[f] :
        i < j => seen[f][i] # seen[f][j] /\ seen[f][j] \notin published[seen[f][i]]

(* A configured provider is answered for by the object opened under its    *)
(* kind and name in the module that took the name first (or by the server  *)
(* itself when the name is its own), and a module that failed or is gone   *)
(* never turns into an identity or a wrong password (registerProvider,     *)
(* grpcServer.provider, grpcClient.Authenticate, remoteAuth).              *)
AnswersHonest ==
    /\ outcome # NoOutcome =>
        /\ outcome.spec \notin Builtin
        /\ outcome.result # "unavailable" =>
             /\ outcome.alive /\ outcome.found = outcome.spec
             /\ outcome.result = IF outcome.decision = "accept" THEN "identity" ELSE outcome.decision
    /\ \A spec \in Configured : wired[spec] # NoOutcome =>
         wired[spec].of = owner[spec] /\ (wired[spec].of # Own => provider(owner[spec], wired[spec].handle) = spec)

(* What travels between the server and its modules arrives as it was       *)
(* meant: events at most once and in order of publication (a full queue    *)
(* loses them, loader.go:233), answers from the provider that was          *)
(* configured and never made up for a module that is gone.                 *)
ModulesHeard == EventsInOrder /\ AnswersHonest
=============================================================================
