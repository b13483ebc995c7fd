------------------------ MODULE ApplicationLifecycle ------------------------
(***************************************************************************)
(* The life of the backend process: ApplicationBootstrap.build and the     *)
(* closing of what it built (src/app/api/bootstrap.py), the registry of    *)
(* the static connectors (src/app/connectors/registry.py) and the FastAPI  *)
(* lifespan around them (src/app/api/application.py).  The start can fail  *)
(* in every stage; what was built until then is closed in reverse order.   *)
(* An interrupt, or any other BaseException, may come at every step of the *)
(* start and of the closing.                                               *)
(***************************************************************************)
EXTENDS Naturals, Sequences, FiniteSets, SequencesExt

CONSTANTS
    Ids,            \* datasource IDs of the configuration
    Pagila,         \* the one with a frozen manifest and a fixed allowlist
    MaxSources,     \* bound: configured datasources
    Profiles,       \* datasource profiles used while the process serves
    None

Steps == {"profiles", "configuration", "datasource", "create", "register",
          "open", "semantics", "pend", "model", "embedding", "context",
          "runner", "services", "up", "models", "dynamic", "connectors",
          "credentials", "failed", "down"}

\* What ends the start, and where.
Causes == {"exception", "database", "interrupt"} \X Steps

LifecycleAssumption ==
    /\ Pagila \in Ids /\ MaxSources \in Nat \ {0}
    /\ Profiles \cap (1 .. MaxSources) = {}
    /\ None \notin {"DB_CLOSE_ERROR", "interrupt"} \cup Causes

VARIABLES
    configured, \* datasource IDs, the primary first
    pc,         \* what is done next
    stage,      \* the local variable stage
    at,         \* index of the datasource of this round
    owned,      \* owned_connectors: indexes of configured
    registered, \* the registry, in order
    pending,    \* datasources set up
    routing,    \* there are model settings
    contexts,   \* datasources with a context
    cached,     \* dynamic runtimes, in order
    conn,       \* state of every static and dynamic connector
    closings,   \* history: connectors whose close was called, in order
    credentials,\* profiles with a credential in memory
    serving,    \* requests find app.state.services
    served,     \* the lifespan has reached its try
    cut,        \* history: the steps of the closing that were interrupted
    cause,      \* history: what failed the start, and where
    error       \* what is raised in the end

build == <<configured, stage, at, owned, registered, pending, routing, contexts>>
life == <<cached, conn, closings, credentials, serving, served, cut>>
vars == <<pc, build, life, cause, error>>

Static == 1 .. MaxSources
Closing == {"models", "dynamic", "connectors", "credentials"}
Finished == {"failed", "down"}

\* The IDs of datasources.json are different; the primary one may be among
\* them.
Configurations ==
    {c \in BoundedSeq(Ids, MaxSources) :
        c = <<>> \/ IsInjective(c) \/ IsInjective(Tail(c))}

Init ==
    /\ configured \in Configurations
    /\ pc = "profiles" /\ stage = "profiles" /\ at = 1
    /\ owned = <<>> /\ registered = <<>> /\ pending = <<>>
    /\ routing \in BOOLEAN /\ contexts = {} /\ cached = <<>>
    /\ conn = [c \in Static \cup Profiles |-> "none"]
    /\ closings = <<>> /\ credentials = {} /\ serving = FALSE /\ served = FALSE
    /\ cut = {} /\ cause = None /\ error = None

-----------------------------------------------------------------------------
(* Start                                                                   *)

\* An exception of class c, at what pc names: the except clauses clean up.
Raise(c) == cause' = <<c, pc>> /\ pc' = "models"

\* Stages that only may raise: the store and the services of the profiles,
\* the settings, the embedding provider, the traced runner, the services.
Following == [profiles |-> "configuration", configuration |-> "datasource",
              embedding |-> "context", runner |-> "services"]
Build ==
    /\ pc \in DOMAIN Following
    /\ \/ pc' = Following[pc] /\ UNCHANGED cause
       \/ Raise("exception")
    /\ stage' = pc
    /\ UNCHANGED <<configured, at, owned, registered, pending, routing,
                   contexts, life, error>>

\* The head of the loop: a duplicate, or no allowlist for it, is an error.
Datasource ==
    /\ pc = "datasource"
    /\ IF at > Len(configured)
       THEN pc' = "model" /\ UNCHANGED <<stage, cause>>
       ELSE /\ stage' = "configuration"
            /\ IF configured[at] \in ToSet(SubSeq(configured, 1, at - 1))
               THEN Raise("exception")
               ELSE \/ pc' = "create" /\ UNCHANGED cause
                    \/ configured[at] # Pagila /\ Raise("exception")
    /\ UNCHANGED <<configured, at, owned, registered, pending, routing,
                   contexts, life, error>>

\* Faulty variant: a connector is owned when it is open.
FaultyCreate ==
    /\ pc = "create" /\ stage' = "connector"
    /\ \/ /\ conn' = [conn EXCEPT ![at] = "created"]
          /\ pc' = "register" /\ UNCHANGED <<cause, owned>>
       \/ Raise("exception") /\ UNCHANGED <<conn, owned>>
    /\ UNCHANGED <<configured, at, registered, pending, routing, contexts,
                   cached, closings, credentials, serving, served, cut, error>>

\* ConnectorFactory.create, and ownership before anything else can fail; only
\* an interrupt between the two leaves a connector that nobody owns.
Create ==
    /\ pc = "create" /\ stage' = "connector"
    /\ \/ /\ conn' = [conn EXCEPT ![at] = "created"]
          /\ owned' = Append(owned, at) /\ pc' = "register"
          /\ UNCHANGED cause
       \/ Raise("exception") /\ UNCHANGED <<conn, owned>>
       \/ /\ conn' = [conn EXCEPT ![at] = "created"]
          /\ Raise("interrupt") /\ UNCHANGED owned
    /\ UNCHANGED <<configured, at, registered, pending, routing, contexts,
                   cached, closings, credentials, serving, served, cut, error>>

\* ConnectorRegistry.register
Register ==
    /\ pc = "register"
    /\ \/ /\ configured[at] \notin {configured[i] : i \in ToSet(registered)}
          /\ registered' = Append(registered, at) /\ pc' = "open"
          /\ UNCHANGED cause
       \/ Raise("exception") /\ UNCHANGED registered
    /\ UNCHANGED <<configured, stage, at, owned, pending, routing, contexts,
                   life, error>>

\* open(); a failure leaves the connector created.
Open ==
    /\ pc = "open"
    /\ \/ /\ conn' = [conn EXCEPT ![at] = "open"]
          /\ pc' = IF configured[at] = Pagila THEN "semantics" ELSE "pend"
          /\ UNCHANGED cause
       \/ \E c \in {"database", "exception"} : Raise(c) /\ UNCHANGED conn
    /\ UNCHANGED <<build, cached, closings, credentials, serving, served, cut,
                   error>>

\* _setup_pagila_connector: metadata is read and compared with the manifest.
Semantics ==
    /\ pc = "semantics"
    /\ \/ pc' = "pend" /\ UNCHANGED cause
       \/ \E c \in {"database", "exception"} : Raise(c)
    /\ UNCHANGED <<build, life, error>>

Pend ==
    /\ pc = "pend"
    /\ pending' = Append(pending, at) /\ at' = at + 1 /\ pc' = "datasource"
    /\ UNCHANGED <<configured, stage, owned, registered, routing, contexts,
                   life, cause, error>>

\* The routes and their providers, when there are settings.
Model ==
    /\ pc = "model" /\ stage' = "model"
    /\ (pc' = "embedding" /\ UNCHANGED cause) \/ Raise("exception")
    /\ UNCHANGED <<configured, at, owned, registered, pending, routing,
                   contexts, life, error>>

\* Faulty variant: nothing without a datasource.
FaultyContext ==
    /\ pc = "context" /\ stage' = "context" /\ pending # <<>>
    /\ contexts' = IF routing THEN ToSet(pending) ELSE {}
    /\ pc' = "runner"
    /\ UNCHANGED <<configured, at, owned, registered, pending, routing,
                   life, cause, error>>

\* One context for each datasource, only with a model; then the registry and
\* the services of the dynamic runtimes.
Context ==
    /\ pc = "context" /\ stage' = "context"
    /\ \/ /\ contexts' = IF routing THEN ToSet(pending) ELSE {}
          /\ pc' = "runner" /\ UNCHANGED cause
       \/ Raise("exception") /\ UNCHANGED contexts
    /\ UNCHANGED <<configured, at, owned, registered, pending, routing,
                   life, error>>

\* The services; the lifespan sets app.state.services.
Services ==
    /\ pc = "services" /\ stage' = "services"
    /\ \/ /\ served' = TRUE /\ serving' = TRUE /\ pc' = "up"
          /\ UNCHANGED cause
       \/ Raise("exception") /\ UNCHANGED <<serving, served>>
    /\ UNCHANGED <<configured, at, owned, registered, pending, routing,
                   contexts, cached, conn, closings, credentials, cut, error>>

\* Any other BaseException, such as KeyboardInterrupt, while building.
Interrupt ==
    /\ pc \notin Closing \cup Finished \cup {"up"}
    /\ Raise("interrupt")
    /\ UNCHANGED <<build, life, error>>

-----------------------------------------------------------------------------
(* Serving                                                                 *)

\* A profile is used: its credential is entered, its runtime built.
UseProfile(p) ==
    /\ pc = "up" /\ p \notin ToSet(cached) /\ conn[p] = "none"
    /\ conn' = [conn EXCEPT ![p] = "open"] /\ cached' = Append(cached, p)
    /\ credentials' = credentials \cup {p}
    /\ UNCHANGED <<pc, build, closings, serving, served, cut, cause, error>>

\* close() is called and works, or raises.
Closed(c) ==
    /\ closings' = Append(closings, c)
    /\ conn' \in {[conn EXCEPT ![c] = s] : s \in {"closed", "close_failed"}}

\* A profile is deleted: invalidate closes its runtime.
DeleteProfile(p) ==
    /\ pc = "up" /\ Closed(p)
    /\ \E i \in DOMAIN cached : cached[i] = p /\ cached' = RemoveAt(cached, i)
    /\ credentials' = credentials \ {p}
    /\ UNCHANGED <<pc, build, serving, served, cut, cause, error>>

\* Faulty variant: requests still find the services.
FaultyShutdown ==
    /\ pc = "up" /\ pc' = "models"
    /\ UNCHANGED <<build, life, cause, error>>

\* The lifespan ends.
Shutdown ==
    /\ pc = "up" /\ serving' = FALSE /\ pc' = "models"
    /\ UNCHANGED <<build, cached, conn, closings, credentials, served, cut,
                   cause, error>>

\* It is interrupted before its try, when build has returned, or in its
\* finally clause before the call of close: nothing is closed.
InterruptLifespan ==
    /\ pc \in {"services", "up"}
    /\ pc' = IF served THEN "down" ELSE "failed"
    /\ cut' = {"lifespan"} /\ error' = "interrupt" /\ serving' = FALSE
    /\ UNCHANGED <<build, cached, conn, closings, credentials, served, cause>>

-----------------------------------------------------------------------------
(* Closing: after a failure of the start, or by _close_application_resources *)

\* Faulty variant: waits until no runtime is left.
FaultyCloseModels ==
    /\ pc = "models" /\ cached = <<>> /\ pc' = "dynamic"
    /\ UNCHANGED <<build, life, cause, error>>

\* ModelRuntimeRegistry.close_all: nothing to close, only to forget.
CloseModels ==
    /\ pc = "models" /\ pc' = "dynamic"
    /\ UNCHANGED <<build, life, cause, error>>

\* RuntimeRegistry.close_all: last first, failures are logged.
CloseDynamic ==
    /\ pc = "dynamic"
    /\ IF cached = <<>> THEN pc' = "connectors" /\ UNCHANGED <<life>>
       ELSE /\ Closed(Last(cached)) /\ cached' = Front(cached) /\ pc' = pc
            /\ UNCHANGED <<credentials, serving, served, cut>>
    /\ UNCHANGED <<build, cause, error>>

\* What is still to be closed: the connectors of the registry, or of a start
\* that failed those it owned.
Opened == IF served THEN registered ELSE owned
Left == {i \in DOMAIN Opened : Opened[i] \notin ToSet(closings)}
Latest == Opened[CHOOSE i \in Left : \A j \in Left : j <= i]

\* Faulty variant: the first failure of a close ends it.
FaultyCloseConnectors ==
    /\ pc = "connectors"
    /\ IF Left = {} \/ \E c \in Static : conn[c] = "close_failed"
       THEN pc' = "credentials" /\ UNCHANGED life
       ELSE /\ Closed(Latest) /\ pc' = pc
            /\ UNCHANGED <<cached, credentials, serving, served, cut>>
    /\ UNCHANGED <<build, cause, error>>

\* Faulty variant: in the order of the start.
FaultyCloseFirst ==
    /\ pc = "connectors"
    /\ IF Left = {} THEN pc' = "credentials" /\ UNCHANGED life
       ELSE /\ Closed(Opened[CHOOSE i \in Left : \A j \in Left : i <= j]) /\ pc' = pc
            /\ UNCHANGED <<cached, credentials, serving, served, cut>>
    /\ UNCHANGED <<build, cause, error>>

\* ConnectorRegistry.close_all, _close_connectors: every one, last first.
CloseConnectors ==
    /\ pc = "connectors"
    /\ IF Left = {} THEN pc' = "credentials" /\ UNCHANGED life
       ELSE /\ Closed(Latest) /\ pc' = pc
            /\ UNCHANGED <<cached, credentials, serving, served, cut>>
    /\ UNCHANGED <<build, cause, error>>

\* The call that closes the next connector, if there is one, is made or not.
Interrupted ==
    /\ cut' = cut \cup {pc}
    /\ \/ UNCHANGED <<cached, conn, closings>>
       \/ /\ pc = "dynamic" /\ cached # <<>>
          /\ Closed(Last(cached)) /\ cached' = Front(cached)
       \/ pc = "connectors" /\ Left # {} /\ Closed(Latest) /\ UNCHANGED cached
    /\ UNCHANGED <<build, credentials, serving, served, cause>>

\* What the finally clauses of _close_application_resources do next.
Finally == [models |-> "dynamic", dynamic |-> "connectors",
            connectors |-> "credentials"]

\* Faulty variant: the steps of the closing follow each other without a try.
FaultyInterruptClosing ==
    /\ pc \in Closing /\ Interrupted /\ error' = "interrupt"
    /\ pc' = IF served THEN "down" ELSE "failed"

\* A BaseException while something is closed.  What is left of the step stays
\* as it is: the registry has forgotten its runtimes, the loop over the
\* connectors ends.  The finally clauses of the running application go on; the
\* except clause of a start that failed ends, and its failure is replaced.
InterruptClosing ==
    /\ pc \in Closing /\ Interrupted
    /\ IF served /\ pc # "credentials"
       THEN pc' = Finally[pc] /\ UNCHANGED error
       ELSE /\ pc' = IF served THEN "down" ELSE "failed"
            /\ error' = "interrupt"

\* Faulty variant: a failed close hides what failed before.
FaultyRaised ==
    IF \E c \in Static : conn[c] = "close_failed" THEN "DB_CLOSE_ERROR"
    ELSE IF cause # None THEN IF cause[1] = "exception" THEN stage ELSE cause[1]
    ELSE None

\* What is raised in the end.  The error of ConnectorRegistry.close_all takes
\* the place of an earlier interrupt, and a later interrupt its place.
Raised ==
    IF cause # None THEN IF cause[1] = "exception" THEN stage ELSE cause[1]
    ELSE IF /\ "connectors" \notin cut
            /\ \E c \in Static : conn[c] = "close_failed" THEN "DB_CLOSE_ERROR"
    ELSE IF cut # {} THEN "interrupt" ELSE None

\* Faulty variant: only after a failure of the start.
FaultyClearCredentials ==
    /\ pc = "credentials"
    /\ credentials' = IF served THEN credentials ELSE {}
    /\ error' = Raised /\ pc' = IF served THEN "down" ELSE "failed"
    /\ UNCHANGED <<build, cached, conn, closings, serving, served, cut, cause>>

\* InMemoryCredentialStore.clear_all
ClearCredentials ==
    /\ pc = "credentials" /\ credentials' = {}
    /\ error' = Raised /\ pc' = IF served THEN "down" ELSE "failed"
    /\ UNCHANGED <<build, cached, conn, closings, serving, served, cut, cause>>

Starting ==
    \/ Build \/ Datasource \/ Create \/ Register \/ Open \/ Semantics
    \/ Pend \/ Model \/ Context \/ Services
Ending ==
    CloseModels \/ CloseDynamic \/ CloseConnectors \/ ClearCredentials

Next ==
    \/ Starting \/ Ending \/ Interrupt \/ Shutdown
    \/ InterruptLifespan \/ InterruptClosing
    \/ \E p \in Profiles : UseProfile(p) \/ DeleteProfile(p)

Spec == Init /\ [][Next]_vars
-----------------------------------------------------------------------------
(* Properties                                                              *)

TypeOK ==
    /\ configured \in Configurations
    /\ pc \in Steps
    /\ at \in 1 .. MaxSources + 1
    /\ IsPrefix(registered, owned) /\ IsPrefix(pending, owned)
    /\ contexts \subseteq Static /\ routing \in BOOLEAN
    /\ ToSet(cached) \subseteq Profiles /\ IsInjective(cached)
    /\ conn \in [Static \cup Profiles ->
                    {"none", "created", "open", "closed", "close_failed"}]
    /\ ToSet(closings) \subseteq Static \cup Profiles
    /\ credentials \subseteq Profiles /\ {serving, served} \subseteq BOOLEAN
    /\ cut \subseteq Closing \cup {"lifespan"}

\* An interrupt kept this step of the closing from its end: one of the step
\* itself, of an earlier one when the start had failed, or of the lifespan.
Earlier == [dynamic |-> {"models", "dynamic"},
            connectors |-> {"models", "dynamic", "connectors"},
            credentials |-> Closing]
Lost(step) ==
    \/ "lifespan" \in cut
    \/ cut \cap (IF served THEN {step} ELSE Earlier[step]) # {}

\* Whatever fails to close and whatever step is interrupted, close is called at
\* most once on a connector, and a step that no interrupt kept from its end
\* has closed all that was its: the connectors of the profiles, and those of
\* the configuration, but for the one that an interrupt left without an owner.
AllClosed ==
    /\ IsInjective(closings)
    /\ ToSet(closings) =
           {c \in DOMAIN conn : conn[c] \in {"closed", "close_failed"}}
    /\ pc \in Finished /\ ~Lost("dynamic") =>
           \A p \in Profiles : conn[p] # "open"
    /\ pc \in Finished /\ ~Lost("connectors") =>
           \A c \in Static :
               /\ conn[c] # "open"
               /\ conn[c] = "created" => /\ c \notin ToSet(owned)
                                         /\ cause = <<"interrupt", "create">>

\* Connectors are closed in the reverse order of their creation, those of
\* profiles before those of the configuration.
ReverseOrder ==
    \A i, j \in DOMAIN closings :
        i < j /\ closings[i] \in Static =>
            closings[j] \in Static /\ closings[j] < closings[i]

\* The stage at which each step of the start is.
StageOf(step) ==
    CASE step \in {"configuration", "datasource"} -> "configuration"
      [] step \in {"create", "register", "open", "semantics", "pend"} ->
            "connector"
      [] OTHER -> step

\* The error of a start that failed is the failure that ended it, with the
\* stage it happened in, whatever fails while it is cleaned up, unless the
\* cleaning up is interrupted.  A closing that failed to close a connector of
\* the configuration says so, even when it was interrupted before.
FailureTold ==
    /\ pc = "failed" =>
          error = IF cut # {} THEN "interrupt"
                  ELSE IF cause[1] = "exception" THEN StageOf(cause[2])
                  ELSE cause[1]
    /\ pc = "down" =>
          error = IF /\ cut \subseteq {"models", "dynamic"}
                     /\ \E c \in ToSet(registered) : conn[c] = "close_failed"
                  THEN "DB_CLOSE_ERROR"
                  ELSE IF cut # {} THEN "interrupt" ELSE None

\* Requests find the services only while every connector of the configuration
\* is registered and open, with a context for each or, without a model, none.
ServedOpen ==
    serving =>
        /\ Len(registered) = Len(configured)
        /\ \A c \in ToSet(registered) : conn[c] = "open"
        /\ IsInjective(configured)
        /\ contexts = IF routing THEN ToSet(registered) ELSE {}
        /\ \A p \in Profiles : conn[p] = "open" <=> p \in ToSet(cached)

\* No credential is left in memory, whatever else of the closing failed; an
\* interrupt leaves them when it comes in the last step, in the lifespan, or
\* while a start that failed is cleaned up.
CredentialsGone ==
    pc \in Finished /\ ~Lost("credentials") => credentials = {}

=============================================================================
