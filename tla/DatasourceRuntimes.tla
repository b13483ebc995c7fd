-------------------------- MODULE DatasourceRuntimes --------------------------
(***************************************************************************)
(* One datasource profile from its edits to the queries that use it        *)
(* (src/app/local/datasource_service.py, runtime_registry.py,              *)
(* datasource_runtime.py, credential_store.py, profile_resolver.py): the   *)
(* profile is on disk, its password and its runtime, an open connector,    *)
(* are in memory.  One action is one call made under one lock.  With       *)
(* Serial the calls of the handlers follow each other, as on the event     *)
(* loop of the application; without it they are calls of threads.  Queries *)
(* always run in threads.                                                  *)
(***************************************************************************)
EXTENDS Naturals

CONSTANTS
    Editors,        \* callers of create, replace and delete
    Readers,        \* queries
    Confs,          \* database, user and allowlist: a runtime identity
    Secrets,        \* passwords
    Conns,          \* connectors; the object of a closed one may come again
    StaticConf,     \* the identity of the context built from the environment
    Edits,          \* the edits that are made: "create", "replace", "delete"
    Serial,         \* the handlers share one event loop
    MaxEdits,       \* bound: edits
    MaxCrashes,     \* bound: restarts of the process
    None,           \* Python's None
    Keep,           \* _NOT_PROVIDED: the edit leaves the password out
    Static          \* the connector of the static context, always open

RuntimeAssumption ==
    /\ Edits \subseteq {"create", "replace", "delete"}
    /\ Serial \in BOOLEAN /\ MaxEdits \in Nat /\ MaxCrashes \in Nat
    /\ StaticConf \in Confs \cup {None}
    /\ None \notin Confs \cup Secrets \cup Conns /\ Keep \notin Secrets
    /\ Keep # None /\ Static \notin Conns \cup {None}

VARIABLES
    stored,         \* the profile in the store, by its identity
    password,       \* _datasource_credentials
    expected,       \* _expected_identities
    runtime,        \* _runtimes: the connector of the cached runtime
    conn,           \* of each connector: identity, password, open or not
    editor,         \* where each edit is
    job,            \* what it does, and what it found when it began
    reader,         \* where each query is
    profile,        \* the profile it has read
    using,          \* the connector of its context, or the one it is building
    edits, crashes  \* counted for the bounds

memory == <<password, expected, runtime, conn>>
editVars == <<editor, job, edits>>
readVars == <<reader, profile, using>>
vars == <<stored, memory, editVars, readVars, crashes>>

NoJob == [op |-> "none", conf |-> None, secret |-> None, was |-> None]
Unopened == [conf |-> None, secret |-> None, open |-> FALSE]

\* A fresh process: the store is there, everything else is empty.
Init ==
    /\ stored \in Confs \cup {None}
    /\ password = None /\ expected = None /\ runtime = None
    /\ conn = [c \in Conns |-> Unopened]
    /\ editor = [e \in Editors |-> "idle"]
    /\ job = [e \in Editors |-> NoJob]
    /\ reader = [r \in Readers |-> "idle"]
    /\ profile = [r \in Readers |-> None]
    /\ using = [r \in Readers |-> None]
    /\ edits = 0 /\ crashes = 0

\* Locks are held exactly between the actions named here.
MutationLockFree == \A e \in Editors : editor[e] = "idle"
RegistryLockFree == \A r \in Readers : reader[r] # "build"
LoopFree == Serial => /\ MutationLockFree
                      /\ \A r \in Readers : reader[r] \notin {"enter", "build"}

Found == <<stored, password, expected, runtime>>

-----------------------------------------------------------------------------
(* Edits: DatasourceProfileService under its _mutation_lock                *)

\* Faulty variant: the marker of a missing field is taken for a password.
FaultyNextSecret(secret) == secret

\* replace: the password it ends with, and whether it has to be tried.
NextSecret(secret) == IF secret = Keep THEN password ELSE secret
Protected(conf) == conf # stored

\* Faulty variant: only a new password is tried, and announced.
FaultyShouldValidate(conf, secret) == secret # Keep
ShouldValidate(conf, secret) == Protected(conf) \/ secret # Keep

\* create, replace and delete refuse what they can refuse at once.  With None
\* as the password replace only takes it away.
Begins(e, op, conf, secret, next) ==
    /\ editor' = [editor EXCEPT ![e] = next]
    /\ job' = [job EXCEPT ![e] = [op |-> op, conf |-> conf,
                                  secret |-> secret, was |-> Found]]

BeginCreate(e) == \E conf \in Confs, secret \in Secrets :
    /\ "create" \in Edits /\ stored = None
    /\ Begins(e, "create", conf, secret, "validate")

BeginReplace(e) == \E conf \in Confs, secret \in Secrets \cup {None, Keep} :
    /\ "replace" \in Edits /\ stored # None
    /\ secret = None => ~Protected(conf)
    /\ ShouldValidate(conf, secret) => NextSecret(secret) # None
                                       \/ secret = None
    /\ Begins(e, IF secret = None THEN "clear"
                 ELSE IF ShouldValidate(conf, secret) THEN "replace"
                 ELSE "rename",
              conf, NextSecret(secret),
              IF secret # None /\ ShouldValidate(conf, secret)
              THEN "validate" ELSE "store")

BeginDelete(e) ==
    /\ "delete" \in Edits /\ stored # None
    /\ Begins(e, "delete", None, None, "store")

Begin(e) ==
    /\ MutationLockFree /\ LoopFree /\ edits < MaxEdits
    /\ BeginCreate(e) \/ BeginReplace(e) \/ BeginDelete(e)
    /\ edits' = edits + 1
    /\ UNCHANGED <<stored, memory, readVars, crashes>>

\* Faulty variant: the password is kept before the profile is stored.
FaultyValidate(e) ==
    /\ editor[e] = "validate"
    /\ editor' = [editor EXCEPT ![e] = "store"]
    /\ password' = job[e].secret
    /\ UNCHANGED <<stored, expected, runtime, conn, job, edits,
                   readVars, crashes>>

\* A connector of its own opens, reads the allowlist and is closed again.
Validate(e) ==
    /\ editor[e] = "validate"
    /\ editor' = [editor EXCEPT ![e] = "store"]
    /\ UNCHANGED <<stored, memory, job, edits, readVars, crashes>>

\* Faulty variant: the validation is tried until it succeeds.
FaultyFail(e) ==
    /\ editor[e] \in {"validate", "store"}
    /\ editor' = [editor EXCEPT ![e] = "validate"]
    /\ UNCHANGED <<stored, memory, job, edits, readVars, crashes>>

\* The validation or the store raises.
Fail(e) ==
    /\ editor[e] \in {"validate", "store"}
    /\ editor' = [editor EXCEPT ![e] = "failed"]
    /\ UNCHANGED <<stored, memory, job, edits, readVars, crashes>>

\* One transaction.
Store(e) ==
    /\ editor[e] = "store"
    /\ stored' = job[e].conf
    /\ editor' = [editor EXCEPT ![e] = "credentials"]
    /\ UNCHANGED <<memory, job, edits, readVars, crashes>>

Credentials(e) ==
    /\ editor[e] = "credentials"
    /\ password' = job[e].secret
    /\ editor' = [editor EXCEPT ![e] =
           IF job[e].op \in {"create", "rename"} THEN "done" ELSE "invalidate"]
    /\ UNCHANGED <<stored, expected, runtime, conn, job, edits, readVars,
                   crashes>>

\* _close_runtime: a failure to close is logged and forgotten.
Closed(c) == IF c = None THEN conn ELSE [conn EXCEPT ![c].open = FALSE]

\* Faulty variants: the connector is not closed; the cached runtime is kept;
\* the new identity is not announced.
FaultyInvalidateLeaks(e) ==
    /\ editor[e] = "invalidate" /\ RegistryLockFree
    /\ expected' = job[e].conf
    /\ runtime' = None
    /\ editor' = [editor EXCEPT ![e] = "done"]
    /\ UNCHANGED <<stored, password, conn, job, edits, readVars,
                   crashes>>
FaultyInvalidateKeeps(e) ==
    /\ editor[e] = "invalidate" /\ RegistryLockFree
    /\ expected' = job[e].conf
    /\ editor' = [editor EXCEPT ![e] = "done"]
    /\ UNCHANGED <<stored, password, runtime, conn, job, edits,
                   readVars, crashes>>
FaultyInvalidateForgets(e) ==
    /\ editor[e] = "invalidate" /\ RegistryLockFree
    /\ expected' = None
    /\ runtime' = None /\ conn' = Closed(runtime)
    /\ editor' = [editor EXCEPT ![e] = "done"]
    /\ UNCHANGED <<stored, password, job, edits, readVars, crashes>>

\* RuntimeRegistry.invalidate: delete expects nothing any more.
Invalidate(e) ==
    /\ editor[e] = "invalidate" /\ RegistryLockFree
    /\ expected' = job[e].conf
    /\ runtime' = None /\ conn' = Closed(runtime)
    /\ editor' = [editor EXCEPT ![e] = "done"]
    /\ UNCHANGED <<stored, password, job, edits, readVars, crashes>>

Return(e) ==
    /\ editor[e] \in {"done", "failed"}
    /\ editor' = [editor EXCEPT ![e] = "idle"]
    /\ job' = [job EXCEPT ![e] = NoJob]
    /\ UNCHANGED <<stored, memory, edits, readVars, crashes>>

-----------------------------------------------------------------------------
(* Queries: the resolver, the registry under its lock, the workflow        *)

Rests(r) == /\ reader' = [reader EXCEPT ![r] = "idle"]
            /\ profile' = [profile EXCEPT ![r] = None]
            /\ using' = [using EXCEPT ![r] = None]

\* The profile is read; the model is resolved before the registry is asked.
Read(r) ==
    /\ reader[r] = "idle" /\ LoopFree /\ stored # None
    /\ profile' = [profile EXCEPT ![r] = stored]
    /\ reader' = [reader EXCEPT ![r] = "enter"]
    /\ UNCHANGED <<stored, memory, editVars, using, crashes>>

\* The context built from the environment serves its own identity, and asks
\* for no credentials.
UseStatic(r) ==
    /\ reader[r] = "enter" /\ profile[r] = StaticConf
    /\ using' = [using EXCEPT ![r] = Static]
    /\ reader' = [reader EXCEPT ![r] = "run"]
    /\ UNCHANGED <<stored, memory, editVars, profile, crashes>>

\* The model cannot be resolved.
GiveUp(r) ==
    /\ reader[r] = "enter" /\ Rests(r)
    /\ UNCHANGED <<stored, memory, editVars, crashes>>

Enters(r) == /\ reader[r] = "enter" /\ profile[r] # StaticConf
             /\ RegistryLockFree

\* get_or_create: another identity is expected.
Stale(r) ==
    /\ Enters(r) /\ expected \notin {None, profile[r]} /\ Rests(r)
    /\ UNCHANGED <<stored, memory, editVars, crashes>>

Expected(r) == expected \in {None, profile[r]}

\* get_or_create: without a password the cached runtime goes as well.
Missing(r) ==
    /\ Enters(r) /\ Expected(r) /\ password = None
    /\ runtime' = None /\ conn' = Closed(runtime)
    /\ Rests(r)
    /\ UNCHANGED <<stored, password, expected, editVars, crashes>>

Current(r) == runtime # None /\ conn[runtime].conf = profile[r]

Reuse(r) ==
    /\ Enters(r) /\ Expected(r) /\ password # None /\ Current(r)
    /\ using' = [using EXCEPT ![r] = runtime]
    /\ reader' = [reader EXCEPT ![r] = "run"]
    /\ UNCHANGED <<stored, memory, editVars, profile, crashes>>

Unused == {c \in Conns : ~conn[c].open /\ \A r \in Readers : using[r] # c}

\* A connector of another identity is closed; a new one is opened with the
\* password read now.  The lock is kept until the runtime is there.
Build(r) ==
    /\ Enters(r) /\ Expected(r) /\ password # None /\ ~Current(r)
    /\ \E c \in Unused :
        /\ conn' = [Closed(runtime) EXCEPT
               ![c] = [conf |-> profile[r], secret |-> password,
                       open |-> TRUE]]
        /\ using' = [using EXCEPT ![r] = c]
    /\ runtime' = None
    /\ reader' = [reader EXCEPT ![r] = "build"]
    /\ UNCHANGED <<stored, password, expected, editVars, profile, crashes>>

Built(r) ==
    /\ reader[r] = "build"
    /\ runtime' = using[r]
    /\ reader' = [reader EXCEPT ![r] = "run"]
    /\ UNCHANGED <<stored, password, expected, conn, editVars, profile, using,
                   crashes>>

\* Faulty variant: the connector of a runtime that failed stays open.
FaultyBuildFails(r) ==
    /\ reader[r] = "build" /\ Rests(r)
    /\ UNCHANGED <<stored, memory, editVars, crashes>>

\* Faulty variant: the query asks the registry again.
FaultyBuildRetries(r) ==
    /\ reader[r] = "build"
    /\ conn' = Closed(using[r])
    /\ reader' = [reader EXCEPT ![r] = "enter"]
    /\ using' = [using EXCEPT ![r] = None]
    /\ UNCHANGED <<stored, password, expected, runtime, editVars, profile,
                   crashes>>

\* open(), the allowlist or the context raise: nothing is cached.
BuildFails(r) ==
    /\ reader[r] = "build"
    /\ conn' = Closed(using[r]) /\ Rests(r)
    /\ UNCHANGED <<stored, password, expected, runtime, editVars, crashes>>

Open(c) == c \in Conns => conn[c].open

\* The workflow calls its connector, several times; a closed one raises, and
\* a call that found it open may outlast the closing.
Operate(r) ==
    /\ reader[r] = "run" /\ Open(using[r])
    /\ reader' = [reader EXCEPT ![r] = "busy"]
    /\ UNCHANGED <<stored, memory, editVars, profile, using, crashes>>

Operated(r) ==
    /\ reader[r] = "busy"
    /\ reader' = [reader EXCEPT ![r] = "run"]
    /\ UNCHANGED <<stored, memory, editVars, profile, using, crashes>>

\* The terminal state, whatever came before.
Finish(r) ==
    /\ reader[r] \in {"run", "busy"} /\ Rests(r)
    /\ UNCHANGED <<stored, memory, editVars, crashes>>

-----------------------------------------------------------------------------
\* The process dies and starts again: what was in memory is gone.
Crash ==
    /\ crashes < MaxCrashes /\ crashes' = crashes + 1
    /\ password' = None /\ expected' = None /\ runtime' = None
    /\ conn' = [c \in Conns |-> Unopened]
    /\ editor' = [e \in Editors |-> "idle"]
    /\ job' = [e \in Editors |-> NoJob]
    /\ reader' = [r \in Readers |-> "idle"]
    /\ profile' = [r \in Readers |-> None]
    /\ using' = [r \in Readers |-> None]
    /\ UNCHANGED <<stored, edits>>

Edit(e) == \/ Validate(e) \/ Fail(e) \/ Store(e) \/ Credentials(e)
           \/ Invalidate(e) \/ Return(e)
Query(r) == \/ UseStatic(r) \/ GiveUp(r) \/ Stale(r) \/ Missing(r)
            \/ Reuse(r) \/ Build(r) \/ Built(r) \/ BuildFails(r)
            \/ Finish(r)

Next == \/ \E e \in Editors : Begin(e) \/ Edit(e)
        \/ \E r \in Readers : Read(r) \/ Query(r) \/ Operate(r) \/ Operated(r)
        \/ Crash

\* Calls return, threads are scheduled and get a lock that is free again and
\* again; a query has finitely many nodes, so it finishes.
Spec == /\ Init /\ [][Next]_vars
        /\ \A e \in Editors : SF_vars(Edit(e))
        /\ \A r \in Readers : SF_vars(Query(r))

-----------------------------------------------------------------------------
(* Properties                                                              *)

Runs(r) == reader[r] \in {"run", "busy"}
Editing == ~MutationLockFree

\* Each variable holds what the code puts there.
TypeOK ==
    /\ stored \in Confs \cup {None} /\ expected \in Confs \cup {None}
    /\ password \in Secrets \cup {None} /\ runtime \in Conns \cup {None}
    /\ conn \in [Conns -> [conf : Confs \cup {None},
                           secret : Secrets \cup {None}, open : BOOLEAN]]
    /\ editor \in [Editors -> {"idle", "validate", "store", "credentials",
                               "invalidate", "done", "failed"}]
    /\ \A e \in Editors : job[e].conf \in Confs \cup {None}
                          /\ job[e].secret \in Secrets \cup {None}
    /\ reader \in [Readers -> {"idle", "enter", "build", "run", "busy"}]
    /\ profile \in [Readers -> Confs \cup {None}]
    /\ using \in [Readers -> Conns \cup {None, Static}]
    /\ edits \in 0..MaxEdits /\ crashes \in 0..MaxCrashes

\* Every open connector is the cached one or one that is being built: a
\* runtime that is replaced, refused or deleted is closed, so that a query
\* which still has it starts nothing more on it.
ConnectorsOwned ==
    \A c \in Conns : conn[c].open =>
        c = runtime \/ \E r \in Readers : reader[r] = "build" /\ using[r] = c

\* The cached runtime is that of the profile in the store and of its
\* password, whatever was edited while it was built, once no edit is under
\* way (docs/local-datasource-phase3.md, sections 4 and 5).
CachedIsCurrent ==
    runtime # None /\ ~Editing =>
        /\ conn[runtime].open
        /\ conn[runtime].conf = stored /\ conn[runtime].secret = password

\* A query never starts an operation on a configuration that an edit has
\* replaced: the connector it holds is current or closed.
NoOldData ==
    \A r \in Readers :
        Runs(r) /\ using[r] # Static /\ ~Editing /\ conn[using[r]].open =>
            conn[using[r]].conf = stored

\* An edit that fails has changed nothing: profile, password, announced
\* identity and runtime are those it found.
FailedChangesNothing ==
    \A e \in Editors : editor[e] = "failed" => Found = job[e].was

=============================================================================
