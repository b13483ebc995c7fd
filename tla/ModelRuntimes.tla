---------------------------- MODULE ModelRuntimes ----------------------------
(***************************************************************************)
(* One model profile from its edits to the queries that use it             *)
(* (src/app/local/model_service.py, model_runtime_registry.py,             *)
(* model_runtime.py, credential_store.py): the profile is on disk, its two *)
(* keys, their revision and the runtime are in memory.  Unlike a           *)
(* datasource a model may do without keys, a runtime holds no connection,  *)
(* and its identity contains the revision of the keys.  Serial is as in    *)
(* DatasourceRuntimes.                                                     *)
(***************************************************************************)
EXTENDS Naturals

CONSTANTS
    Editors,        \* callers of create, replace and delete
    Readers,        \* queries
    Endpoints,      \* a base URL with the model or provider behind it
    Keys,           \* API keys
    Serial,         \* the handlers share one event loop
    MaxEdits,       \* bound: edits
    MaxCrashes,     \* bound: restarts of the process
    None,           \* Python's None
    Keep            \* _NOT_PROVIDED: the edit leaves the key out

Profiles == [gen : Endpoints, emb : Endpoints \cup {None}]
Identities == [profile : Profiles, revision : 0..MaxEdits]

ModelAssumption ==
    /\ Serial \in BOOLEAN /\ MaxEdits \in Nat /\ MaxCrashes \in Nat
    /\ None \notin Endpoints \cup Keys \cup Profiles \cup Identities
    /\ Keep \notin Keys \cup {None}

VARIABLES
    stored,         \* the profile in the store
    keys,           \* _model_credentials: no entry is no keys
    revision,       \* _model_revisions
    expected,       \* _expected_identities
    cached,         \* _runtimes with _runtime_identities
    editor,         \* where each edit is
    job,            \* the profile and the keys it ends with
    reader,         \* where each query is
    profile,        \* the profile it has read
    found,          \* the identity get_or_create has computed
    using,          \* the runtime of its context
    fresh,          \* no edit was under way when it began, nor since
    given,          \* which key was ever given for which endpoint
    edits, crashes  \* counted for the bounds

memory == <<keys, revision, expected, cached>>
editVars == <<editor, job, given, edits>>
readVars == <<reader, profile, found, using, fresh>>
vars == <<stored, memory, editVars, readVars, crashes>>

KeyPairs == [gen : Keys \cup {None}, emb : Keys \cup {None}]
NoKeys == [gen |-> None, emb |-> None]
NoJob == [op |-> "none", profile |-> None, keys |-> NoKeys]

\* A fresh process: the store is there, everything else is empty.
Init ==
    /\ stored \in Profiles \cup {None}
    /\ keys = NoKeys /\ revision = 0 /\ expected = None /\ cached = None
    /\ editor = [e \in Editors |-> "idle"]
    /\ job = [e \in Editors |-> NoJob]
    /\ reader = [r \in Readers |-> "idle"]
    /\ profile = [r \in Readers |-> None]
    /\ found = [r \in Readers |-> None]
    /\ using = [r \in Readers |-> None]
    /\ fresh = [r \in Readers |-> FALSE]
    /\ given = {} /\ edits = 0 /\ crashes = 0

WriteLockFree == \A e \in Editors : editor[e] = "idle"
RegistryLockFree == \A r \in Readers : reader[r] # "build"
LoopFree == Serial => /\ WriteLockFree
                      /\ \A r \in Readers : reader[r] \notin {"enter", "build"}

\* Faulty variant: the embedding is not part of the identity.
FaultyIdentity(p) == [profile |-> [p EXCEPT !.emb = None],
                      revision |-> revision]

\* _runtime_identity, read with the revision of this moment.
Identity(p) == [profile |-> p, revision |-> revision]

-----------------------------------------------------------------------------
(* Edits: ModelProfileService under its _write_lock                        *)

\* Faulty variant: a key outlives the change of its endpoint.
FaultyNextKey(now, old, new, key) == IF key = Keep THEN now ELSE key

\* The key that replace ends with: now for endpoint old, next for new.
NextKey(now, old, new, key) ==
    IF key # Keep THEN key ELSE IF old = new THEN now ELSE None

Begins(e, op, p, k) ==
    /\ editor' = [editor EXCEPT ![e] = "store"]
    /\ job' = [job EXCEPT ![e] = [op |-> op, profile |-> p, keys |-> k]]

Pairs(p, gen, emb) ==
    {<<p.gen, gen>>, <<p.emb, emb>>} \cap (Endpoints \X Keys)

BeginCreate(e) == \E p \in Profiles, gen, emb \in Keys \cup {None} :
    /\ stored = None
    /\ Begins(e, "create", p, [gen |-> gen,
                     emb |-> IF p.emb = None THEN None ELSE emb])
    /\ given' = given \cup Pairs(p, gen, emb)

BeginReplace(e) ==
    \E p \in Profiles, gen, emb \in Keys \cup {None, Keep} :
    /\ stored # None
    /\ Begins(e, "replace", p,
              [gen |-> NextKey(keys.gen, stored.gen, p.gen, gen),
               emb |-> IF p.emb = None THEN None
                       ELSE NextKey(keys.emb, stored.emb, p.emb, emb)])
    /\ given' = given \cup Pairs(p, gen, emb)

BeginDelete(e) ==
    /\ stored # None /\ Begins(e, "delete", None, NoKeys)
    /\ UNCHANGED given

Begin(e) ==
    /\ WriteLockFree /\ LoopFree /\ edits < MaxEdits
    /\ BeginCreate(e) \/ BeginReplace(e) \/ BeginDelete(e)
    /\ edits' = edits + 1
    /\ fresh' = [r \in Readers |-> FALSE]
    /\ UNCHANGED <<stored, memory, reader, profile, found, using, crashes>>

\* The store raises: nothing was changed.
Fail(e) ==
    /\ editor[e] = "store"
    /\ editor' = [editor EXCEPT ![e] = "idle"]
    /\ job' = [job EXCEPT ![e] = NoJob]
    /\ UNCHANGED <<stored, memory, given, edits, readVars, crashes>>

\* One transaction.
Store(e) ==
    /\ editor[e] = "store"
    /\ stored' = job[e].profile
    /\ editor' = [editor EXCEPT ![e] = "credentials"]
    /\ UNCHANGED <<memory, job, given, edits, readVars, crashes>>

\* put_model and discard_model: every call is a new revision.
Credentials(e) ==
    /\ editor[e] = "credentials"
    /\ keys' = job[e].keys /\ revision' = revision + 1
    /\ editor' = [editor EXCEPT ![e] = "invalidate"]
    /\ UNCHANGED <<stored, expected, cached, job, given, edits, readVars,
                   crashes>>

Returns(e) == /\ editor' = [editor EXCEPT ![e] = "idle"]
              /\ job' = [job EXCEPT ![e] = NoJob]

\* Faulty variants: the cache is kept; nothing is expected any more; the
\* identity was computed before the keys were put.
FaultyInvalidateKeeps(e) ==
    /\ editor[e] = "invalidate" /\ RegistryLockFree
    /\ expected' = IF job[e].op = "delete" THEN None
                   ELSE Identity(job[e].profile)
    /\ Returns(e)
    /\ UNCHANGED <<stored, keys, revision, cached, given, edits, readVars,
                   crashes>>
FaultyInvalidateForgets(e) ==
    /\ editor[e] = "invalidate" /\ RegistryLockFree
    /\ expected' = None /\ cached' = None
    /\ Returns(e)
    /\ UNCHANGED <<stored, keys, revision, given, edits, readVars, crashes>>

FaultyInvalidateEarly(e) ==
    /\ editor[e] = "invalidate" /\ RegistryLockFree
    /\ expected' = IF job[e].op = "delete" THEN None
                   ELSE [Identity(job[e].profile) EXCEPT !.revision = @ - 1]
    /\ cached' = None /\ Returns(e)
    /\ UNCHANGED <<stored, keys, revision, given, edits, readVars, crashes>>

\* ModelRuntimeRegistry.invalidate: delete expects nothing any more.
Invalidate(e) ==
    /\ editor[e] = "invalidate" /\ RegistryLockFree
    /\ expected' = IF job[e].op = "delete" THEN None
                   ELSE Identity(job[e].profile)
    /\ cached' = None
    /\ Returns(e)
    /\ UNCHANGED <<stored, keys, revision, given, edits, readVars, crashes>>

-----------------------------------------------------------------------------
(* Queries: the resolver and the registry under its lock                   *)

Rests(r) == /\ reader' = [reader EXCEPT ![r] = "idle"]
            /\ profile' = [profile EXCEPT ![r] = None]
            /\ found' = [found EXCEPT ![r] = None]
            /\ using' = [using EXCEPT ![r] = None]
            /\ fresh' = [fresh EXCEPT ![r] = FALSE]

Read(r) ==
    /\ reader[r] = "idle" /\ LoopFree /\ stored # None
    /\ profile' = [profile EXCEPT ![r] = stored]
    /\ fresh' = [fresh EXCEPT ![r] = WriteLockFree]
    /\ reader' = [reader EXCEPT ![r] = "enter"]
    /\ UNCHANGED <<stored, memory, editVars, found, using, crashes>>

Enters(r) == reader[r] = "enter" /\ RegistryLockFree

\* get_or_create: another identity is expected.
Stale(r) ==
    /\ Enters(r) /\ expected \notin {None, Identity(profile[r])} /\ Rests(r)
    /\ UNCHANGED <<stored, memory, editVars, crashes>>

Expected(r) == expected \in {None, Identity(profile[r])}
Current(r) == cached # None /\ cached.identity = Identity(profile[r])

Reuse(r) ==
    /\ Enters(r) /\ Expected(r) /\ Current(r)
    /\ using' = [using EXCEPT ![r] = cached]
    /\ reader' = [reader EXCEPT ![r] = "run"]
    /\ UNCHANGED <<stored, memory, editVars, profile, found, fresh, crashes>>

\* The old runtime goes; the keys are read after the revision.
Miss(r) ==
    /\ Enters(r) /\ Expected(r) /\ ~Current(r)
    /\ cached' = None
    /\ found' = [found EXCEPT ![r] = Identity(profile[r])]
    /\ reader' = [reader EXCEPT ![r] = "build"]
    /\ UNCHANGED <<stored, keys, revision, expected, editVars, profile, using,
                   fresh, crashes>>

Build(r) ==
    /\ reader[r] = "build"
    /\ cached' = [profile |-> profile[r], identity |-> found[r],
                  keys |-> keys]
    /\ using' = [using EXCEPT ![r] = cached']
    /\ reader' = [reader EXCEPT ![r] = "run"]
    /\ UNCHANGED <<stored, keys, revision, expected, editVars, profile, found,
                   fresh, crashes>>

\* Faulty variant: the query asks the registry again.
FaultyBuildFails(r) ==
    /\ reader[r] = "build"
    /\ reader' = [reader EXCEPT ![r] = "enter"]
    /\ UNCHANGED <<stored, memory, editVars, profile, found, using, fresh,
                   crashes>>

\* build_runtime raises: nothing is cached.
BuildFails(r) ==
    /\ reader[r] = "build" /\ Rests(r)
    /\ UNCHANGED <<stored, memory, editVars, crashes>>

\* The datasource cannot be resolved, or the query ends.
Finish(r) ==
    /\ reader[r] = "run" /\ Rests(r)
    /\ UNCHANGED <<stored, memory, editVars, crashes>>

-----------------------------------------------------------------------------
\* The process dies and starts again: what was in memory is gone.
Crash ==
    /\ crashes < MaxCrashes /\ crashes' = crashes + 1
    /\ keys' = NoKeys /\ revision' = 0 /\ expected' = None /\ cached' = None
    /\ editor' = [e \in Editors |-> "idle"]
    /\ job' = [e \in Editors |-> NoJob]
    /\ reader' = [r \in Readers |-> "idle"]
    /\ profile' = [r \in Readers |-> None]
    /\ found' = [r \in Readers |-> None]
    /\ using' = [r \in Readers |-> None]
    /\ fresh' = [r \in Readers |-> FALSE]
    /\ UNCHANGED <<stored, given, edits>>

Edit(e) == Fail(e) \/ Store(e) \/ Credentials(e) \/ Invalidate(e)
Query(r) == \/ Stale(r) \/ Reuse(r) \/ Miss(r) \/ Build(r) \/ BuildFails(r)
            \/ Finish(r)

Next == \/ \E e \in Editors : Begin(e) \/ Edit(e)
        \/ \E r \in Readers : Read(r) \/ Query(r)
        \/ Crash

\* Calls return, threads are scheduled and get a lock that is free again and
\* again.
Spec == /\ Init /\ [][Next]_vars
        /\ \A e \in Editors : SF_vars(Edit(e))
        /\ \A r \in Readers : SF_vars(Query(r))

-----------------------------------------------------------------------------
(* Properties                                                              *)

Runtimes == [profile : Profiles, identity : Identities, keys : KeyPairs]

\* Each variable holds what the code puts there.
TypeOK ==
    /\ stored \in Profiles \cup {None} /\ keys \in KeyPairs
    /\ revision \in 0..MaxEdits /\ expected \in Identities \cup {None}
    /\ cached \in Runtimes \cup {None}
    /\ editor \in [Editors -> {"idle", "store", "credentials", "invalidate"}]
    /\ \A e \in Editors : job[e].profile \in Profiles \cup {None}
                          /\ job[e].keys \in KeyPairs
    /\ reader \in [Readers -> {"idle", "enter", "build", "run"}]
    /\ profile \in [Readers -> Profiles \cup {None}]
    /\ found \in [Readers -> Identities \cup {None}]
    /\ using \in [Readers -> Runtimes \cup {None}]
    /\ fresh \in [Readers -> BOOLEAN]
    /\ given \subseteq Endpoints \X Keys
    /\ edits \in 0..MaxEdits /\ crashes \in 0..MaxCrashes

\* The cached runtime was built with the profile and the keys there are now,
\* whatever was edited meanwhile, once no edit is under way.  (A profile
\* that is deleted may leave one behind, which nothing can ask for.)
CachedIsCurrent ==
    cached # None /\ WriteLockFree /\ stored # None =>
        cached.profile = stored /\ cached.keys = keys

\* A query that begins when no edit is under way, and sees none until it has
\* its runtime, works with the profile and the keys of that time: it is
\* neither given an older runtime nor one built half-way through an edit.
FreshIsCurrent ==
    \A r \in Readers : fresh[r] /\ reader[r] = "run" =>
        using[r].profile = stored /\ using[r].keys = keys

\* A query that sees no edit is never told that the profile has changed.
NeverStaleAlone ==
    \A r \in Readers : fresh[r] /\ reader[r] = "enter" => Expected(r)

\* On one event loop no runtime uses a key with an endpoint it was not given
\* for, although replace keeps keys that are not repeated.
KeysStayHome ==
    \A r \in Readers : using[r] # None =>
        Pairs(using[r].profile, using[r].keys.gen, using[r].keys.emb)
            \subseteq given

=============================================================================
