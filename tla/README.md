# Verification of text-to-sql-lite

TLA+ models of the program under `src/app` and of its evaluation under
`src/evaluation`, the TLC configurations that check them on small instances,
and TLAPS proofs of what matters most for every instance. Line numbers refer to
the sources.

## The system

A question in natural language comes in over HTTP, a LangGraph workflow links
it to the database schema, asks a language model for SQL, validates the SQL,
runs it read-only, repairs it at most three times, and returns rows, a
clarification or a failure. An evaluation runs the same workflow over a suite
of cases, compares its rows with those of reference queries, and keeps an
audited report.

| part | state it keeps | operations | what it must keep right |
|---|---|---|---|
| workflow (`workflow/graph.py`, `workflow/nodes/*`) | `SQLTaskState`, one per request | ten nodes behind one wrapper, seven routers | every path ends with one consistent verdict within 32 steps; a late or failed node cannot return rows |
| reflection (`reflection/*`) | the attempt history inside the state | start, record validation, record execution, register a repair, decide | no SQL is tried twice, at most three repairs, a repair fits the error |
| execution (`execution/*`) | none | validate again, execute | no unvalidated SQL reaches a connector |
| validation (`validation/*`) | none | checks over the syntax tree | only read-only statements over the allowed tables |
| context selection (`generation/context.py`, `generate_sql.py`) | none | order fields, take what fits, search the largest prompt | evidence is sent; what is reported was sent; an overflow is real |
| model routing (`generation/routing.py`, `provider.py`) | a route table | call a primary and at most one fallback | one deadline, limits of the model asked, observations that tell what happened |
| embedding index registry (`schema_linking/index.py`) | an LRU map of indexes, the builds under way, their waiters | get or build, under one lock | one build for concurrent requests, its failure reaches all of them, bounded memory and waiters |
| schema linking (`linker.py`, `fusion`, `bm25`, `rerank`, `graph_search`) | a prepared pool per request | rank tables and fields, find join paths | only allowed tables, at most `top_k`; a bridge between those with evidence gives way to other bridges only |
| connectors (`connectors/postgresql.py`, `mysql.py`, `starrocks.py`) | connections or a pool; retry counts; a snapshot | metadata, execute, snapshot, open, close | bounded retries within one deadline; a connection has one user; no slot is lost |
| connector registry (`connectors/registry.py`) | connectors by datasource | register, get, close all | all of them are closed although some fail |
| profile store (`local/profile_store.py`) | a SQLite file | open, create, migrate, write | a crash or a second process never tears it |
| datasource and model runtimes (`local/*_service.py`, `*_registry.py`, `credential_store.py`) | credentials, expected identities and one cached runtime per profile | create, replace, delete, resolve, close | no stale runtime is served, no connector leaks, a key goes only to the address it was given for |
| backend (`api/bootstrap.py`, `application.py`) | what was built | staged start, serve, close | a failed start closes what it opened, in reverse order |
| launcher (`local/launcher.py`) | two child processes | start, wait, monitor, stop | no child outlives it |
| comparator (`evaluation/comparator.py`) | none | compare two results | a match is a pairing of all rows |
| case runner (`evaluation/runner.py`) | the counters of one case | gold query, workflow, verdict | Gold and prediction see the same data; a pass is earned |
| audit (`evaluation/report.py`, `status.py`, `tools/run_pagila_evaluation.py`) | baseline, report and case file | freeze, evaluate, review, verify | a case is verified on approved evidence only |
| routes, observability, configuration, frontend | none that the rest relies on | map requests and responses, write traces | not modelled, see below |

A request runs in one thread (`asyncio.to_thread`); it shares with others the
embedding index registry, the connector or pool of its datasource, and the
runtime registries. Handlers that edit profiles run on the event loop while
queries run in threads; connectors are used by all query threads. The launcher
and the evaluation are processes of their own.

Hard to test here: the deadline passing between any two nodes or between two
models; the fields a node did not write because it raised, read by the router
after it; a repair that goes back to schema linking with half of the old
linking kept; requests that share a build whose deadline is that of only one of
them; a pool closed under running queries; a profile edited while its runtime
is being built; a process that dies between two statements; a signal inside the
code that handles a signal; equality with a tolerance, which is not transitive;
another session that commits between two queries that are compared.
`PROJECT.json` lists every part, what is modelled of it, and the hazards with
their lines.

## Modules

| module | role |
|---|---|
| `RequestContract` | what one request promises its caller, independent of nodes and routes |
| `Workflow` | the nodes, the wrapper, the routes, the state and its validator; implements `RequestContract` |
| `WorkflowProofs` | the inductive invariant of `Workflow` and its theorems; what a step does to the history, and the refinement |
| `EmbeddingIndex` | concurrent requests at the registry of embedding indexes; its theorems are in `GenerationProofs` |
| `ContextSelection` | which fields a model is told about, and the search for the largest prompt |
| `ModelRouting` | primary and fallback model under one deadline, and the observations |
| `JoinGraph` | pure: shortest join paths, required bridges, the choice under a budget |
| `SchemaLinking` | both calls of `link_schema`, over `JoinGraph` |
| `LinkingProofs` | what sorting, searching and selecting give, and the theorems about `link_schema` |
| `ConnectionPool` | the pool of MySQL and StarRocks under threads |
| `ConnectorRetry` | the attempts of one operation, its limits and snapshots |
| `DatasourceRuntimes`, `ModelRuntimes` | a profile, its credentials and its cached runtime, between edits and queries |
| `RuntimesProofs` | the theorems about both; those about models are called `Model...` where both have one |
| `ProfileStore` | the database file, processes that start on it, write to it and die |
| `ApplicationLifecycle` | start and end of the backend |
| `Launcher` | the two children, their groups, and signals |
| `RowMatching` | the search that pairs rows |
| `ResultValues`, `ResultComparison` | cells and results; `compare_results` as one function |
| `CaseEvaluation` | one case from its snapshot to its verdict |
| `EvaluationAudit` | the four commands over three files |
| `MCWorkflow` | its symmetry sets |
| `MCEmbeddingIndex` | the registry under a prefix, and the properties its runs check |
| `MCGeneration`, `MCConnections`, `MCProfiles`, `MCProcesses`, `MCEvaluation` | several components side by side, with their values |
| `GenerationProofs`, `ConnectionsProofs`, `ProfilesProofs`, `ProcessesProofs`, `EvaluationProofs` | the theorems about these five and what they put together, and those about the registry |

The five `MC` modules that compose put components that share no state into one
run: the variable `part`, chosen by the first state, says which of them
runs, the others' variables have no value or stay empty, and each conjunct of a
property speaks of one part. The values of the components are constants of the
`MC` module, or given where a component is instantiated, and the fairness of the
components that must end is stated there. `MCGeneration`, `MCConnections`,
`MCProfiles`, `MCProcesses` and `MCEvaluation` extend `ContextSelection`,
`ConnectionPool`, `ProfileStore`, `ApplicationLifecycle` and `RowMatching` and
instantiate the others, so that the property TLC checks is the very one the
theorem names. `MCProfiles` takes the components of the runtimes from
`RuntimesProofs`, and `MCGeneration` those of the linking from `LinkingProofs`,
whose lemmas then hold of their parts. `GenerationProofs` extends
`MCEmbeddingIndex` too, where everything of the registry is called
`Registry!...`: two modules about generation, one module of theorems.

Actions and operators called `Faulty...` are not part of the program: each is a
plausible bug in the definition after it, and shows that the property named in
`PROJECT.json` notices it.

### Workflow and the code

`Workflow` has one variable per group of fields of `SQLTaskState` that routes
and validators read: `error_type`, `public_error`, `repair_strategy`, `decision`
(the complexity level), `link` (snapshot, schema and retrieval version, pool,
retrieval failure, probe, candidate and selected fields), `attempts`, `seen`,
`repair_count` (the `AttemptHistory`), `current` (the flat copies of the last
attempt), `calls` (lengths of the observation tuples), `retries`,
`clarification`, `final_status`; `node` is the node LangGraph runs next and
`expired` says that the 120 seconds are over.

An action is one run of one node: its guard is `Runs(n)` (the wrapper calls the
node) with what the node itself tests, its primed variables are the update the
node returns, and its last conjunct `Step(n)` counts the step and evaluates the
router on the *new* state, as LangGraph does. `Interrupted(n)` is a run the
wrapper refuses (step limit or deadline), `NodeRaises(n)` a run that ends in the
wrapper's `except`. `Checks(n)` collects the assertions and `ValueError`s of the
node's code: it guards the successful actions, `NodeRaises` is always possible,
and `OwnChecksHold` says that `Checks(n)` holds whenever the node runs, so that
no model run is hidden by a failed assertion.

`retries` counts twice: what the request adds up and what the connectors
reported; `Retried(n, counted)` says which nodes drop the report.

Abstractions: a SQL text is its fingerprint; a snapshot is its schema version;
candidate fields are a set of ids; error codes of a collaborator are one code
per collaborator; tokens, timings, messages and rows are left out. The second
validation in `execute_sql` sees the same snapshot and SQL and is not repeated.
A collaborator may report any error the code can map to.

### EmbeddingIndex and the code

A request is one call of `_get_or_build` on its own thread, and `pc` is where it
is: before the lock (`call`), building (`build`), counted as a waiter (`joined`),
in `Event.wait` (`wait`), before and after the `finally` (`leave`, `read`). A
`_BuildFlight` carries the name of the request that created it; `flights` is
`_flights`, `indexes` is the `OrderedDict`, least recently used first. An action
is one critical section of the lock (`Hit`, `StartBuild`, `Join`, `Leave`,
`Publish`, and the landing in `BuildFails` and `BuildStops`), one provider call
(`EmbedBatch`), one check of the deadline (`TooLate`, `Wait`), one return of
`Event.wait`, or the lock-free `Read`. The failure of a provider call is raised
before the lock is taken and touches nothing shared, so it is one action with
the landing. `recent` is a history variable: the versions ever used, by last
use, as if nothing were evicted.

Abstractions: all provider errors but a timeout are one; a retrieval version
digests the authorized snapshot (`schema_version` covers all metadata, comments
and aliases included), so the two comparisons of documents never fail and are
left out; an index is its version, its builder and how many batches it holds. A
`BaseException` (`BuildStops`) is modelled although no caller cancels a thread,
because the code and a test handle it.

### ContextSelection and the code

`phase` is where `select_generation_context` and then the search of
`_generate_sql` are; an action takes one field of a class (`TakeDirect`,
`TakeJoin`, `TakePositive`, `TakeOptional`), leaves a class, refuses the limits
or the required fields, or is one probe of the binary search. `order` is
`selected_field_ids`, `sent` the prefix the last messages hold. The size of a
prompt is any function that grows with what it contains, a key or path being
contained when all its columns are; tokens and the usable budget are computed
as in the code, with its floor divisions. Building an observation its validator
refuses raises (`Observes`), as in the code outside the `try`.

### ModelRouting and the code

An action is the entry into the node, one call and how it ends, the decision
for the fallback, or the observation that is left; `Tick` may let time pass
between any two. `CodeOf` maps what may come of an HTTP call to the code
`provider.py` raises. `Leaves` builds the observation, applies
`ModelRoutingObservation.validate_routing`, and drops the update of the node
when it is refused, which is what the wrapper does.

### JoinGraph, SchemaLinking and the code

`JoinGraph` has the pure part: `Search` is the breadth-first search of
`_shortest_path` and `_distances`, `RequiredBridges` that of `rerank.py`, and
the choice of one candidate under the budget that of `_select_table_ids`.
`SchemaLinking` runs `link_schema` twice, as a request does: the first call
builds the lexical and the embedding channel, fuses, reranks and prepares a
pool; complexity is decided from its result; the second call validates the pool
by computing it again and selects with a smaller `top_k`. Scores are any small
numbers, the reranking features are matched or not; the reciprocal ranks are
brought to a common denominator, so that equal fractions are equal.

Every `sorted(..., key=...)` is `ByKey`: the i-th entry is the one that i - 1
others come before, by the tuples of the keys (`KeyBefore`), which says what a
sort gives without saying how. A deque is followed round by round
(`Rounds`), as many rounds as there are tables; `SearchFinds` proves that this
is enough.

`BridgesKept` is about what the second call selects. `_select_table_ids` looks
at required bridges first, and takes whatever joins a candidate to the
selection along with it; under a small `top_k` it may still leave a needed table
out. The property says for what: for other tables of that kind, and for what
joins one of them to the selection (`ForOthers`).

### ConnectionPool and the code

Threads are at places named after the lines of `connection()`: `take`-like
steps are one operation of the queue, `grow` and `discard` one critical section
of the lock, `begin` and `run` one exchange with the server. `using` is the
pool a thread read from `self._pool` last: the `finally` blocks read it again,
so it may be another one, or none. The owner opens, fills, closes and drains
step by step while threads run, and the server drops connections (`Lose`):
`lost` is not noticed yet, `dead` is a socket pymysql has closed. `Discards`
tells MySQL, which discards a connection it cannot roll back, from StarRocks,
which puts it back.

### ConnectorRetry and the code

One context runs operations one after the other, each an entry, attempts with a
wait for a connection and statements, and a retry or the end. `Kind` selects
the arithmetic of the two connectors: PostgreSQL gives pool and statement what
is left of `timeout_seconds`, MySQL waits its own pool timeout and sets what was
left before it. `TypeOf` and `Retryable` are `normalize_database_error`. Time
passes while the pool or the server is waited for; the connector's own steps,
including the short backoff, take none. A snapshot pins one connection, and may
be harmed by what fails in it.

### DatasourceRuntimes, ModelRuntimes and the code

One profile. An edit holds the service's mutation lock from its first step to
its last: validate with a connector of its own, store, credentials, expected
identity and invalidation. The lock makes one editor enough. A query reads the
profile, enters the registry, and reuses or builds a runtime under the
registry's lock; the lock is held while the connector opens, and an edit's
invalidation waits for it. `Serial` puts the handlers on one event loop, as the
application does; without it they are threads, as the registries' locks allow.
A connector is an object with its identity, password and whether it is open; a
closed object may be created again, unless somebody still has it. `Crash` keeps
the store and loses what is in memory.

A model profile differs where the code does: two keys, which a replace may
keep; an identity with the revision of the keys; a runtime that holds nothing
open. `given` remembers for which endpoint each key was entered.

### ProfileStore and the code

An action is one SQL statement of `_initialize`, of the migration or of a write.
What SQLite guarantees is modelled by its contract (`BEGIN IMMEDIATE` excludes
other writers or times out, readers see committed data, a transaction that is
not committed leaves no trace), since the database is not part of the
repository. Any process may die between two statements, hold the lock, or find
the file of another version or program.

### ApplicationLifecycle and the code

`pc` walks through `ApplicationBootstrap.build` stage by stage and through the
loop over the datasources step by step; each may raise one of the classes its
`except` clauses tell apart, or be interrupted. Closing is one action for each
connector, which works or raises. An interrupt may also come between
`ConnectorFactory.create` and the ownership of what it made (`Create`), in the
lifespan outside its `try` (`InterruptLifespan`), and in every step of the
closing (`InterruptClosing`), before or after its next call of `close`: the
`finally` clauses of `_close_application_resources` go on with the next step,
the `except` clauses of `build` end. `closings`, `cause` and `cut` remember what
was closed, what failed first and which steps were interrupted; `Lost` says what
a step that was kept from its end may have left.

### Launcher and the code

`run` with its polls, probes and the loops of `_stop_processes`, the two children
with the processes of their groups, and the signals. A signal between spawn and
`append`, or inside the `finally` block, and a leader that ends without its
worker each lose a child. The variable `calm`, chosen by the first state, says
that none of the three happens: the property about the children
(`StoppedAsOne`) is about calm behaviours, those about what is reported are
about all.

### RowMatching, ResultComparison and the code

`RowMatching` is `_unordered_rows_equal` with its three loops, an action a
round, over any relation of equality between rows. `ResultComparison` is the
rest of `compare_results` as one function: the refusals in their order, columns
by casefolded names, types, tolerances, and the three modes, with pairing
defined as what `RowMatching` decides. Cells are small records (a number, a
text in two normal forms, an instant in two zones, NULL, NaN).

### CaseEvaluation and the code

`evaluate_case`: the snapshot, the gold query, the workflow as its harness sees
it (provider calls through the fixture provider, reads and executions through
the counting connector), the trace, the verdict and the contract of the
evidence. The database is a version another session may raise between any two
steps.

### EvaluationAudit and the code

Four commands on three files; an action is one load, check or replacement, and
a process may die between them. `EditCode` changes the installed code while no
command runs. Digests are the version or the run they stand for.

## Runs

| run | question | instance | distinct states |
|---|---|---|---|
| `request` | do the state validator, the nodes' own checks, the routes after a cut and the verdict agree on every path? | the code's limits (3 repairs, 32 steps), 5 fingerprints, 2 schema versions, 2 fields, with an embedding runtime; symmetric values | 156 000 |
| `contract` | is every behaviour one `RequestContract` allows, and does every request end? | 2 repairs, 25 steps, 3 fingerprints, no symmetry (liveness) | 85 000 |
| `index` | are builds shared, does everyone get the outcome of the build it shares, is the LRU order exact, do waits end? | 4 requests for 2 or 3 of 3 versions, room for 2, one batch; no symmetry set (liveness), one first state for all that rename it | 162 000 |
| `generation` | is what is selected, asked and linked what is reported? | 5 columns of 3 tables with 2 join paths, budgets from invalid to ample; 2 routes with a shared fallback and a deadline of 3 ticks; 3 tables with all key sets and 5 with five shapes | 421 000 |
| `connections` | has a connection one user, is no slot lost, are retries and times true, do operations return? | 3 threads on a MySQL pool of 2 with one retry, 2 on a StarRocks pool of 1, operations with limits none, 2, 4 and two retries | 252 000 |
| `profiles` | is nothing stale served, is nothing leaked, is the file always one a start can read, do edits, queries and writes end? | 3 edits with 2 queries and a restart on an event loop, 2 edits with threads; 2 processes, 2 IDs, 2 deaths | 245 000 |
| `processes` | is everything closed once and in order, what does an interrupt leave, is what the launcher tells true, do both end? | up to 3 datasources and 2 profiles, interrupts everywhere; 2 signals at any moment, 2 rounds of start | 280 000 |
| `evaluation` | does a verdict follow from the rows, is a pass earned, is no approval replayed? | all relations of 4 rows with 4; families of small results; all kinds of cases, 2 repairs, 1 foreign commit; audits of 2 cases with 3 evaluations, and two commands at a time | 1 017 000 |
| `retries`, `index_count`, `context_search`, `pool_close` | do four sentences of the repository hold? They do not: see the findings | those of the run with the same module; `retries` 1 repair, at most one retry a call | |

Bounds of `Workflow`: four attempts are all the code can make, so five
fingerprints let every attempt be new and leave one unused; two schema versions
let a relink see a changed schema, two fields let a selection be a proper
subset. `MaxRetries` bounds what one connector call reports; counts are only
added, so 1 shows everything.

Bounds of `EmbeddingIndex`: two of four requests share a build or use its index
again, and the others fill the room for two and clear it. That is the smallest
instance in which the order of use and the order of publication differ, and
evict different versions (`FaultyHit`, `FaultyEvict`). Or three of the four can
share a flight, with two deadlines among them, while the fourth publishes
another version. A deadline that never passes stands for none. `SharingInit`
names these first states; requests and versions are interchangeable, so one of
them stands for all that rename it, for the liveness properties too. Any other
size is the business of the proof (`EvictsOldest`).

The other bounds. A path over three tables is the shortest in which a column is
a key on both sides; with five tables and room for two a bridge competes with
bridges and with tables outside, which four do not show (see "Also seen"). Three threads on two connections: one waits while two use
theirs, and one more connection than the pool's limit exists, so that exceeding
it is possible. One retry lets a connection be lost twice; `ConnectorRetry` has
two, so that a limit can end between them. Two edits let a query see the value
before, between and after; the third in `DatasourceLoop` creates again what was
deleted. Two deaths let a migration be interrupted twice. The first datasource
may be doubled by the configuration, and three give an order something to
reverse. Two signals: one that stops and one while stopping. Four rows are the
fewest for an alternating path that passes two taken rows and misses a third.
One foreign commit distinguishes before from after; two evaluations give an old
and a new report, the third a report between them.

Symmetry is used only for values that no liveness property depends on:
`connections` exchanges the threads and connections of the MySQL part, whose
properties are invariants, and gives the parts with liveness constants of their
own (`u1`, `d1`, ...); `profiles` does the same.

### Fairness

Each assumption is about something the code or the platform guarantees.

- `Workflow`: `WF_vars(RunNode)` only. One thread runs the nodes and every call
  a node makes has a timeout, so a node that started ends. The deadline
  (`Expire`) is not fair: a request may end in time.
- `EmbeddingIndex`: a request's steps at the registry are weakly fair: threads
  are scheduled. Builds are not: `Ended` says that late waiters give up even
  when a build hangs, and that every request ends *if* builds do. `Expire` is
  not fair, so a request without a deadline waits for the flight alone.
- `connections`: each thread of the StarRocks part is weakly fair, and so is the
  end of an `open` or `close` that began: `queue.get` and the server's answer
  have timeouts. One operation of PostgreSQL is (`Continues`).
- `profiles`: edits and queries are strongly fair, because a step may be
  disabled now and then by a lock that another caller takes and releases; locks
  are held for calls that return. Processes on the store are weakly fair:
  statements return, a busy lock times out.
- `processes`: the start, the closing and the steps of the launcher are weakly
  fair: one thread each, and every wait has a timeout. Children and signals are
  not.
- `evaluation`: the comparison and the harness are one thread whose calls have
  deadlines.

`CHECK_DEADLOCK FALSE` where a component ends, or a bound ends it.

### What the runs show

No node leaves a state its validator refuses (which would lose the request,
because the validator runs outside the wrapper); no assertion depends on a path
that skips what establishes it; 32 steps are exactly enough for three repairs
that all link the schema again; a cut always leads to `finalize`; a late answer
is withheld from the history too. No interleaving builds a version twice at a
time, strands a waiter, publishes a partial index or exceeds the capacity.
A model never gets a prompt selected for other limits nor more time than is
left. What the first linking prepares, the second accepts. On the event loop a
cached runtime is the current one whenever no edit is under way, every open
connector is cached or being built, and a key stays with its endpoint. No death
of a process leaves a file the next start cannot read.

What the code accepts, and the models show: waiters share a timeout of the
builder even when their own deadline is far; an index may be evicted before the
waiters have read it, which they get all the same; a call inside a snapshot
that was harmed fails to the end of the snapshot; with a *relative* tolerance
on a key column the keyed comparison has a direction, so `MatchesItself` and
`Symmetric` leave it out.

### Findings

`retries`: `_schema_linking` takes the retry count of the metadata read from the
connector (line 50), and the update for a retrieval failure (lines 83-108) does
not add it, against the stage-8 design (lines 87-88).

`index_count`: a request whose deadline has passed when it joins a build raises
at `index.py:645`, after it was counted (642) and before the `try` whose
`finally` takes it off again (649-656). `waiting_build_count` reports it until
the build ends; the test that expects zero after a late waiter
(`tests/unit/test_schema_embedding_index.py:656`) looks only after that.

`context_search`: the search of `generate_sql.py` keeps the messages and the
estimate of its *last* probe, not of the size it settles on. When a repair
context makes the selection shrink and the last probe does not fit, the
observation built at line 264 is refused by its validator, and the request
fails with an internal error although the required fields fit ("find largest
subset that fits", lines 139-140).

`pool_close`: a query that holds a connection while `close()` runs returns it
in its `finally` clause, through `self._pool` (`mysql.py:364-366`), which is
`None` by then: the `AttributeError` replaces the rows, and the connection is
neither pooled nor closed, against line 136 ("closes the pool and releases all connections").

### Also seen

Found while modelling, reproduced by TLC on the modules, and not kept as runs:

- Opening a MySQL connector again while an operation of its earlier life is
  under way lets the new pool exceed `max_pool_size`: `open` fills without the
  lock and without `_created` (449-452). `Bounded` is checked, and proved, for the
  first opening.
- StarRocks puts a connection back whose transaction could not be ended
  (`starrocks.py:144-151`); MySQL discards it. `IdleUsable` is checked for MySQL.
- An exception that is not the driver's is normalized to a *retryable*
  connection error (`errors.py:233`), so a value that cannot be converted runs
  the statement again.
- MySQL's wait for a connection does not count against `timeout_seconds`
  (`mysql.py:327`); `OverrunBounded` says by how much a call may be late.
- When the deadline passes between a primary that failed otherwise than by a
  timeout and its fallback, the observation is one its validator refuses
  (`routing.py:579`, `workflow/models.py:458-462`) and the call that was made
  leaves none. `LostOnlyLate` says that this is the only case.
- With threads instead of the event loop, a datasource that is deleted and
  created again can be served by a runtime of the deleted profile:
  `DatasourceProfileService.create` announces no identity.
- Two processes that open a new database together: the slower may find the
  tables of the faster, and refuse the file (`profile_store.py:356-369`).
- A second signal during the stop, a signal between spawn and `append`, and a
  leader that ends before its worker each leave a process behind
  (`launcher.py:211, 196, 309`).
- An interrupt (or another exception that is no `Exception`) of the closing
  leaves connections open. `RuntimeRegistry.close_all` empties its map before it
  closes (`runtime_registry.py:103-109`), so the runtimes it did not reach are
  lost; while a failed start is cleaned up, the rest of the cleanup is skipped,
  the credentials included, and the interrupt takes the place of the failure
  (`bootstrap.py:537-561`); in the lifespan outside its `try`, or before the call
  of `close` in its `finally` clause, nothing is closed
  (`application.py:39-46`). A failure of `ConnectorRegistry.close_all` takes the
  place of an interrupt that came before it. `AllClosed`, `FailureTold` and
  `CredentialsGone` say exactly what is kept.
- The stage-1 design says that reranking must not remove the only required
  bridge between final candidates
  (`docs/superpowers/specs/2026-07-29-enhancement-stage-1-retrieval-routing-design.md:413`).
  Reranking puts bridges first, but in a chain of five tables that all have
  evidence, with a `top_k` of two, the selection can take the second and the
  fourth without the third (`graph_search.py:165`). `BridgesKept` says what
  is true.
- A case that expects `FAIL_INFRA` and executed is judged a security failure
  (`runner.py:1099`), though the contract of cases and evidence accept it; the
  keyed mode has no keys to compare by (`runner.py:1235`).
- A case that was verified can be rejected afterwards, which stops every later
  `verify-case` (`report.py:1077`).

## Proofs

TLAPS proves the following for all values of the constants that satisfy the
named assumptions; the same properties are checked by the runs on their
instances. What the theorems state for other modules' runs (`StateAccepted`,
`FlightsSound`, ...) are conjunctions whose parts have theorems of their own.
Where a run composes components, the theorem is either about the specification
of the component the `MC` module extends (`OneHolder`, `SelectionRight`,
`StoreTrue`, `AnswerRight`), or about the composition (`MCSpec`), which then
leaves every constant of the `MC` module open. Values that are given where a
component is instantiated are those of the run: two StarRocks threads, the
tables of the two settings of `SchemaLinking`, the edits and queries of the six
settings of `MCProfiles`; the theorems of the component itself (`TypeCorrect`,
`SlotsCounted`, `LinkingPromised`, those of `RuntimesProofs`) are not bound to
them. Every safety property of the passing runs is stated by a theorem; what
the prover does not reach is liveness: `Terminates`, `Ended`, `Returns` and
the three `Ends`.

### Workflow

Assumption (`WorkflowAssumption`): the limits are naturals with
`7 * MaxRepairs + 11 <= MaxSteps`, and `None` is none of the values. The code's
3 and 32 satisfy it with equality.

`IInv` in `WorkflowProofs` adds to the checked invariants what all paths to a
node have in common: `StepBudget` (how many steps they took, per attempt),
`Established` (what the linking nodes left), `BeforeAnswer` and `AfterAnswer`
(how error, strategy and current attempt relate before and after the model
answers), `Verdict`, `Late`, `CallBudget`. None of the safety properties is
inductive alone: `StepLimitUnreached` needs the budget per attempt, `CutStops`
needs to know that the fields the routes read are not those of a success, and
the validator's terminal half needs what `finalize` finds. Every ending that no
repair answers has the same effect (`Stops`), so that half of the actions share
one lemma; `validate_sql` and `execute_sql` share another (`Judges`).

Proved: `TypeOK`, `StateAccepted`, `OwnChecksHold`, `WithinLimits`,
`RepairContextMatches`, `EndsAsTold` with their parts, `HistoryOnlyGrows`, and
the safety half of the refinement (`ContractKept`). Only model-checked:
`Terminates` and the fairness of the contract (liveness is out of the prover's
reach), `RetriesAllCounted` (violated).

### EmbeddingIndex (`Registry` in `GenerationProofs`)

Assumption (`IndexAssumption`, which `MCEmbeddingIndex` makes): finitely many
requests, a positive capacity, and `None` is no request, index or error.
`RegistryInv` ties a request to the flight it
uses: `FlightsBuild` (a registered flight is that of a builder of that version,
and conversely), `JoinersFollow` (a waiter holds a flight of its version that
has landed or is being built), `LandedTells` (a landed flight tells what its
builder returned or raised) and `AnswersLast`. `SameAnswer` and
`OnlyWholeIndexes` follow step by step because answers of finished requests
never change (`DoneKept`). `LeastRecentlyUsed` is inductive by itself: a hit
moves corresponding entries of `indexes` and `recent`, a publication either
finds room, and then nothing was ever evicted, or drops the first entry.

Proved: `RegistryTypeOK`, `FlightsSound`, `AnswersTrue` with their parts,
`LeastRecentlyUsed`, and `LandedForGood` (the fields waiters read without the
lock never change once the event is set), which has no run of its own. Only
model-checked: `Ended` (liveness), `NobodyCounted` (violated).

### ContextSelection and ModelRouting (`GenerationProofs`)

Assumption (`ContextAssumption`): finitely many fields, different ranks, and a
size of the prompt that is a natural number and never smaller when more is
listed. That is the one fact about the estimate both loops rest on: it makes
the greedy choice end with no room left (`Choosing` says what the choice knows
in each class of fields) and the binary search right. `Searching` is its
invariant: the longest prefix that fits lies between `low - 1` and `high`, and
the last probe was at one of the two ends, which is why the messages that are
kept are those of that prefix when there is no repair context.

Assumption (`RoutingAssumption`): positive timeouts and deadline, and a marker
`None` that is no code, target or stage. `RInv` knows at each step of a visit
what was called so far (`AtPrimary`, `AtFallback`), and that no call follows one
the deadline forbade; with it each observation tells the calls of its visit,
and the visits whose observation is lost are those whose deadline passed between
the two calls.

Proved: `SelectionRight` (all its parts), `CallsTold`; of the composition, from
the invariants of its parts (`PartsInvariant`), `MCTypeOK`, `LinkingSound` and
`BridgesKept`.

### JoinGraph and SchemaLinking (`LinkingProofs`)

Assumptions (`GraphAssumption`, `LinkingAssumption`): at least one table, keys
between two tables, scopes of tables, positive limits with `SimpleTopK <=
MediumTopK <= ProbeTopK`, and `None` is no pool. The theorem (`LinkingPromised`)
is for any number of tables, any keys, scopes, scores and limits.

The library's induction theorems take an operator and cannot be cited here.
Where a function is defined by recursion (`Rounds`, `Scale`), the numbers that
would refute a claim are a set, which if not empty has a least one
(`LeastNumber`, from the library's facts about well-founded relations); its
predecessor leads to the contradiction. The facts build on each other:

- Sorting. `SortedLists`: for keys that differ, what `ByKey` gives lists the set
  once and in order, because the number of those that come before is different
  for each; `SortedOnce`: it is the only such list. From it follows what a
  filter (`Kept`) or a prefix (`First`) of a ranking is.
- Searching. `SearchState` is the invariant of a round: every path is a way
  inside the allowed tables, no table of the queue is nearer than an earlier one
  or further than one step more, and what left the queue has no neighbour
  unseen. Each round takes one table off the queue or has none (`Passed`), so
  after N rounds it is empty, and `SearchFinds` follows: what is found is what
  can be reached, and no way is shorter. `ConnectedFound` links this to the
  reference definition `Connected`, which speaks of closed sets instead.
- Ranking. `FusedFacts`: a table that both channels prefer has a larger sum,
  hence an earlier place. `BridgesNeeded`: `RequiredBridge` finds exactly the
  tables that closed sets say are needed. `OrderFacts`: they come first in the
  reranked order.
- Selecting. `AdditionsFacts`, `ChosenAfterFacts`: the additions are the rest of
  a shortest way to the selection, and a round adds one table at least, or none
  when the budget is used.

`LinkInv` follows the phases. `Fusing` and `Reranked` say what the pool is made
of, so that both validations accept it (`PoolBuilt`); `Selecting` that every
table is chosen or still to be looked at, which is why the budget is used, and,
in the second call, that the needed tables come first in what is left
(`BridgesFirst`) as long as the selection is `ForOthers`; `Good` what a result is.

Proved: `TypeOK`, all parts of `LinkingSound` (`Sound`), and `BridgesKept`. That
two *selected* tables with evidence never miss a table between them would be
simpler to say, but is not so: the proof fails for a budget smaller than the
way, and TLC shows it with five tables.

### ConnectionPool and ConnectorRetry (`ConnectionsProofs`)

Assumption (`PoolAssumption`): a positive minimum not above the maximum,
finitely many threads and connections, at least one opening; `Discards` is
either value, so the theorem holds for MySQL and StarRocks. `OneHolder` is not
inductive: a thread that returns a connection must know that it still has it
and that it is in no pool, not even in that of an earlier opening, and a new
connection must not be one somebody has. `IInv` therefore adds `Control` (who
holds something, by place; which pools are known), `Apart` (threads and the
queues of *all* pools share nothing) and `InUse` (what somebody has is not
closed, so that a created object is a fresh one). The actions fall into a few
effects on the connections (`Keeps`, taking, putting, dropping), each with one
lemma.

`PoolInv` adds what the slots need. `Counted`: as long as the connector has been
opened once, `_created` is the number of connections that are not closed, no
thread uses another pool, and none runs before `open` is over; every action that
creates or closes a connection changes both sides together. `Buried`: a
connection whose socket pymysql has closed is nobody's, if what cannot be rolled
back is discarded. `Delivered`: what was committed has been answered, or is on
its way, while the connector stays open. With a second opening `Counted` is
false, and so is the bound (see "Also seen").

Assumption (`RetryAssumption`): positive timeouts and limits, any number of
retries, statements and operations. `AsksCounted` says what attempts and told
retries are at each place, `CallServed` which connection serves an operation,
`CallBounded` how late each place of an operation may be: its limit, the wait in
the pool of MySQL, and one share of the limit for each statement it has had
after the first. The arithmetic is not linear (statements times limit), so the
products are named and their few facts proved apart.

The part of the StarRocks pool is an instance with values of its own, which the
theorems about the component do not reach by name; its types are proved apart,
from `StarInv`: `StarHands` is `Control` for a pool that puts a connection back
after a failure, so that a thread holds one in `putback` and `put` too.

Proved: `TypeOK` of the pool, `OneHolder`, `PoolKept`, the same for StarRocks as
far as it is true there (`SlotsCounted`), `CallsKept`, and `MCTypeOK` of all
parts (`ConnectionsTyped`). Only model-checked: `Returns` (liveness; the
`Bounded` of StarRocks in it is what `SlotsCounted` proves of the
component).

### DatasourceRuntimes and ModelRuntimes (`RuntimesProofs`)

Assumptions (`RuntimeAssumption`, `ModelAssumption`): the bounds are natural
numbers, `Serial` is either value, and the markers (`None`, `Keep`, `Static`) are
none of the values they stand beside; there may be any number of editors,
queries, configurations, passwords, keys and connectors. In both, an edit tells
the cache only in its last step, so what is cached can be wrong while an edit is
under way, and `CachedIsCurrent` says nothing a later step could rely on. The
invariants speak of the times when everything is `Settled`, that is, no edit has
changed what a runtime depends on without having told the cache: then either
today's identity is expected, or nothing is expected and no query that still has
to ask has read anything older; what is being built or cached is of today; and
the last step of an edit waits for whoever builds. For datasources `Owners` says
that a builder's connector is nobody else's, and `NoPassword` that without a
profile there is no password and without a password no runtime. For models
`Homes` follows a key from where it was given through `NextKey` to the runtime.

Proved: `TypeOK` of both; `ConnectorsOwned` for any threads; `CachedIsCurrent`
and `NoOldData` on one event loop or when no thread creates what another deleted
(`Apart`: the case left out really fails, see "Also seen");
`FailedChangesNothing` on one event loop; `CachedIsCurrent`, `FreshIsCurrent` and
`NeverStaleAlone` of models for any threads; `KeysStayHome` on one event loop.
Only model-checked: that edits and queries end.

### ProfileStore, and the profiles together (`ProfilesProofs`)

Assumption (`StoreAssumption`): a natural number of deaths, and a value for "no
process" that is neither a process nor an ID. There may be any number of
processes and IDs. `StoreTrue` is not inductive, because `_initialize` reads the
version, the tables and the embeddings in statements of their own, outside any
transaction, and acts on them later. `IInv` says what such a reading is still
worth (`Found`): the file is as it was read, or another process has made it a
file of today in the meantime; and what the open transaction has drafted by then
(`Drafted`, `Written`) is what the statements so far make of the committed file.
From this follow that the creation and the migration of a file that is already
of today change nothing in it or fail, and that a commit never overwrites
another's: the places inside a transaction are those of the process that holds
the lock (`Open`). The theorem about the file (`StoreKept`) has the two action
properties too: a file of another program is never written to, because nobody
gets past `Objects` or `Validate` with it, and an ID is created only where there
is none.

In `MCProfiles` each of the six settings of the runtimes, and the store, keeps
the inductive invariant of its component (`PartsInv`), because a step is one of
the part that runs.

Proved: `TypeOK`, `StoreTrue` (all five parts); of the composition `MCTypeOK`,
`ConnectorsOwned`, `NothingStale` and `KeysStayHome`. Only model-checked: that
starts and writes, edits and queries end (`Ends`).

### ApplicationLifecycle and Launcher (`ProcessesProofs`)

Assumptions (`LifecycleAssumption`, `LauncherAssumption`): at least one
configured datasource is possible, profiles are no indexes of datasources, a
positive startup timeout, any number of signals, and `None` is no outcome.

The launcher: `RunInv`. That no child is left depends on which children `run`
knows of at each line (`Placed`), the one that was spawned and is not yet in the
list included (`Ours`), and, once it stops them, on whoever lives being either
still to be asked or in the list `running` (`Stopped`). `Told` has the order of
the stop: those the loop has passed were asked, or had ended by themselves;
that is why a kill comes after all were asked. `Probed` remembers that the last
probe of the backend was answered when that of the frontend is.

The backend: `LifeInv`. The order of the closing is not inductive, because the
connectors still to be closed are found by looking at what was closed. `Sized`
says that the lists of the build (`owned_connectors`, the registry, those set up)
are the datasources from the first on, and how long each is by the line that
comes next; `Turned` that the connectors of the configuration closed so far are
those from some `k + 1` to the last, so that the next one is `k`; `Kept` which
are open, and that closed is what was called to close; `StepsDone` that a step of
the closing is over only when all that was its is closed, or an interrupt kept it
from its end; `Caused` that `stage` is the stage of the line that failed, which
is what is told, and which steps can have been interrupted at each line.

Proved: `MCTypeOK`, `ClosedInOrder`, `RunTold` (invariants and action
properties). Only model-checked: `Ends`.

### RowMatching (`EvaluationProofs`)

Assumption (`NAssumption`): at least one row. The theorem (`PairingDecided`) says
that the verdict is "equal" exactly when a pairing of all rows exists, for any
number of rows and any relation. `IInv` has `PlacedBut` (the rows before `start`
sit injectively on gold rows they equal, but for the gold row being vacated),
`QueueOK` (each queued row was reached over a gold row an earlier one equals)
and `MoveOK` (the walk back along parents keeps the rest in place). That "equal"
is right is the placement itself at the end; that "different" is right is Hall's
argument: when the search is exhausted, the rows of the queue equal only the
gold rows seen, and these are all taken by rows of the queue other than
`start`, so any pairing would put more rows on them than there are. The counting
uses the library's facts about finite cardinalities.

Proved: `TypeOK`, `AnswerRight` (both parts). Only model-checked: that the
search ends (`Ends`).

### ResultComparison, CaseEvaluation and EvaluationAudit (`EvaluationProofs`)

`ComparisonAssumption`: the families hold comparisons, that is, two results with
a width, cells of the types their columns have (numbers where a column is
numeric), tolerances that are not negative, and keys that are column names. There is
no state to speak of; the theorem is about the function `CompareResults`. That a
match is a pairing in the keyed mode is a lemma (`KeyedRowsEqual` holds exactly
when each row has one mate of its own, `KeyPairing`); that the order of the
predicted columns is irrelevant follows row by row from the positions a column
name finds (`Position`); symmetry turns each pairing around (`Turned`), for
which a pairing of equally many rows has to be onto (the pigeonhole principle,
from the library's facts about cardinality).

`CaseAssumption`: natural bounds, a marker that is no version and no code, and no
security case that expects to execute. `CaseInv`: `Early` (what is known before
the workflow's own work), `Looked` (with snapshots everything was seen in the one
that is pinned), `Budgeted` (attempts, and two calls of the model for each),
`Answered` (which answers are the fixture's), `Tried` (executions are counted,
all attempts but the last were repaired) and `Judged`.

`AuditAssumption`: natural bounds, finitely many cases. Several commands at a
time share three files and read and replace them in steps of their own, so the
invariant is about the files (`Filed`) and about what a command has in hand
(`Holds`): both have only decisions somebody gave for that case in that run.
`Alone` adds what one command at a time can rely on, namely that what it read is
still so.

Proved: `ComparisonRight`, `CaseRight`, `AuditRight` (invariants and action
properties), `MCTypeOK`. Only model-checked: `Ends`.

## Plan

1. Compositions: `Workflow` with `ContextSelection` and `ModelRouting` inside
   its `generate_sql`; `DatasourceRuntimes` with the pool its connector owns.
2. The mapping of a terminal state to a response (`api/response.py`), against
   `RequestContract`.

## Not modelled

- SQL syntax checks (`validation/sql_validator.py`, `policy.py`): predicates over
  a parsed tree; what they may report is modelled.
- BM25, vector arithmetic, document texts, tokenization and digests: a ranking is
  any ranking, a digest is what it stands for.
- Catalog queries, metadata mapping, view semantics (`connectors/catalog.py`,
  `view_semantics.py`, ...): text and data without control.
- Routes, response mapping, request parsing: pure functions around the calls that
  are modelled.
- Observability: a trace is written after the terminal state and cannot change it.
- Configuration, the frontend, fetch and freeze tools, the stage-1 calibration,
  the code freeze and the loader of the suite: parsing and scripts without state
  that the rest relies on.
- Liveness is modelled and model-checked, not proved.

`PROJECT.json` gives each part with its status.
