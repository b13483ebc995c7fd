------------------------------ MODULE Workflow ------------------------------
(***************************************************************************)
(* The LangGraph workflow that answers one question                        *)
(* (src/app/workflow/graph.py, nodes/*.py, models.py, with the attempt     *)
(* history of src/app/reflection).  The state is SQLTaskState, one         *)
(* variable per group of fields the routes and the validators read; an     *)
(* action is one run of a node behind the wrapper of nodes/wrapper.py,     *)
(* which makes the whole update and then lets the router pick the next     *)
(* node.  Texts, rows, token counts and timings are left out: a SQL text   *)
(* is its fingerprint, a schema snapshot its schema version.               *)
(***************************************************************************)
EXTENDS Naturals, Sequences

CONSTANTS
    Fingerprints,   \* fingerprints of the SQL texts the model may answer with
    Versions,       \* schema versions a metadata read may return
    Fields,         \* object ids of the columns the linker may return
    MaxRepairs,     \* reflection.models.MAX_REPAIR_COUNT
    MaxSteps,       \* workflow.models.MAX_WORKFLOW_STEPS
    MaxRetries,     \* bound: retries one connector call may report
    Dense,          \* does the context carry an embedding retrieval runtime?
    None            \* Python's None

ErrorTypes == {"SYNTAX_ERROR", "SCHEMA_ERROR", "DIALECT_ERROR",
               "BUSINESS_KNOWLEDGE_MISSING", "AMBIGUOUS_SEMANTICS",
               "PERMISSION_DENIED", "CONNECTION_ERROR", "TIMEOUT",
               "RESOURCE_RISK", "DUPLICATE_SQL", "UNKNOWN"}
Repairable == {"SYNTAX_ERROR", "SCHEMA_ERROR", "DIALECT_ERROR"}
Semantic == {"BUSINESS_KNOWLEDGE_MISSING", "AMBIGUOUS_SEMANTICS"}

\* What each collaborator may report (policy.py, connectors/errors.py,
\* nodes/_common.py, generation/provider.py).
ValidationIssues == {"SYNTAX_ERROR", "SCHEMA_ERROR", "DIALECT_ERROR",
                     "PERMISSION_DENIED", "UNKNOWN"}
DatabaseErrors == {"SYNTAX_ERROR", "SCHEMA_ERROR", "PERMISSION_DENIED",
                   "CONNECTION_ERROR", "TIMEOUT", "RESOURCE_RISK", "UNKNOWN"}
EmbeddingErrors == {"TIMEOUT", "CONNECTION_ERROR", "UNKNOWN"}
ModelErrors == {"TIMEOUT", "CONNECTION_ERROR", "RESOURCE_RISK", "UNKNOWN"}

Strategies == {"MINIMAL_SQL_REPAIR", "RELINK_SCHEMA", "REGENERATE_POSTGRES"}
Levels == {"simple", "medium", "complex"}
NodeNames == {"request_preprocess", "permission_resolve", "schema_linking",
              "complexity_route", "generate_sql", "validate_sql",
              "execute_sql", "reflect_sql", "clarification", "finalize"}
Successes == {"SUCCEEDED_FIRST_PASS", "SUCCEEDED_REPAIRED"}
Failures == {"REJECTED_SECURITY", "FAILED_DUPLICATE_LOOP", "FAILED_TIMEOUT",
             "FAILED_CONNECTION", "FAILED_RESOURCE_RISK",
             "FAILED_REPAIR_EXHAUSTED", "FAILED_INTERNAL"}
Statuses == Successes \cup {"CLARIFICATION_REQUIRED"} \cup Failures

\* The longest run of nodes before finalize: nine for the first attempt, and
\* seven for each repair that links the schema again.  MaxSteps leaves room
\* for exactly that (32 = 11 + 7 * 3).
ASSUME WorkflowAssumption ==
    /\ MaxRepairs \in Nat /\ MaxSteps \in Nat /\ MaxRetries \in Nat
    /\ 7 * MaxRepairs + 11 <= MaxSteps
    /\ Dense \in BOOLEAN
    /\ None \notin Fingerprints \cup Versions \cup ErrorTypes \cup Strategies
                    \cup Levels \cup Statuses \cup {"valid"}

VARIABLES
    node,           \* the node the graph runs next, "end" after finalize
    expired,        \* the 120 seconds since workflow_started_at are over
    step_count,
    error_type,
    public_error,
    repair_strategy,
    normalized,     \* normalized_question is not None
    granted,        \* allowed_schemas and allowed_tables are set
    decision,       \* complexity_decision.level
    link,           \* the schema linking fields
    attempts,       \* sql_attempts
    seen,           \* seen_sql_fingerprints
    repair_count,
    current,        \* current_sql, validation_, execution_result, database_error
    calls,          \* lengths of the observation tuples
    retries,        \* infrastructure_retry_count, and what connectors reported
    clarification,
    final_status

verdictVars == <<error_type, public_error>>
scopeVars == <<normalized, granted>>
attemptVars == <<attempts, seen, repair_count, current>>
terminalVars == <<clarification, final_status>>
workVars == <<repair_strategy, scopeVars, decision, link, attemptVars, calls,
              retries, terminalVars>>   \* all but the wrapper's and the verdict
vars == <<node, expired, step_count, verdictVars, repair_strategy, scopeVars,
          decision, link, attemptVars, calls, retries, terminalVars>>

-----------------------------------------------------------------------------
(* Values                                                                  *)

PublicError(type, code) == [type |-> type, code |-> code]
NoPublicError == PublicError(None, None)
InternalError == PublicError("UNKNOWN", "WORKFLOW_INTERNAL_ERROR")
TimeoutError == PublicError("TIMEOUT", "WORKFLOW_TIMEOUT")
StepLimitError == PublicError("UNKNOWN", "WORKFLOW_STEP_LIMIT")
NoSchemaError == PublicError("BUSINESS_KNOWLEDGE_MISSING",
                             "WORKFLOW_SCHEMA_CLARIFICATION")
DuplicateError == PublicError("DUPLICATE_SQL", "WORKFLOW_DUPLICATE_SQL")
ContextError == PublicError("RESOURCE_RISK",
                            "WORKFLOW_CONTEXT_REQUIRED_OVERFLOW")
ExhaustedError(e) == PublicError(e, "WORKFLOW_REPAIR_EXHAUSTED")

SQLAttempt == [sql : Fingerprints,
               validation : ValidationIssues \cup {None, "valid"},
               executed : BOOLEAN,
               database_error : DatabaseErrors \cup {None}]
NewAttempt(fp) == [sql |-> fp, validation |-> None,
                   executed |-> FALSE, database_error |-> None]
NoAttempt == NewAttempt(None)

\* SQLAttempt.current_error_type
AttemptError(a) == IF a.database_error # None THEN a.database_error
                   ELSE IF a.validation \in ValidationIssues THEN a.validation
                   ELSE None

Last(s) == s[Len(s)]

\* Publishes the error of a collaborator; its own code is abstracted to source.
CollaboratorCodes == {"VALIDATION", "DATABASE", "EMBEDDING", "MODEL"}

NoLink == [snapshot |-> None, version |-> None, pool |-> None,
           failure |-> None, probed |-> FALSE, fields |-> {}, selected |-> {}]

-----------------------------------------------------------------------------
(* Routes (graph.py): the node that runs after a node made its update        *)

Reflectable == Repairable \cup Semantic
Failed == public_error # NoPublicError

ValidationRoute ==
    IF current.validation = "valid" THEN "execute_sql"
    ELSE IF error_type \in Reflectable THEN "reflect_sql" ELSE "finalize"

ExecutionRoute ==
    IF current.executed THEN "finalize"
    ELSE IF error_type \in Reflectable THEN "reflect_sql" ELSE "finalize"

\* a plausible defect: the test for a failure is lost
FaultySchemaRoute ==
    IF error_type = "BUSINESS_KNOWLEDGE_MISSING" THEN "clarification"
    ELSE IF decision = None THEN "complexity_route" ELSE "generate_sql"

SchemaRoute ==
    IF Failed
    THEN IF error_type = "BUSINESS_KNOWLEDGE_MISSING"
         THEN "clarification" ELSE "finalize"
    ELSE IF decision = None THEN "complexity_route" ELSE "generate_sql"

ReflectionRoute ==
    IF repair_strategy = "RELINK_SCHEMA" THEN "schema_linking"
    ELSE IF repair_strategy # None THEN "generate_sql"
    ELSE IF error_type \in Semantic THEN "clarification" ELSE "finalize"

Route ==
    [request_preprocess |->
         IF Failed THEN "finalize"
         ELSE IF error_type = "AMBIGUOUS_SEMANTICS" THEN "clarification"
         ELSE "permission_resolve",
     permission_resolve |-> IF Failed THEN "finalize" ELSE "schema_linking",
     schema_linking     |-> SchemaRoute,
     complexity_route   |-> IF Failed THEN "finalize" ELSE "schema_linking",
     generate_sql       |->
         IF Failed THEN "finalize"
         ELSE IF error_type \in Semantic THEN "clarification"
         ELSE "validate_sql",
     validate_sql       |-> ValidationRoute,
     execute_sql        |-> ExecutionRoute,
     reflect_sql        |-> ReflectionRoute,
     clarification      |-> "finalize",
     finalize           |-> "end"]

-----------------------------------------------------------------------------
(* Updates the nodes share                                                 *)

\* _failure_update
Fail(e) == error_type' = e.type /\ public_error' = e

\* a plausible defect: the error a repair was asked to handle survives it
FaultyClear == public_error' = NoPublicError /\ UNCHANGED error_type

\* the update of a node that clears the error it was asked to handle
Clear == error_type' = None /\ public_error' = NoPublicError

\* _history_update: the history and the flat copies of its last attempt
HistoryUpdate(as, fps, n) ==
    /\ attempts' = as
    /\ seen' = fps
    /\ repair_count' = n
    /\ current' = Last(as)

\* a plausible defect: the flat copies are not refreshed
FaultyReplaceCurrent(a) ==
    /\ attempts' = [attempts EXCEPT ![Len(attempts)] = a]
    /\ UNCHANGED <<seen, repair_count, current>>

\* _replace_current_attempt
ReplaceCurrent(a) ==
    HistoryUpdate([attempts EXCEPT ![Len(attempts)] = a], seen, repair_count)

\* The connector reported n retries; counted says whether the node adds them.
Retried(n, counted) ==
    retries' = [counted  |-> retries.counted + IF counted THEN n ELSE 0,
                reported |-> retries.reported + n]

-----------------------------------------------------------------------------
(* The wrapper around every node (nodes/wrapper.py)                        *)

\* What every run of a node does last: count the step, pick the next node.
Step(n) ==
    /\ step_count' = step_count + 1
    /\ node' = Route'[n]
    /\ UNCHANGED expired

StepLimitReached == step_count >= MaxSteps - 2

\* the wrapper calls the node's own code
Runs(n) == node = n /\ ~expired /\ ~StepLimitReached

\* What the node's own code takes for granted: its assertions, the checks of
\* reflection/service.py and reflection/models.py, the guards that end in
\* WORKFLOW_INTERNAL_ERROR.
Checks(n) ==
    /\ n \in {"schema_linking", "complexity_route", "generate_sql"} => normalized
    /\ n = "schema_linking" /\ decision # None =>
           link.snapshot # None /\ (Dense => link.pool # None)
    /\ n = "generate_sql" =>
           /\ decision # None /\ link.snapshot # None
           /\ attempts # <<>> =>
                 /\ error_type # None /\ repair_strategy # None
                 /\ AttemptError(current) \in Repairable
                 /\ Len(attempts) <= MaxRepairs
    /\ n = "validate_sql" =>
           attempts # <<>> /\ link.snapshot # None /\ current.validation = None
    /\ n = "execute_sql" =>
           /\ link.snapshot # None /\ current.validation = "valid"
           /\ ~current.executed /\ current.database_error = None
    /\ n = "reflect_sql" => error_type # None

\* a plausible defect: the wrapper cuts finalize short like any other node
FaultyInterrupted(n) ==
    /\ node = n
    /\ expired \/ StepLimitReached
    /\ Fail(IF StepLimitReached THEN StepLimitError ELSE TimeoutError)
    /\ UNCHANGED workVars
    /\ Step(n)

\* The wrapper does not call the node: the step limit is near or the
\* deadline is over.
Interrupted(n) ==
    /\ n # "finalize"
    /\ node = n
    /\ expired \/ StepLimitReached
    /\ Fail(IF StepLimitReached THEN StepLimitError ELSE TimeoutError)
    /\ UNCHANGED workVars
    /\ Step(n)

\* The node's code raises, from a collaborator or from a check of its own.
NodeRaises(n) ==
    /\ n # "finalize"
    /\ Runs(n)
    /\ Fail(InternalError)
    /\ UNCHANGED workVars
    /\ Step(n)

\* The clock passes the deadline.  workflow_started_at is the time the first
\* node starts, so that node is never late.
Expire ==
    /\ ~expired /\ step_count > 0 /\ node # "end"
    /\ expired' = TRUE
    /\ UNCHANGED <<node, step_count, verdictVars, workVars>>

-----------------------------------------------------------------------------
(* request_preprocess, permission_resolve                                  *)

InvalidRequest ==
    /\ Runs("request_preprocess")
    /\ Fail(PublicError("UNKNOWN", "WORKFLOW_INVALID_REQUEST"))
    /\ UNCHANGED workVars
    /\ Step("request_preprocess")

Preprocess ==
    /\ Runs("request_preprocess")
    /\ normalized' = TRUE
    /\ error_type' \in {error_type, "AMBIGUOUS_SEMANTICS"}
    /\ public_error' = NoPublicError
    /\ UNCHANGED <<repair_strategy, granted, decision, link, attemptVars, calls,
                   retries, terminalVars>>
    /\ Step("request_preprocess")

PermissionDenied ==
    /\ Runs("permission_resolve")
    /\ Fail(PublicError("PERMISSION_DENIED", "WORKFLOW_PERMISSION_DENIED"))
    /\ UNCHANGED workVars
    /\ Step("permission_resolve")

PermissionGranted ==
    /\ Runs("permission_resolve")
    /\ granted' = TRUE
    /\ Clear
    /\ UNCHANGED <<repair_strategy, normalized, decision, link, attemptVars,
                   calls, retries, terminalVars>>
    /\ Step("permission_resolve")

-----------------------------------------------------------------------------
(* schema_linking: a probe of the metadata while there is no complexity    *)
(* decision, then a second run that reuses its snapshot and its pool       *)

Links == Runs("schema_linking") /\ Checks("schema_linking")

\* everything a run of schema_linking leaves alone
UnlinkedVars == <<repair_strategy, scopeVars, decision, attemptVars, calls,
                  terminalVars>>

MetadataFails ==
    /\ Links /\ decision = None
    /\ \E e \in DatabaseErrors : Fail(PublicError(e, "DATABASE"))
    /\ \E n \in 0..MaxRetries : Retried(n, TRUE)
    /\ UNCHANGED <<link, UnlinkedVars>>
    /\ Step("schema_linking")

\* The embedding index cannot be built or read: a SchemaRetrievalFailure when
\* the lexical ranking is empty too; when it is not, an HTTP error and refused
\* input are raised as they are and the others degrade.  The retry count of
\* the metadata read was consumed and is not added.
RetrievalFails ==
    /\ Links /\ decision = None /\ Dense
    /\ \/ /\ \E e \in EmbeddingErrors : Fail(PublicError(e, "EMBEDDING"))
          /\ \E v \in Versions :
                 link' = [link EXCEPT !.snapshot = v, !.failure = v]
       \/ Fail(PublicError("UNKNOWN", "EMBEDDING")) /\ UNCHANGED link
    /\ \E n \in 0..MaxRetries : Retried(n, FALSE)
    /\ UNCHANGED UnlinkedVars
    /\ Step("schema_linking")

NoCandidates ==
    /\ Links /\ decision = None
    /\ Fail(IF repair_strategy = "RELINK_SCHEMA" THEN InternalError
            ELSE NoSchemaError)
    /\ \E n \in 0..MaxRetries : Retried(n, TRUE)
    /\ UNCHANGED <<link, UnlinkedVars>>
    /\ Step("schema_linking")

\* a plausible defect: linking the schema clears the error under repair
FaultyLinked(v, index, probe) ==
    /\ \E fs \in SUBSET Fields \ {{}} :
           link' = [link EXCEPT !.snapshot = v, !.version = index,
                                !.pool = index, !.failure = None,
                                !.probed = probe \/ @, !.fields = fs]
    /\ Clear
    /\ UNCHANGED UnlinkedVars

\* link_schema found tables in snapshot v; index is the retrieval version of
\* the pool it ranked, None without an embedding retrieval runtime.
Linked(v, index, probe) ==
    /\ \E fs \in SUBSET Fields \ {{}} :
           link' = [link EXCEPT !.snapshot = v, !.version = index,
                                !.pool = index, !.failure = None,
                                !.probed = probe \/ @, !.fields = fs]
    /\ public_error' = NoPublicError
    /\ UNCHANGED <<error_type, UnlinkedVars>>

Probe ==
    /\ Links /\ decision = None
    /\ \E v \in Versions : Linked(v, IF Dense THEN v ELSE None, TRUE)
    /\ \E n \in 0..MaxRetries : Retried(n, TRUE)
    /\ Step("schema_linking")

\* The prepared pool ranks the same tables again, so there is always one.
Materialize ==
    /\ Links /\ decision # None
    /\ Linked(link.snapshot, link.pool, FALSE)
    /\ UNCHANGED retries
    /\ Step("schema_linking")

\* decide_complexity: the words of the question and the linked tables decide
\* the level, but a repair is always complex.
PossibleLevels(repaired) == IF repaired THEN {"complex"} ELSE Levels

ComplexityRoute ==
    /\ Runs("complexity_route") /\ Checks("complexity_route")
    /\ decision' \in PossibleLevels(\/ attempts # <<>> /\ repair_strategy # None
                                    \/ repair_count > 0)
    /\ UNCHANGED <<verdictVars, repair_strategy, scopeVars, link, attemptVars,
                   calls, retries, terminalVars>>
    /\ Step("complexity_route")

-----------------------------------------------------------------------------
(* generate_sql                                                            *)

Generates == Runs("generate_sql") /\ Checks("generate_sql")

\* One more context selection and model routing observation, and a generation
\* observation when the model's answer was read.
Observe(answered) ==
    calls' = [routing |-> calls.routing + 1,
              generation |-> calls.generation + IF answered THEN 1 ELSE 0]

\* The fields of the chosen context, some of the candidates.
Select(fs) == link' = [link EXCEPT !.selected = fs]

ContextOverflows ==
    /\ Generates
    /\ Fail(ContextError)
    /\ Select({})
    /\ Observe(FALSE)
    /\ UNCHANGED <<repair_strategy, scopeVars, decision, attemptVars, retries,
                   terminalVars>>
    /\ Step("generate_sql")

\* Every model of the route failed, or its answer could not be normalized.
ModelFails ==
    /\ Generates
    /\ \E e \in ModelErrors : Fail(PublicError(e, "MODEL"))
    /\ \E fs \in SUBSET link.fields : Select(fs)
    /\ Observe(FALSE)
    /\ UNCHANGED <<repair_strategy, scopeVars, decision, attemptVars, retries,
                   terminalVars>>
    /\ Step("generate_sql")

ModelAsks ==
    /\ Generates
    /\ error_type' = "AMBIGUOUS_SEMANTICS"
    /\ public_error' = NoPublicError
    /\ repair_strategy' = None
    /\ \E fs \in SUBSET link.fields : Select(fs)
    /\ Observe(TRUE)
    /\ UNCHANGED <<scopeVars, decision, attemptVars, retries, terminalVars>>
    /\ Step("generate_sql")

\* a plausible defect: a repair starts the history over
FaultyRegisterFresh(fp) ==
    HistoryUpdate(<<NewAttempt(fp)>>, {fp},
                  IF attempts = <<>> THEN 0 ELSE repair_count + 1)

\* start_attempt, or the accepted case of register_repair_sql
Register(fp) ==
    HistoryUpdate(Append(attempts, NewAttempt(fp)), seen \cup {fp},
                  IF attempts = <<>> THEN 0 ELSE repair_count + 1)

\* plausible defects: a duplicate goes on with the attempt it repeats; a
\* duplicate is a repair like any other
FaultyAnswerGoesOn(fp) ==
    IF fp \in seen
    THEN Clear /\ repair_strategy' = None /\ UNCHANGED attemptVars
    ELSE Register(fp) /\ Clear /\ repair_strategy' = None
FaultyAnswerAgain(fp) == Register(fp) /\ Clear /\ repair_strategy' = None

\* The history after the model answered with the SQL text fp.
Answer(fp) ==
    IF attempts # <<>> /\ fp \in seen
    THEN Fail(DuplicateError) /\ UNCHANGED <<attemptVars, repair_strategy>>
    ELSE IF attempts # <<>> /\ repair_count >= MaxRepairs
    THEN /\ Fail(ExhaustedError(IF error_type = None THEN "UNKNOWN"
                                ELSE error_type))
         /\ UNCHANGED <<attemptVars, repair_strategy>>
    ELSE Register(fp) /\ Clear /\ repair_strategy' = None

ModelAnswers ==
    /\ Generates
    /\ \E fp \in Fingerprints : Answer(fp)
    /\ \E fs \in SUBSET link.fields : Select(fs)
    /\ Observe(TRUE)
    /\ UNCHANGED <<scopeVars, decision, retries, terminalVars>>
    /\ Step("generate_sql")

-----------------------------------------------------------------------------
(* validate_sql, execute_sql                                               *)

Validates ==
    /\ Runs("validate_sql") /\ Checks("validate_sql")
    /\ UNCHANGED <<repair_strategy, scopeVars, decision, link, calls, retries,
                   terminalVars>>

ValidationPasses ==
    /\ Validates
    /\ ReplaceCurrent([current EXCEPT !.validation = "valid"])
    /\ Clear
    /\ Step("validate_sql")

ValidationRejects ==
    /\ Validates
    /\ \E e \in ValidationIssues :
           /\ ReplaceCurrent([current EXCEPT !.validation = e])
           /\ Fail(PublicError(e, "VALIDATION"))
    /\ Step("validate_sql")

\* The SQL is validated once more against the same snapshot, with the same
\* result, and goes to the connector.
Executes ==
    /\ Runs("execute_sql") /\ Checks("execute_sql")
    /\ \E n \in 0..MaxRetries : Retried(n, TRUE)
    /\ UNCHANGED <<repair_strategy, scopeVars, decision, link, calls,
                   terminalVars>>

ExecutionSucceeds ==
    /\ Executes
    /\ ReplaceCurrent([current EXCEPT !.executed = TRUE])
    /\ Clear
    /\ Step("execute_sql")

ExecutionFails ==
    /\ Executes
    /\ \E e \in DatabaseErrors :
           /\ ReplaceCurrent([current EXCEPT !.database_error = e])
           /\ Fail(PublicError(e, "DATABASE"))
    /\ Step("execute_sql")

-----------------------------------------------------------------------------
(* reflect_sql, clarification                                              *)

Exhausted(e, n) == e \in Repairable /\ n >= MaxRepairs

\* repair_routes: the strategy each error is repaired by
RepairRoutes == [SYNTAX_ERROR  |-> "MINIMAL_SQL_REPAIR",
                 SCHEMA_ERROR  |-> "RELINK_SCHEMA",
                 DIALECT_ERROR |-> "REGENERATE_POSTGRES"]

\* a plausible defect: reflection leaves the budget to the registration
FaultyStrategy(e, n) == IF e \in Repairable THEN RepairRoutes[e] ELSE None

\* decide_reflection: the strategy for an error after n repairs
Strategy(e, n) ==
    IF e \in Repairable /\ ~Exhausted(e, n) THEN RepairRoutes[e] ELSE None

\* a plausible defect: the selection of the last context survives a relink
FaultyForget(l) == [l EXCEPT !.version = None, !.pool = None, !.probed = FALSE]

\* What a relink forgets of the last linking: its pool and its selection.
Forget(l) == [l EXCEPT !.version = None, !.pool = None, !.probed = FALSE,
                       !.selected = {}]

ReflectSql ==
    /\ Runs("reflect_sql") /\ Checks("reflect_sql")
    /\ repair_strategy' = Strategy(error_type, repair_count)
    /\ decision' = IF repair_strategy' = "RELINK_SCHEMA" THEN None
                   ELSE decision
    /\ link' = IF repair_strategy' = "RELINK_SCHEMA" THEN Forget(link)
               ELSE link
    /\ public_error' = IF Exhausted(error_type, repair_count)
                       THEN ExhaustedError(error_type) ELSE public_error
    /\ UNCHANGED <<error_type, scopeVars, attemptVars, calls, retries,
                   terminalVars>>
    /\ Step("reflect_sql")

Clarify ==
    /\ Runs("clarification")
    /\ clarification' = IF error_type = "AMBIGUOUS_SEMANTICS" THEN error_type
                        ELSE "BUSINESS_KNOWLEDGE_MISSING"
    /\ public_error' = NoPublicError
    /\ UNCHANGED <<error_type, repair_strategy, scopeVars, decision, link,
                   attemptVars, calls, retries, final_status>>
    /\ Step("clarification")

-----------------------------------------------------------------------------
(* finalize: it runs whatever the step count is                            *)

FailureStatus == [PERMISSION_DENIED |-> "REJECTED_SECURITY",
                  DUPLICATE_SQL     |-> "FAILED_DUPLICATE_LOOP",
                  TIMEOUT           |-> "FAILED_TIMEOUT",
                  CONNECTION_ERROR  |-> "FAILED_CONNECTION",
                  RESOURCE_RISK     |-> "FAILED_RESOURCE_RISK"]

FinalStatus ==
    IF current.executed
    THEN IF repair_count > 0 THEN "SUCCEEDED_REPAIRED" ELSE "SUCCEEDED_FIRST_PASS"
    ELSE IF clarification # None THEN "CLARIFICATION_REQUIRED"
    ELSE IF error_type \in DOMAIN FailureStatus THEN FailureStatus[error_type]
    ELSE IF Exhausted(error_type, repair_count) THEN "FAILED_REPAIR_EXHAUSTED"
    ELSE "FAILED_INTERNAL"

Finalize ==
    /\ node = "finalize" /\ ~expired
    /\ final_status' = FinalStatus
    /\ public_error' =
           IF final_status' \in Successes \cup {"CLARIFICATION_REQUIRED"}
           THEN NoPublicError
           ELSE IF Failed THEN public_error ELSE InternalError
    /\ UNCHANGED <<error_type, repair_strategy, scopeVars, decision, link,
                   attemptVars, calls, retries, clarification>>
    /\ Step("finalize")

\* plausible defects: the late answer keeps its rows; it loses its SQL with them
FaultyWithhold == UNCHANGED attemptVars
FaultyWithholdAll == IF current.executed THEN ReplaceCurrent(NoAttempt)
                     ELSE UNCHANGED attemptVars

\* The rows of an answer that comes too late are dropped.
Withhold ==
    IF current.executed
    THEN ReplaceCurrent([current EXCEPT !.executed = FALSE])
    ELSE UNCHANGED attemptVars

FinalizeLate ==
    /\ node = "finalize" /\ expired
    /\ Fail(TimeoutError)
    /\ Withhold
    /\ clarification' = None
    /\ final_status' = "FAILED_TIMEOUT"
    /\ UNCHANGED <<repair_strategy, scopeVars, decision, link, calls, retries>>
    /\ Step("finalize")

\* finalize itself raises: the history goes, whatever the clock says.
FinalizeRaises ==
    /\ node = "finalize"
    /\ Fail(InternalError)
    /\ attempts' = <<>> /\ seen' = {} /\ repair_count' = 0
    /\ current' = NoAttempt
    /\ repair_strategy' = None
    /\ clarification' = None
    /\ final_status' = "FAILED_INTERNAL"
    /\ UNCHANGED <<scopeVars, decision, link, calls, retries>>
    /\ Step("finalize")

-----------------------------------------------------------------------------
(* The specification                                                       *)

Init ==
    /\ node = "request_preprocess" /\ expired = FALSE /\ step_count = 0
    /\ error_type = None /\ public_error = NoPublicError
    /\ repair_strategy = None
    /\ normalized = FALSE /\ granted = FALSE
    /\ decision = None /\ link = NoLink
    /\ attempts = <<>> /\ seen = {} /\ repair_count = 0
    /\ current = NoAttempt
    /\ calls = [routing |-> 0, generation |-> 0]
    /\ retries = [counted |-> 0, reported |-> 0]
    /\ clarification = None /\ final_status = None

RunNode ==
    \/ \E n \in NodeNames : Interrupted(n) \/ NodeRaises(n)
    \/ InvalidRequest \/ Preprocess \/ PermissionDenied \/ PermissionGranted
    \/ MetadataFails \/ RetrievalFails \/ NoCandidates \/ Probe
    \/ Materialize \/ ComplexityRoute
    \/ ContextOverflows \/ ModelFails \/ ModelAsks \/ ModelAnswers
    \/ ValidationPasses \/ ValidationRejects
    \/ ExecutionSucceeds \/ ExecutionFails
    \/ ReflectSql \/ Clarify
    \/ Finalize \/ FinalizeLate \/ FinalizeRaises

\* run_workflow returned
Returned == node = "end" /\ UNCHANGED vars

Next == RunNode \/ Expire \/ Returned

\* One thread runs the nodes one after the other and every call a node makes
\* has a timeout, so a node that has started ends.
Spec == Init /\ [][Next]_vars /\ WF_vars(RunNode)

-----------------------------------------------------------------------------
(* Properties                                                              *)

Optional(S) == S \cup {None}
Codes == CollaboratorCodes \cup
         {"WORKFLOW_INTERNAL_ERROR", "WORKFLOW_TIMEOUT", "WORKFLOW_STEP_LIMIT",
          "WORKFLOW_SCHEMA_CLARIFICATION", "WORKFLOW_DUPLICATE_SQL",
          "WORKFLOW_CONTEXT_REQUIRED_OVERFLOW", "WORKFLOW_REPAIR_EXHAUSTED",
          "WORKFLOW_INVALID_REQUEST", "WORKFLOW_PERMISSION_DENIED"}
SchemaLink == [snapshot : Optional(Versions), version : Optional(Versions),
               pool : Optional(Versions), failure : Optional(Versions),
               probed : BOOLEAN, fields : SUBSET Fields,
               selected : SUBSET Fields]
PublicErrors == [type : ErrorTypes, code : Codes]

\* The types of SQLTaskState, with the bounds its fields declare:
\* step_count <= 32, repair_count <= 3.
TypeOK ==
    /\ node \in NodeNames \cup {"end"} /\ expired \in BOOLEAN
    /\ step_count \in 0..MaxSteps
    /\ error_type \in Optional(ErrorTypes)
    /\ public_error \in PublicErrors \cup {NoPublicError}
    /\ repair_strategy \in Optional(Strategies)
    /\ normalized \in BOOLEAN /\ granted \in BOOLEAN
    /\ decision \in Optional(Levels)
    /\ link \in SchemaLink
    /\ attempts \in Seq(SQLAttempt) /\ seen \subseteq Fingerprints
    /\ repair_count \in 0..MaxRepairs
    /\ current \in SQLAttempt \cup {NoAttempt}
    /\ calls \in [routing : Nat, generation : Nat]
    /\ retries \in [counted : Nat, reported : Nat]
    /\ clarification \in Optional(Semantic)
    /\ final_status \in Optional(Statuses)

\* The retrieval half of validate_workflow_invariants.
RetrievalValid ==
    /\ (link.version = None) = (link.pool = None)
    /\ ~(link.failure # None /\ link.pool # None)
    /\ link.pool # None => link.version = link.pool /\ link.snapshot = link.pool
    /\ link.failure # None => link.snapshot = link.failure

\* AttemptHistory and the flat copies of its last attempt.
HistoryValid ==
    IF attempts = <<>>
    THEN seen = {} /\ repair_count = 0 /\ current = NoAttempt
    ELSE /\ seen = {attempts[i].sql : i \in 1..Len(attempts)}
         /\ \A i, j \in 1..Len(attempts) :
               attempts[i].sql = attempts[j].sql => i = j
         /\ repair_count = Len(attempts) - 1
         /\ current = Last(attempts)
         /\ \A i \in 1..Len(attempts) :
               LET a == attempts[i] IN
               /\ ~(a.executed /\ a.database_error # None)
               /\ a.executed \/ a.database_error # None => a.validation = "valid"

\* LangGraph rebuilds SQLTaskState before every node and its validator raises
\* outside the wrapper's try: a node that leaves an invalid state loses the
\* request.  None does, in whatever order the nodes run, fail or are cut.
StateValid == RetrievalValid /\ HistoryValid /\ link.selected \subseteq link.fields

\* The terminal half of validate_workflow_invariants: the status, the error,
\* the clarification and the rows of a finished request agree.
TerminalValid ==
    /\ final_status \in Successes =>
          /\ (final_status = "SUCCEEDED_REPAIRED") = (repair_count > 0)
          /\ current.executed /\ current.database_error = None
          /\ error_type = None /\ clarification = None /\ ~Failed
    /\ final_status = "CLARIFICATION_REQUIRED" =>
          /\ clarification # None /\ error_type \in Semantic
          /\ ~current.executed /\ ~Failed
    /\ final_status \in Failures =>
          /\ Failed /\ public_error.type = error_type
          /\ ~current.executed /\ clarification = None
          /\ \A e \in DOMAIN FailureStatus :
                (final_status = FailureStatus[e]) = (error_type = e)
          /\ (final_status = "FAILED_REPAIR_EXHAUSTED") =
                (error_type \in Repairable /\ repair_count = MaxRepairs)

\* validate_workflow_invariants accepts every state, a terminal one included.
StateAccepted == StateValid /\ TerminalValid

\* No assertion and no internal guard of a node ever fails: what a node takes
\* for granted was established by the nodes that ran before it, also after a
\* repair that skips some of them.
OwnChecksHold == Runs(node) => Checks(node)

\* The step limit is never what stops a request: three repairs that all link
\* the schema again still fit in the 32 steps.
StepLimitUnreached ==
    node \notin {"finalize", "end"} => ~StepLimitReached

\* Every call of the model but the last one of a request added an attempt, so
\* a request never calls it more than MaxRepairs + 1 times.
CallsMatchAttempts ==
    /\ calls.routing <= MaxRepairs + 1
    /\ calls.generation <= calls.routing
    /\ node \in {"generate_sql", "validate_sql", "execute_sql", "reflect_sql"} =>
           calls.routing = Len(attempts)

\* A request stays within its two limits: of steps and of model calls.
WithinLimits == StepLimitUnreached /\ CallsMatchAttempts

\* A node that raised or was cut by the deadline is followed by finalize alone,
\* although the routes also read fields such a node did not write.
CutStops ==
    public_error \in {InternalError, TimeoutError, StepLimitError} =>
        node \in {"finalize", "end"}

\* A repair is generated for the error the last attempt really met, by the
\* strategy that error calls for, even after the schema was linked again.
RepairContextMatches ==
    node = "generate_sql" /\ attempts # <<>> =>
        /\ error_type = AttemptError(Last(attempts))
        /\ repair_strategy = Strategy(error_type, repair_count)
        /\ repair_strategy = "RELINK_SCHEMA" => decision = "complex"

\* finalize finds rows, a clarification or an error to report: the internal
\* error it would make up is never needed.
VerdictAtFinalize ==
    node = "finalize" => current.executed \/ clarification # None \/ Failed

\* A request whose deadline passed before finalize returns no rows and no
\* clarification, and TIMEOUT unless finalize itself raised.
LateIsTimeout ==
    node = "end" /\ expired =>
        /\ \A i \in 1..Len(attempts) : ~attempts[i].executed
        /\ clarification = None
        /\ final_status = "FAILED_TIMEOUT" \/ public_error = InternalError

\* The way to the end: a cut or a raise leads to finalize alone, finalize has
\* a verdict to report, and a late request gets no result.
EndsAsTold == CutStops /\ VerdictAtFinalize /\ LateIsTimeout

\* Attempts are only added; an attempt keeps its SQL and its verdicts, and all
\* but the last are frozen.  Only a late finalize takes rows back, and only a
\* finalize that raises drops the history.
HistoryGrows ==
    \/ final_status' = "FAILED_INTERNAL" /\ attempts' = <<>>
    \/ /\ Len(attempts') \in Len(attempts)..Len(attempts) + 1
       /\ \A i \in 1..Len(attempts) :
             LET old == attempts[i]  new == attempts'[i] IN
             /\ i < Len(attempts') => new = old
             /\ new.sql = old.sql
             /\ old.validation # None => new.validation = old.validation
             /\ old.database_error # None => new.database_error = old.database_error
             /\ old.executed => new.executed \/ final_status' = "FAILED_TIMEOUT"
HistoryOnlyGrows == [][HistoryGrows]_vars

\* Every request ends with a final status.
Terminates == <>(final_status # None)

\* "Workflow consumes and accumulates the retry count as soon as the public
\* call completed or failed" (stage-8 design, lines 87-88): what connectors
\* reported is what the request counts.
RetriesAllCounted == node = "end" => retries.counted = retries.reported

-----------------------------------------------------------------------------
(* The contract a request keeps                                            *)

Tried == [i \in 1..Len(attempts) |-> attempts[i].sql]
Outcome == IF final_status \in Successes THEN "answered" ELSE final_status

Contract == INSTANCE RequestContract
            WITH Statements <- Fingerprints,
                 Outcomes <- Statuses \ Successes,
                 tried <- Tried,
                 cleared <- current.validation = "valid",
                 answered <- current.executed,
                 outcome <- Outcome

\* The workflow implements RequestContract.
KeepsContract == Contract!Spec
============================================================================
