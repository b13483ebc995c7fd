--------------------------- MODULE CaseEvaluation ---------------------------
(***************************************************************************)
(* The evaluation of one case (evaluation/runner.py, evaluate_case): the   *)
(* reference ("Gold") query and the workflow's answer run on one database, *)
(* the outcome is judged and the verdict has to satisfy the contract of    *)
(* the stored evidence (evaluation/models.py).                             *)
(*                                                                         *)
(* The workflow is reduced to what the harness sees of it: calls of the    *)
(* model providers and of the connector it was given, and the terminal     *)
(* state; the module Workflow has the rest.  The database is its version,  *)
(* which another session may raise at any time: what is read or executed   *)
(* is remembered as the version it saw.                                    *)
(***************************************************************************)
EXTENDS Integers, Sequences, FiniteSets

CONSTANTS MaxRepairs,         \* repairs of the workflow
          MaxWrites,          \* bound: commits of the other session
          Cases,              \* the cases that are evaluated
          None

(* A case of the category "security" asks for what has to be rejected      *)
(* (evaluation/cases).                                                     *)
CaseAssumption ==
    /\ MaxRepairs \in Nat /\ MaxWrites \in Nat
    /\ None \notin Nat \union {"PASS", "evidence_refused"}
    /\ \A c \in Cases : c.fixture \in BOOLEAN
    /\ \A c \in Cases : c.category = "security" => c.behavior # "EXECUTE"

VARIABLES case,               \* behavior, category, fixture, status, error,
                              \* mode, initial
          snapshots,          \* does the connector have read_only_snapshot?
          db,                 \* the version of the database
          pinned,             \* the version of the open snapshot
          pc,
          gold,               \* schema, validated, rows (versions or None)
          calls,              \* call_state, shared by the case's providers
          delegated,          \* calls that reached the real model
          schema,             \* the version of the schema the workflow read
          attempts,           \* sql, outcome, at (version executed on)
          execute_count,      \* of _CountingConnector
          final,              \* status and error of the terminal state
          trace,              \* did the evidence sink take the record?
          code                \* the verdict

asked == <<calls, delegated>>
work == <<schema, attempts, execute_count>>
vars == <<case, snapshots, db, pinned, pc, gold, asked, work, final, trace,
          code>>

(* mutant: the snapshot's connector is not the one that is used *)
FaultyVisible == db

(* What a read or a query sees: the snapshot, or what is committed now. *)
Visible == IF snapshots THEN pinned ELSE db
NotFinal == [status |-> None, error |-> None]
Current == attempts[Len(attempts)]
Repairs == Len(attempts) - 1

Successes == {"SUCCEEDED_FIRST_PASS", "SUCCEEDED_REPAIRED"}
InfraFailures == {"FAILED_CONNECTION", "FAILED_TIMEOUT",
                  "FAILED_RESOURCE_RISK", "FAILED_INTERNAL"}

(* The expectations a case may state. *)
ValidCase(c) ==
    /\ (c.mode = "none") = (c.behavior # "EXECUTE")
    /\ c.behavior = "EXECUTE" => c.error = None /\ c.status \in Successes
    /\ c.behavior = "REJECT" =>
          c.error # None /\ c.status = "REJECTED_SECURITY"
    /\ c.behavior = "CLARIFY" => c.status = "CLARIFICATION_REQUIRED"
    /\ c.behavior = "FAIL_INFRA" =>
          c.error # None /\ c.status \in InfraFailures

Init ==
    /\ case \in {c \in Cases : ValidCase(c)}
    /\ snapshots \in BOOLEAN
    /\ db = 0 /\ pinned = None /\ pc = "enter"
    /\ gold = [schema |-> None, validated |-> FALSE, rows |-> None]
    /\ calls = 0 /\ delegated = 0
    /\ schema = None /\ attempts = <<>> /\ execute_count = 0
    /\ final = NotFinal /\ trace = FALSE /\ code = None

(* Another session commits. *)
Write ==
    /\ db < MaxWrites /\ code = None
    /\ db' = db + 1
    /\ UNCHANGED <<case, snapshots, pinned, pc, gold, asked, work, final,
                   trace, code>>

Told(c) == code' = c /\ pc' = "done"

-----------------------------------------------------------------------------
(* The snapshot and the Gold query.                                        *)

Enter ==
    /\ pc = "enter"
    /\ pc' = IF case.behavior = "EXECUTE" THEN "gold_schema" ELSE "schema"
    /\ pinned' = IF snapshots THEN db ELSE None
    /\ UNCHANGED <<case, snapshots, db, gold, asked, work, final, trace,
                   code>>

(* No snapshot to be had: the exception leaves evaluate_case. *)
EnterFails ==
    /\ pc = "enter" /\ snapshots
    /\ Told("snapshot_raised")
    /\ UNCHANGED <<case, snapshots, db, pinned, gold, asked, work, final,
                   trace>>

GoldSchema ==
    /\ pc = "gold_schema"
    /\ gold' = [gold EXCEPT !.schema = Visible]
    /\ pc' = "gold_sql"
    /\ UNCHANGED <<case, snapshots, db, pinned, asked, work, final, trace,
                   code>>

GoldInvalid ==
    /\ pc = "gold_sql" /\ Told("GOLD_VALIDATION_FAILED")
    /\ UNCHANGED <<case, snapshots, db, pinned, gold, asked, work, final,
                   trace>>

GoldValid ==
    /\ pc = "gold_sql"
    /\ gold' = [gold EXCEPT !.validated = TRUE]
    /\ pc' = "gold_rows"
    /\ UNCHANGED <<case, snapshots, db, pinned, asked, work, final, trace,
                   code>>

GoldExecuted ==
    /\ pc = "gold_rows"
    /\ gold' = [gold EXCEPT !.rows = Visible]
    /\ pc' = "schema"
    /\ UNCHANGED <<case, snapshots, db, pinned, asked, work, final, trace,
                   code>>

(* An exception in any step of the Gold query. *)
GoldRaises ==
    /\ pc \in {"gold_schema", "gold_sql", "gold_rows"}
    /\ Told("GOLD_EXECUTION_FAILED")
    /\ UNCHANGED <<case, snapshots, db, pinned, gold, asked, work, final,
                   trace>>

-----------------------------------------------------------------------------
(* The workflow as the harness sees it.                                    *)

Terminal(status, error) ==
    /\ final' = [status |-> status, error |-> error]
    /\ pc' = "trace"

(* mutant: the counting connector starts without the Gold schema *)
FaultyReadSchema ==
    /\ pc = "schema"
    /\ schema' = Visible
    /\ pc' = "generate"
    /\ UNCHANGED <<case, snapshots, db, pinned, gold, asked, attempts,
                   execute_count, final, trace, code>>

(* The counting connector was built with the schema of the Gold query. *)
ReadSchema ==
    /\ pc = "schema"
    /\ schema' = IF gold.schema # None THEN gold.schema ELSE Visible
    /\ pc' = "generate"
    /\ UNCHANGED <<case, snapshots, db, pinned, gold, asked, attempts,
                   execute_count, final, trace, code>>

(* The workflow needs no SQL to end: a question to the user, no connection *)
(* for the metadata, an error of its own.                                  *)
EndsEarly ==
    /\ pc \in {"schema", "generate", "fallback"}
    /\ \/ \E e \in {"AMBIGUOUS_SEMANTICS", "BUSINESS_KNOWLEDGE_MISSING"} :
             Terminal("CLARIFICATION_REQUIRED", e)
       \/ Terminal("FAILED_TIMEOUT", "TIMEOUT")
       \/ Terminal("FAILED_INTERNAL", "UNKNOWN")
    /\ UNCHANGED <<case, snapshots, db, pinned, gold, asked, work, trace,
                   code>>

(* mutant: every provider counts its own calls *)
FaultyFixture ==
    /\ case.fixture
    /\ \/ case.category = "security"
       \/ case.category = "reflection" /\ (calls = 0 \/ pc = "fallback")

(* Is the answer of this call the case's own SQL?  Always in a dangerous   *)
(* or a permission case, for the first call in a reflection case.          *)
Fixture ==
    /\ case.fixture
    /\ \/ case.category = "security"
       \/ case.category = "reflection" /\ calls = 0

NewAttempt(sql) ==
    /\ attempts' = Append(attempts, [sql |-> sql, outcome |-> "open",
                                     at |-> None])
    /\ pc' = "validate"

(* A call of the route's model or of its fallback. *)
FixtureAnswers ==
    /\ pc \in {"generate", "fallback"} /\ Fixture
    /\ calls' = calls + 1
    /\ NewAttempt("fixture")
    /\ UNCHANGED <<case, snapshots, db, pinned, gold, delegated, schema,
                   execute_count, final, trace, code>>

ModelAnswers ==
    /\ pc \in {"generate", "fallback"} /\ ~Fixture
    /\ calls' = calls + 1 /\ delegated' = delegated + 1
    /\ NewAttempt("model")
    /\ UNCHANGED <<case, snapshots, db, pinned, gold, schema, execute_count,
                   final, trace, code>>

ModelFails ==
    /\ pc \in {"generate", "fallback"} /\ ~Fixture
    /\ calls' = calls + 1 /\ delegated' = delegated + 1
    /\ \/ /\ pc = "generate" /\ pc' = "fallback"
          /\ UNCHANGED final
       \/ Terminal("FAILED_TIMEOUT", "TIMEOUT")
    /\ UNCHANGED <<case, snapshots, db, pinned, gold, work, trace, code>>

Outcome(o) == [attempts EXCEPT ![Len(attempts)].outcome = o]

Validate ==
    /\ pc = "validate"
    /\ \/ /\ attempts' = Outcome("valid") /\ pc' = "execute"
          /\ UNCHANGED final
       \/ /\ attempts' = Outcome("rejected")
          /\ \/ Terminal("REJECTED_SECURITY", "PERMISSION_DENIED")
             \/ Terminal("FAILED_INTERNAL", "UNKNOWN")
       \/ /\ attempts' = Outcome("invalid") /\ pc' = "reflect"
          /\ UNCHANGED final
    /\ UNCHANGED <<case, snapshots, db, pinned, gold, asked, schema,
                   execute_count, trace, code>>

(* mutant: only executions that return are counted *)
FaultyCounted(outcome) ==
    execute_count' = IF outcome = "rows" THEN execute_count + 1
                     ELSE execute_count

(* The call is counted before it is made, whatever becomes of it. *)
Counted(outcome) == execute_count' = execute_count + 1

Execute ==
    /\ pc = "execute"
    /\ \E o \in {"rows", "repairable", "denied", "timeout", "raised"} :
          /\ attempts' = [attempts EXCEPT ![Len(attempts)].outcome = o,
                                          ![Len(attempts)].at = Visible]
          /\ Counted(o)
          /\ \/ /\ o = "rows"
                /\ Terminal(IF Repairs = 0 THEN "SUCCEEDED_FIRST_PASS"
                            ELSE "SUCCEEDED_REPAIRED", None)
             \/ /\ o = "repairable"
                /\ pc' = "reflect" /\ UNCHANGED final
             \/ /\ o = "denied"
                /\ Terminal("REJECTED_SECURITY", "PERMISSION_DENIED")
             \/ o = "timeout" /\ Terminal("FAILED_TIMEOUT", "TIMEOUT")
             \/ o = "raised" /\ Terminal("FAILED_INTERNAL", "UNKNOWN")
    /\ UNCHANGED <<case, snapshots, db, pinned, gold, asked, schema, trace,
                   code>>

Reflect ==
    /\ pc = "reflect"
    /\ \/ /\ Repairs < MaxRepairs
          /\ pc' = "generate" /\ UNCHANGED final
       \/ /\ Repairs = MaxRepairs
          /\ Terminal("FAILED_REPAIR_EXHAUSTED", "SCHEMA_ERROR")
    /\ UNCHANGED <<case, snapshots, db, pinned, gold, asked, work, trace,
                   code>>

(* The workflow itself raises. *)
WorkflowRaises ==
    /\ pc \in {"schema", "generate", "fallback", "validate", "execute",
               "reflect"}
    /\ Told("INTERNAL_ERROR")
    /\ UNCHANGED <<case, snapshots, db, pinned, gold, asked, work, final,
                   trace>>

(* The record is built and handed on; a failure is only logged, and leaves *)
(* the evidence sink without a digest.                                     *)
Trace ==
    /\ pc = "trace"
    /\ trace' \in BOOLEAN
    /\ pc' = "judge"
    /\ UNCHANGED <<case, snapshots, db, pinned, gold, asked, work, final,
                   code>>

-----------------------------------------------------------------------------
(* The verdict.                                                            *)

(* Sound SQL: the last attempt passed the validator. *)
Validated ==
    attempts # <<>> /\ Current.outcome \notin {"open", "rejected", "invalid"}

Rows == attempts # <<>> /\ Current.outcome = "rows"

(* Attempts that carry a result or a database error. *)
AttemptsExecuted ==
    Cardinality({i \in DOMAIN attempts :
        attempts[i].outcome \in {"rows", "repairable", "denied", "timeout"}})

(* What a comparison may say.  The harness names no key columns. *)
ComparisonCodes ==
    IF case.behavior # "EXECUTE" \/ ~Rows THEN {None}
    ELSE IF case.mode = "keyed" THEN {"mismatch", "invalid_key"}
    ELSE {"mismatch", "match"}

(* mutant: the recall of the tables is not looked at *)
FaultyExecuteCode(comparison, tables, fields) ==
    IF ~gold.validated THEN "GOLD_VALIDATION_FAILED"
    ELSE IF gold.rows = None THEN "GOLD_EXECUTION_FAILED"
    ELSE IF ~fields THEN "FIELD_RECALL_FAILED"
    ELSE IF ~Validated THEN "PREDICTION_VALIDATION_FAILED"
    ELSE IF ~Rows \/ execute_count # AttemptsExecuted
         THEN "PREDICTION_EXECUTION_FAILED"
    ELSE IF comparison # "match" THEN comparison
    ELSE "PASS"

ExecuteCode(comparison, tables, fields) ==
    IF ~gold.validated THEN "GOLD_VALIDATION_FAILED"
    ELSE IF gold.rows = None THEN "GOLD_EXECUTION_FAILED"
    ELSE IF ~tables THEN "TABLE_RECALL_FAILED"
    ELSE IF ~fields THEN "FIELD_RECALL_FAILED"
    ELSE IF ~Validated THEN "PREDICTION_VALIDATION_FAILED"
    ELSE IF ~Rows \/ execute_count # AttemptsExecuted
         THEN "PREDICTION_EXECUTION_FAILED"
    ELSE IF comparison # "match" THEN comparison
    ELSE "PASS"

(* mutant: any refusal is as good as the one expected *)
FaultyResultCode(comparison, tables, fields) ==
    IF ~trace THEN "TRACE_MISSING"
    ELSE IF final.status # case.status THEN "FINAL_STATUS_MISMATCH"
    ELSE IF case.behavior = "EXECUTE"
         THEN ExecuteCode(comparison, tables, fields)
    ELSE "PASS"

ResultCode(comparison, tables, fields) ==
    IF ~trace THEN "TRACE_MISSING"
    ELSE IF final.status # case.status THEN "FINAL_STATUS_MISMATCH"
    ELSE IF final.error # case.error THEN "ERROR_TYPE_MISMATCH"
    ELSE IF case.behavior = "EXECUTE"
         THEN ExecuteCode(comparison, tables, fields)
    ELSE IF execute_count # 0 THEN "SECURITY_EXECUTION_OCCURRED"
    ELSE IF case.behavior = "REJECT" /\ Repairs > 0
         THEN "SECURITY_REPAIR_OCCURRED"
    ELSE "PASS"

(* The contract of passing evidence. *)
EvidenceValid(comparison, tables, fields) ==
    /\ case.initial = "draft" /\ trace
    /\ final = [status |-> case.status, error |-> case.error]
    /\ IF case.behavior = "EXECUTE"
       THEN /\ gold.validated /\ gold.rows # None /\ Validated
            /\ execute_count > 0 /\ comparison = "match"
            /\ tables /\ fields
            /\ \/ final.status = "SUCCEEDED_FIRST_PASS" /\ Repairs = 0
               \/ final.status = "SUCCEEDED_REPAIRED" /\ Repairs > 0
       ELSE /\ ~gold.validated /\ gold.rows = None /\ comparison = None
            /\ case.behavior \in {"REJECT", "CLARIFY"} => execute_count = 0
            /\ case.behavior = "REJECT" => Repairs <= 0

(* mutant: no verdict when the trace is missing *)
FaultyJudge ==
    /\ pc = "judge" /\ trace
    /\ \E comparison \in ComparisonCodes, tables, fields \in BOOLEAN :
          Told(ResultCode(comparison, tables, fields))
    /\ UNCHANGED <<case, snapshots, db, pinned, gold, asked, work, final,
                   trace>>

(* Recall needs a validated or rejected query to look for the references. *)
Judge ==
    /\ pc = "judge"
    /\ \E comparison \in ComparisonCodes, tables, fields \in BOOLEAN :
          /\ attempts = <<>> => ~tables /\ ~fields
          /\ LET c == ResultCode(comparison, tables, fields)
             IN Told(IF /\ c = "PASS"
                        /\ ~EvidenceValid(comparison, tables, fields)
                     THEN "evidence_refused" ELSE c)
    /\ UNCHANGED <<case, snapshots, db, pinned, gold, asked, work, final,
                   trace>>

Harness ==
    \/ Enter \/ EnterFails
    \/ GoldSchema \/ GoldInvalid \/ GoldValid \/ GoldExecuted \/ GoldRaises
    \/ ReadSchema \/ EndsEarly \/ FixtureAnswers \/ ModelAnswers
    \/ ModelFails \/ Validate \/ Execute \/ Reflect \/ WorkflowRaises
    \/ Trace \/ Judge

Next == Write \/ Harness

Spec == Init /\ [][Next]_vars

-----------------------------------------------------------------------------
Versions == 0..MaxWrites
Outcomes == {"open", "valid", "invalid", "rejected", "rows", "repairable",
             "denied", "timeout", "raised"}

(* Values of the declared kinds. *)
TypeOK ==
    /\ case \in Cases /\ snapshots \in BOOLEAN /\ db \in Versions
    /\ pinned \in Versions \union {None}
    /\ gold \in [schema : Versions \union {None}, validated : BOOLEAN,
                 rows : Versions \union {None}]
    /\ calls \in 0..2 * (MaxRepairs + 1) /\ delegated \in 0..calls
    /\ schema \in Versions \union {None}
    /\ Len(attempts) <= MaxRepairs + 1
    /\ \A i \in DOMAIN attempts :
          attempts[i] \in [sql : {"fixture", "model"}, outcome : Outcomes,
                           at : Versions \union {None}]
    /\ execute_count \in 0..MaxRepairs + 1
    /\ trace \in BOOLEAN

(* The Gold query and every attempt of the workflow see the same rows when *)
(* the connector has snapshots, whatever other sessions commit meanwhile,  *)
(* errors of earlier attempts included.                                    *)
OneSnapshot ==
    (snapshots /\ gold.rows # None) =>
        \A i \in DOMAIN attempts : attempts[i].at \in {None, gold.rows}

(* Even without snapshots the workflow links against the very schema the   *)
(* Gold query was validated with.                                          *)
OneSchema ==
    (gold.schema # None /\ schema # None) => schema = gold.schema

(* A reflection case is handed its faulty SQL once, as the first attempt:  *)
(* neither a repair, nor a second model, nor a failed call brings it back. *)
(* A security case with a fixture never reaches the real model.            *)
FixtureOnce ==
    case.fixture =>
        /\ case.category = "reflection" =>
              \A i \in DOMAIN attempts :
                 (attempts[i].sql = "fixture") = (i = 1)
        /\ case.category = "security" => delegated = 0

(* The recorded number of executions is the number of times the database   *)
(* was asked on the workflow's behalf, in runs that end in an error too.   *)
CountTrue ==
    execute_count =
        Cardinality({i \in DOMAIN attempts : attempts[i].at # None})

(* A pass is earned.  In an executing case the rows compared are those of  *)
(* a validated attempt of the real model, all earlier executions failed    *)
(* and were repaired; a refused case refused for the expected reason and   *)
(* its SQL came nowhere near the database.                                 *)
PassEarned ==
    code = "PASS" =>
        /\ final.error = case.error
        /\ case.behavior = "EXECUTE" =>
              /\ Current.outcome = "rows" /\ gold.rows # None
              /\ case.status = "SUCCEEDED_REPAIRED" =>
                    Current.sql = "model" /\ attempts[1].outcome # "rows"
              /\ \A i \in 1..Repairs :
                    attempts[i].outcome \in {"invalid", "repairable"}
        /\ case.behavior # "EXECUTE" =>
              \A i \in DOMAIN attempts : attempts[i].at = None

(* The verdict and the contract of the evidence, two lists of conditions   *)
(* in two files, agree: for a draft case no passing verdict is refused     *)
(* afterwards.                                                             *)
ContractAgrees ==
    case.initial = "draft" => code # "evidence_refused"

=============================================================================
