---------------------------- MODULE MCEvaluation ----------------------------
(* The evaluation for TLC: the pairing of the rows of two results, the     *)
(* comparison of two results, one case from its snapshot to its verdict,   *)
(* and the audit of the reports. They share no state: the first state says *)
(* which of them runs.                                                     *)
EXTENDS RowMatching, ResultValues, TLC

CONSTANTS
    Families,                     \* of ResultComparison
    MaxRepairs, MaxWrites, Cases, \* of CaseEvaluation
    Ids, MaxRuns, MaxVersions,    \* of EvaluationAudit, for one command at a
    Command,                      \* time and
    RivalIds, RivalRuns,          \* for commands that run at the same time
    RivalVersions, Rivals,
    case1, case2,
    None

Off == "off"

\* Comparisons: of columns, of values and of keyed rows.
Column(name, type) == [name |-> name, type |-> type]
Result(columns, rows, truncated) ==
    [columns |-> columns, rows |-> rows, truncated |-> truncated]
Tolerance(column, absolute, relative) ==
    [column |-> column, absolute |-> absolute, relative |-> relative]
UpTo(n, S) == UNION {[1..k -> S] : k \in 0..n}

(* Columns: missing, doubled, renamed and retyped ones, with and without   *)
(* a row, tolerances on any of them.                                       *)
AllColumns == {Column(n, t) : n \in {"a", "b", "A"},
                              t \in {"text", "varchar", "float8"}}
Sample(type) == IF type = "float8" THEN Number(1) ELSE Text(0, "plain")
ColumnResults ==
    {Result(cs, IF full THEN <<[i \in DOMAIN cs |-> Sample(cs[i].type)]>>
                        ELSE <<>>, cut) :
        cs \in UpTo(2, AllColumns), full \in BOOLEAN, cut \in {FALSE}}
    \union {Result(<<Column("a", "text")>>, <<>>, TRUE)}
GoldColumnResults ==
    {r \in ColumnResults :
        \A i \in DOMAIN r.columns : r.columns[i] \in
            {Column("a", "text"), Column("b", "float8"), Column("A", "text")}}
ColumnTolerances ==
    {<<>>, <<Tolerance("b", 1, 0)>>, <<Tolerance("A", 1, 0)>>,
     <<Tolerance("a", 0, 0), Tolerance("b", 0, 0)>>}
ColumnComparisons ==
    [predicted : ColumnResults, gold : GoldColumnResults,
     mode : {"multiset", "none"}, ordered : {FALSE},
     tolerances : ColumnTolerances, keys : {<<>>}]

(* Values: up to three rows of one column of every type.                   *)
Cells == [text |-> {Null, Text(0, "plain"), Text(0, "padded"),
                    Text(1, "plain")},
          timestamptz |-> {Null, Time(0, "utc"), Time(0, "offset"),
                           Time(1, "utc")},
          float8 |-> {Null, NaN, Number(0), Number(1), Number(2)},
          int4 |-> {Number(0), Number(1), Number(2)}]
ValueResults(type, n) ==
    {Result(<<Column("a", type)>>, rows, FALSE) :
        rows \in UpTo(n, {<<c>> : c \in Cells[type]})}
ValueComparisons(type, tolerances) ==
    [predicted : ValueResults(type, 2), gold : ValueResults(type, 2),
     mode : {"exact", "multiset"}, ordered : BOOLEAN,
     tolerances : tolerances, keys : {<<>>}]
NumericTolerances ==
    {<<Tolerance("a", 1, 0)>>, <<Tolerance("a", 0, 1)>>,
     <<Tolerance("a", 1, 1), Tolerance("A", 0, 0)>>}
ThreeRows ==
    [predicted : ValueResults("int4", 3), gold : ValueResults("int4", 3),
     mode : {"multiset"}, ordered : {FALSE},
     tolerances : {<<Tolerance("a", 1, 0)>>}, keys : {<<>>}]

(* Keyed rows: a key with and without tolerance, keys that do not exist.   *)
KeyedResults ==
    {Result(<<Column("a", "int4"), Column("b", "int4")>>, rows, FALSE) :
        rows \in UpTo(2, {<<Number(x), Number(y)>> :
                           x \in {0, 1, 2, 4}, y \in 0..1})}
KeyedComparisons ==
    [predicted : KeyedResults, gold : KeyedResults,
     mode : {"keyed"}, ordered : {FALSE},
     tolerances : {<<>>, <<Tolerance("a", 1, 0)>>, <<Tolerance("b", 1, 0)>>,
                   <<Tolerance("a", 0, 1)>>},
     keys : {<<"a">>, <<"A", "b">>}]
InvalidKeys ==
    [predicted : KeyedResults,
     gold : {r \in KeyedResults : Len(r.rows) = 1},
     mode : {"keyed"}, ordered : {FALSE},
     tolerances : {<<>>}, keys : {<<>>, <<"a", "A">>}]

AllFamilies ==
    <<ColumnComparisons, ValueComparisons("text", {<<>>}),
      ValueComparisons("timestamptz", {<<>>}),
      ValueComparisons("float8", NumericTolerances),
      ValueComparisons("int4", NumericTolerances),
      ThreeRows, KeyedComparisons, InvalidKeys>>

\* Cases of every kind the loader accepts.
Case(behavior, category, status, error) ==
    [behavior |-> behavior, category |-> category, status |-> status,
     error |-> error, fixture |-> category # "plain", initial |-> "draft",
     mode |-> IF behavior = "EXECUTE" THEN "multiset" ELSE "none"]

ExecuteCases ==
    {Case("EXECUTE", "plain", "SUCCEEDED_FIRST_PASS", None),
     Case("EXECUTE", "plain", "SUCCEEDED_REPAIRED", None),
     Case("EXECUTE", "reflection", "SUCCEEDED_REPAIRED", None)}
KeyedCases ==
    {[Case("EXECUTE", "plain", "SUCCEEDED_FIRST_PASS", None)
         EXCEPT !.mode = "keyed"]}
InfraCases == {Case("FAIL_INFRA", "plain", "FAILED_TIMEOUT", "TIMEOUT")}
OtherCases ==
    {Case("REJECT", "security", "REJECTED_SECURITY", "PERMISSION_DENIED"),
     Case("CLARIFY", "plain", "CLARIFICATION_REQUIRED",
          "AMBIGUOUS_SEMANTICS")}
    \union {[c EXCEPT !.fixture = FALSE] :
               c \in {Case("REJECT", "security", "REJECTED_SECURITY",
                           "PERMISSION_DENIED")}}
    \union {[c EXCEPT !.initial = "verified"] :
               c \in {Case("EXECUTE", "plain", "SUCCEEDED_FIRST_PASS", None)}}

AllCases == ExecuteCases \union KeyedCases \union InfraCases
            \union OtherCases

VARIABLES
    part,           \* the component that runs
    comparison, code, case, snapshots, db, pinned, gold, calls, delegated,
    schema, attempts, execute_count, final, trace, version, baseline,
    verified, report, runs, process, approvals

\* What does not belong to the component has no value.
outsideMatching == <<comparison, code, case, snapshots, db, pinned, gold,
                     calls, delegated, schema, attempts, execute_count, final,
                     trace, version, baseline, verified, report, runs,
                     process, approvals>>
outsideComparison == <<adjacency, pc, start, matched, pending, next, seenGold,
                       parent, incoming, current, target, answer, case,
                       snapshots, db, pinned, gold, calls, delegated, schema,
                       attempts, execute_count, final, trace, version,
                       baseline, verified, report, runs, process, approvals>>
outsideCase == <<adjacency, start, matched, pending, next, seenGold, parent,
                 incoming, current, target, answer, comparison, version,
                 baseline, verified, report, runs, process, approvals>>
outsideAudit == <<adjacency, pc, start, matched, pending, next, seenGold,
                  parent, incoming, current, target, answer, comparison, code,
                  case, snapshots, db, pinned, gold, calls, delegated, schema,
                  attempts, execute_count, final, trace>>

OnlyMatching ==
    /\ comparison = Off /\ code = Off /\ case = Off /\ snapshots = Off
    /\ db = Off /\ pinned = Off /\ gold = Off /\ calls = Off
    /\ delegated = Off /\ schema = Off /\ attempts = Off
    /\ execute_count = Off /\ final = Off /\ trace = Off /\ version = Off
    /\ baseline = Off /\ verified = Off /\ report = Off /\ runs = Off
    /\ process = Off /\ approvals = Off
OnlyComparison ==
    /\ adjacency = Off /\ pc = Off /\ start = Off /\ matched = Off
    /\ pending = Off /\ next = Off /\ seenGold = Off /\ parent = Off
    /\ incoming = Off /\ current = Off /\ target = Off /\ answer = Off
    /\ case = Off /\ snapshots = Off /\ db = Off /\ pinned = Off /\ gold = Off
    /\ calls = Off /\ delegated = Off /\ schema = Off /\ attempts = Off
    /\ execute_count = Off /\ final = Off /\ trace = Off /\ version = Off
    /\ baseline = Off /\ verified = Off /\ report = Off /\ runs = Off
    /\ process = Off /\ approvals = Off
OnlyCase ==
    /\ adjacency = Off /\ start = Off /\ matched = Off /\ pending = Off
    /\ next = Off /\ seenGold = Off /\ parent = Off /\ incoming = Off
    /\ current = Off /\ target = Off /\ answer = Off /\ comparison = Off
    /\ version = Off /\ baseline = Off /\ verified = Off /\ report = Off
    /\ runs = Off /\ process = Off /\ approvals = Off
OnlyAudit ==
    /\ adjacency = Off /\ pc = Off /\ start = Off /\ matched = Off
    /\ pending = Off /\ next = Off /\ seenGold = Off /\ parent = Off
    /\ incoming = Off /\ current = Off /\ target = Off /\ answer = Off
    /\ comparison = Off /\ code = Off /\ case = Off /\ snapshots = Off
    /\ db = Off /\ pinned = Off /\ gold = Off /\ calls = Off
    /\ delegated = Off /\ schema = Off /\ attempts = Off
    /\ execute_count = Off /\ final = Off /\ trace = Off

Comparison == INSTANCE ResultComparison
Judgement == INSTANCE CaseEvaluation
Audit == INSTANCE EvaluationAudit WITH
    Processes <- {Command}
Together == INSTANCE EvaluationAudit WITH
    Ids <- RivalIds, Processes <- Rivals, MaxRuns <- RivalRuns, MaxVersions <-
    RivalVersions

MCInit ==
    \/ part = "matching" /\ Init /\ OnlyMatching
    \/ part = "comparison" /\ Comparison!Init /\ OnlyComparison
    \/ part = "case" /\ Judgement!Init /\ OnlyCase
    \/ part = "audit" /\ Audit!Init /\ OnlyAudit
    \/ part = "audit together" /\ Together!Init /\ OnlyAudit

MCNext ==
    \/ /\ part = "matching" /\ Next
       /\ UNCHANGED <<part, outsideMatching>>
    \/ /\ part = "comparison" /\ Comparison!Next
       /\ UNCHANGED <<part, outsideComparison>>
    \/ /\ part = "case" /\ Judgement!Next
       /\ UNCHANGED <<part, outsideCase>>
    \/ /\ part = "audit" /\ Audit!Next
       /\ UNCHANGED <<part, outsideAudit>>
    \/ /\ part = "audit together" /\ Together!Next
       /\ UNCHANGED <<part, outsideAudit>>

mcVars == <<part, adjacency, pc, start, matched, pending, next, seenGold,
                  parent, incoming, current, target, answer, comparison, code,
                  case, snapshots, db, pinned, gold, calls, delegated, schema,
                  attempts, execute_count, final, trace, version, baseline,
                  verified, report, runs, process, approvals>>
\* The harness is one thread that nothing keeps waiting for ever.
Harness ==
    \/ /\ part = "matching" /\ Next
       /\ UNCHANGED <<part, outsideMatching>>
    \/ /\ part = "case" /\ Judgement!Harness
       /\ UNCHANGED <<part, outsideCase>>

MCSpec == MCInit /\ [][MCNext]_mcVars /\ WF_mcVars(Harness)

-----------------------------------------------------------------------------
(* The values of each component are of the declared kinds.                 *)
MCTypeOK ==
    /\ part = "matching" => TypeOK
    /\ part = "comparison" => Comparison!TypeOK
    /\ part = "case" => Judgement!TypeOK
    /\ part = "audit" => Audit!TypeOK
    /\ part = "audit together" => Together!TypeOK

(* What compare_results says: two results match only when their columns    *)
(* have the same names and their rows can be paired, in the keyed mode     *)
(* too; the order of the columns does not matter, without relative         *)
(* tolerances neither side is privileged, and a result that is not refused *)
(* matches itself.                                                         *)
ComparisonRight ==
    part = "comparison" =>
        /\ Comparison!MatchIsPairing /\ Comparison!ColumnOrderFree
        /\ Comparison!Symmetric /\ Comparison!MatchesItself

(* What evaluate_case says of a case: with snapshots Gold and every        *)
(* attempt saw the same rows, the schema is that of Gold, a fixture is     *)
(* answered once, executions are counted, a pass is earned, and the        *)
(* contract of the evidence refuses none.                                  *)
CaseRight ==
    part = "case" =>
        /\ Judgement!OneSnapshot /\ Judgement!OneSchema
        /\ Judgement!FixtureOnce /\ Judgement!CountTrue
        /\ Judgement!PassEarned /\ Judgement!ContractAgrees

(* The audit, whatever command dies or runs at the same time: no approval  *)
(* is replayed onto another run.  With one command at a time a case is     *)
(* marked verified on approved evidence of the frozen code only, a         *)
(* decision touches one case, and a verify-case that ends without an error *)
(* leaves the right count.                                                 *)
AuditRight ==
    /\ [](part = "audit" => Audit!NoReplay /\ Audit!CountedRight)
    /\ [](part = "audit together" => Together!NoReplay)
    /\ [][part = "audit" =>
             Audit!MarkedOnEvidence /\ Audit!DecisionsStay]_mcVars

(* A comparison of rows ends and every case is judged.                     *)
Ends ==
    <>(\/ part \notin {"matching", "case"}
       \/ part = "matching" /\ pc = "done"
       \/ part = "case" /\ code # None)

ASSUME MCAssumption ==
    /\ NAssumption /\ Comparison!ComparisonAssumption
    /\ Judgement!CaseAssumption
    /\ Audit!AuditAssumption /\ Together!AuditAssumption

\* The cases of an audit differ in nothing but their names.
Symmetry == Permutations({case1, case2})

=============================================================================
