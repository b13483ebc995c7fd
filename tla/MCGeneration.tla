---------------------------- MODULE MCGeneration ----------------------------
(* From a question to SQL for TLC: schema linking, the selection of the    *)
(* context and the calls of the models, side by side. They share no state: *)
(* the first state says which of them runs.                                *)
EXTENDS ContextSelection, FiniteSetsExt, TLC

CONSTANTS f1, f2, f3, f4, f5,
    Routes, Sizes, Timeouts, Deadline, MaxVisits, None

Off == "off"

\* Five columns f1, f2 | f3 | f4, f5 of three tables;
\* f3 refers to f1 and f4 to f3.
MCFields == {f1, f2, f3, f4, f5}
MCRank == [f \in MCFields |->
             CASE f = f1 -> 1 [] f = f2 -> 2 [] f = f3 -> 3 [] f = f4 -> 4
               [] OTHER -> 5]

\* No path, or those of the pairs of tables: f3-f1, f3-f1-f4 and f4-f3.
MCJoins == {<<>>, <<f3, f1, f3, f1, f4, f3>>}
MCRelations == {{f1, f3}, {f4, f3}, {f1, f2}, {f1, f3, f4}}

Bytes(item) ==
    IF item \in MCRelations THEN 4
    ELSE IF item = f2 THEN 15 ELSE IF item = f5 THEN 3 ELSE 6

\* 9 bytes of texts and tables, then what is listed.
MCSize == [S \in SUBSET (MCFields \cup MCRelations) |->
             9 + MapThenSumSet(Bytes, S)]

\* Invalid, negative, too small for anything, tight, and room for all.
MCLimits == {<<10, 10>>, <<5, 4>>, <<15, 4>>, <<20, 4>>, <<23, 4>>, <<25, 4>>,
             <<40, 4>>}

\* Three tables with any keys; five tables: a chain, a star, a cycle with two
\* tails, one with a single tail, and two components.
AllKeySets == SUBSET {{1, 2}, {1, 3}, {2, 3}}
FiveShapes == {
    {{1, 2}, {2, 3}, {3, 4}, {4, 5}}, {{1, 3}, {2, 3}, {3, 4}, {3, 5}},
    {{1, 4}, {2, 4}, {1, 2}, {2, 3}, {4, 5}},
    {{1, 2}, {2, 3}, {3, 4}, {1, 4}, {4, 5}}, {{1, 3}, {2, 4}, {4, 5}}}

VARIABLES
    part,           \* the component that runs
    table, now, route, at, grant, since, code, primary_error, made,
    observations, failed, answers, keys, allowed, hybrid, similarity, call,
    pool, rest, chosen, results, top_k

\* What does not belong to the component has no value.
outsideContext == <<table, now, route, at, grant, since, code, primary_error,
                    made, observations, failed, answers, keys, allowed,
                    hybrid, similarity, call, pool, rest, chosen, results,
                    top_k>>
outsideRouting == <<score, matched, joinColumns, limits, repair, order,
                    required, skipped, low, high, sent, observed, keys,
                    allowed, hybrid, similarity, call, pool, rest, chosen,
                    results, top_k>>
outsideLinking == <<matched, joinColumns, limits, repair, order, required,
                    skipped, low, high, sent, observed, table, now, route, at,
                    grant, since, code, primary_error, made, observations,
                    failed, answers>>

OnlyContext ==
    /\ table = Off /\ now = Off /\ route = Off /\ at = Off /\ grant = Off
    /\ since = Off /\ code = Off /\ primary_error = Off /\ made = Off
    /\ observations = Off /\ failed = Off /\ answers = Off /\ keys = Off
    /\ allowed = Off /\ hybrid = Off /\ similarity = Off /\ call = Off
    /\ pool = Off /\ rest = Off /\ chosen = Off /\ results = Off
    /\ top_k = Off
OnlyRouting ==
    /\ score = Off /\ matched = Off /\ joinColumns = Off /\ limits = <<0, 0>>
    /\ repair = -1 /\ order = <<>> /\ required = Off /\ skipped = Off
    /\ low = Off /\ high = Off /\ sent = Off /\ observed = NoObservation
    /\ keys = Off /\ allowed = Off /\ hybrid = Off /\ similarity = Off
    /\ call = Off /\ pool = Off /\ rest = Off /\ chosen = Off /\ results = Off
    /\ top_k = Off
OnlyLinking ==
    /\ matched = Off /\ joinColumns = Off /\ limits = <<0, 0>> /\ repair = -1
    /\ order = <<>> /\ required = Off /\ skipped = Off /\ low = Off
    /\ high = Off /\ sent = Off /\ observed = NoObservation /\ table = Off
    /\ now = Off /\ route = Off /\ at = Off /\ grant = Off /\ since = Off
    /\ code = Off /\ primary_error = Off /\ made = Off /\ observations = Off
    /\ failed = Off /\ answers = Off

\* LinkingProofs adds to SchemaLinking nothing but lemmas and their names.
Routing == INSTANCE ModelRouting
Linking == INSTANCE LinkingProofs WITH
    N <- 3, KeySets <- AllKeySets, Scopes <- {1 .. 3, {1, 3}}, MaxScore <- 2,
    CandidateLimit <- 2, MediumTopK <- 2, SimpleTopK <- 1, MaxSimilarity <- 1,
    RRF_K <- 60, ProbeTopK <- 3
Bridges == INSTANCE LinkingProofs WITH
    N <- 5, KeySets <- FiveShapes, Scopes <- {1 .. 5}, MaxScore <- 1,
    CandidateLimit <- 5, MediumTopK <- 2, SimpleTopK <- 1, MaxSimilarity <- 0,
    RRF_K <- 60, ProbeTopK <- 2

MCInit ==
    \/ part = "context" /\ Init /\ OnlyContext
    \/ part = "routing" /\ Routing!Init /\ OnlyRouting
    \/ part = "linking" /\ Linking!Init /\ OnlyLinking
    \/ part = "bridges" /\ Bridges!Init /\ OnlyLinking

MCNext ==
    \/ /\ part = "context" /\ Next
       /\ UNCHANGED <<part, outsideContext>>
    \/ /\ part = "routing" /\ Routing!Next
       /\ UNCHANGED <<part, outsideRouting>>
    \/ /\ part = "linking" /\ Linking!Next
       /\ UNCHANGED <<part, outsideLinking>>
    \/ /\ part = "bridges" /\ Bridges!Next
       /\ UNCHANGED <<part, outsideLinking>>

mcVars == <<part, score, matched, joinColumns, limits, repair, phase, order,
                  required, skipped, low, high, sent, observed, table, now,
                  route, at, grant, since, code, primary_error, made,
                  observations, failed, answers, keys, allowed, hybrid,
                  similarity, call, pool, rest, chosen, results, top_k>>
MCSpec == MCInit /\ [][MCNext]_mcVars

-----------------------------------------------------------------------------
(* The values of each component are of the declared kinds.                 *)
MCTypeOK ==
    /\ part = "context" => TypeOK
    /\ part = "routing" => Routing!TypeOK
    /\ part = "linking" => Linking!TypeOK
    /\ part = "bridges" => Bridges!TypeOK

(* What a request asks of its models and tells of it.  A model gets only   *)
(* messages selected for its limits, no more time than the request has     *)
(* left, and one call in a visit of generate_sql, the fallback only after  *)
(* an infrastructure failure of the primary.  The observations number the  *)
(* visits and tell their calls, and one is lost only when the deadline     *)
(* passes between the two calls (generate_with_model_route).               *)
CallsTold ==
    part = "routing" =>
        /\ Routing!MessagesFit /\ Routing!WithinDeadline
        /\ Routing!AskedOnce /\ Routing!LeavesTruth
        /\ Routing!NoVisitLost /\ Routing!LostOnlyLate

(* What link_schema returns.  It accepts the pool it prepared itself;      *)
(* without embedding the order of tables is the lexical one, with it a     *)
(* table both channels rank before another is before it; it returns as     *)
(* many tables as its budget and the scope allow; its join paths stay      *)
(* inside these tables, connect what keys connect there and are shortest;  *)
(* and nothing outside the scope of the profile is ranked, selected or     *)
(* joined through.                                                         *)
LinkingSound ==
    /\ part = "linking" =>
           /\ Linking!PoolAccepted /\ Linking!DegradedIsLexical
           /\ Linking!FusionAgrees /\ Linking!BudgetUsed
           /\ Linking!PathsConnect /\ Linking!ScopeKept
    /\ part = "bridges" =>
           /\ Bridges!PoolAccepted /\ Bridges!DegradedIsLexical
           /\ Bridges!FusionAgrees /\ Bridges!BudgetUsed
           /\ Bridges!PathsConnect /\ Bridges!ScopeKept

(* A table that tables with evidence cannot be joined without is left out  *)
(* of the selection only for others of its kind and for what joins these   *)
(* to the selection: no other table takes its place                        *)
(* (rerank_schema_candidates).                                             *)
BridgesKept ==
    /\ part = "linking" => Linking!BridgesKept
    /\ part = "bridges" => Bridges!BridgesKept

ASSUME MCAssumption ==
    /\ ContextAssumption /\ Routing!RoutingAssumption
    /\ Linking!LinkingAssumption /\ Linking!GraphAssumption
    /\ Bridges!LinkingAssumption /\ Bridges!GraphAssumption

\* The routes and their sizes differ in nothing but their names.
Symmetry == Permutations(Routes) \cup Permutations(Sizes)

=============================================================================
