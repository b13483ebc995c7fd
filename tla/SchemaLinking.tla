---------------------------- MODULE SchemaLinking ----------------------------
(***************************************************************************)
(* link_schema (src/app/schema_linking/linker.py, fusion.py, rerank.py,    *)
(* authorization.py) as a request uses it: a first call with the widest    *)
(* top_k prepares a retrieval pool, the complexity of the question is      *)
(* decided from its result (src/app/workflow/complexity.py), and a second  *)
(* call with the top_k of that level checks the pool and selects from its  *)
(* reranked order.  Texts are left out: a table has a lexical score and a  *)
(* similarity, both small numbers, and fields that match or not.           *)
(***************************************************************************)
EXTENDS JoinGraph

CONSTANTS
    KeySets,        \* the sets of foreign keys a snapshot may have
    Scopes,         \* the sets of tables a profile may be allowed
    MaxScore,       \* bound: aggregate scores are 0 .. MaxScore
    MaxSimilarity,  \* bound: similarities are 0 .. MaxSimilarity
    CandidateLimit, \* RETRIEVAL_CANDIDATE_LIMIT
    RRF_K,
    ProbeTopK, MediumTopK, SimpleTopK,
    None

\* SchemaRetrievalPool; the fields of a table's evidence are left out.
Pool == [mode : {"hybrid", "bm25_only"}, embedding : Seq(Tables),
         fused : Seq(Tables), ranked : Seq(Tables), degraded : BOOLEAN,
         evidence : Seq(Tables), reranked : Seq(Tables)]

LinkingAssumption ==
    /\ KeySets \subseteq SUBSET Pairs /\ Scopes \subseteq SUBSET Tables
    /\ {MaxScore, MaxSimilarity} \subseteq Nat
    /\ {CandidateLimit, RRF_K} \subseteq Nat \ {0}
    /\ {ProbeTopK, MediumTopK, SimpleTopK} \subseteq Nat \ {0}
    /\ SimpleTopK <= MediumTopK /\ MediumTopK <= ProbeTopK
    /\ None \notin Pool

VARIABLES
    keys,           \* foreign keys of the snapshot
    allowed,        \* the tables of the authorized snapshot
    hybrid,         \* there is a retrieval runtime
    score,          \* aggregate_scores
    similarity,     \* best similarity of a table, 0 when it is not positive
    phase,          \* how far link_schema is
    call,           \* the first call or the second
    pool,           \* the retrieval pool
    rest,           \* ranked tables the selection has still to look at
    chosen,         \* selected_set
    results,        \* what the calls returned
    top_k           \* of the call

inputs == <<keys, allowed, hybrid, score, similarity>>
vars == <<inputs, phase, call, pool, rest, chosen, results, top_k>>

-----------------------------------------------------------------------------
(* Ranking                                                                 *)

\* Faulty variant: the keys of the whole snapshot.
FaultyVisible == keys

\* authorize_schema_snapshot: keys with both ends allowed.
Visible == {e \in keys : e \subseteq allowed}

PositiveIn(s) == {t \in allowed : s[t] > 0}
Positive == PositiveIn(score)

\* lexical_ranked_table_ids: by score, then by distance from those with one.
RankedBy(s) ==
    LET found == PositiveIn(s)
        far == Distances(Visible, found)
    IN  ByKey(allowed, [t \in allowed |->
            IF t \in found THEN <<0, -s[t], t>>
            ELSE IF t \in DOMAIN far THEN <<1, far[t], t>> ELSE <<2, 0, t>>])
LexicalRanked == RankedBy(score)

Least(x, y) == IF x <= y THEN x ELSE y
First(s, n) == SubSeq(s, 1, Least(n, Len(s)))
RankIn(s, t) == CHOOSE i \in DOMAIN s : s[i] = t

\* What a ranking has of S, in its order.
Kept(s, S) ==
    ByKey(ToSet(s) \cap S, [t \in ToSet(s) \cap S |-> <<RankIn(s, t)>>])

Lexical == First(Kept(LexicalRanked, Positive), CandidateLimit)

\* rank_embedding_index: positive similarities, ties by ID.
Embedded(s) ==
    First(ByKey(PositiveIn(s), [t \in PositiveIn(s) |-> <<-s[t], t>>]),
          CandidateLimit)

\* 1 / (RRF_K + rank), brought to a common denominator.
Scale == LET product[n \in 0 .. N] ==
                   IF n = 0 THEN 1 ELSE product[n - 1] * (RRF_K + n)
         IN  product[N]
Contribution(s, t) == IF t \in ToSet(s) THEN Scale \div (RRF_K + RankIn(s, t))
                      ELSE 0

\* Faulty variant: the embedding's contribution replaces the lexical one.
FaultyFusionScore(a, b, t) ==
    IF t \in ToSet(b) THEN Contribution(b, t) ELSE Contribution(a, t)

FusionScore(a, b, t) == Contribution(a, t) + Contribution(b, t)

\* reciprocal_rank_fusion of the two channels.
Fused(a, b) ==
    LET both == ToSet(a) \cup ToSet(b)
    IN  ByKey(both, [t \in both |-> <<-FusionScore(a, b, t), t>>])

\* Faulty variant: the rest by ID.
FaultyWithRemainder(s, all) == s \o Sorted(ToSet(all) \ ToSet(s))

\* _ranked_with_lexical_remainder, and the same after reranking.
WithRemainder(s, all) == s \o Kept(all, ToSet(all) \ ToSet(s))

-----------------------------------------------------------------------------
(* The first call                                                          *)

Unset == [t \in Tables |-> 0]

Init ==
    /\ keys \in KeySets /\ allowed \in Scopes /\ hybrid \in BOOLEAN
    /\ score = Unset /\ similarity = Unset
    /\ phase = "start" /\ call = 1 /\ pool = None /\ rest = <<>>
    /\ chosen = {} /\ results = <<>> /\ top_k = ProbeTopK

\* The lexical channel.
Score ==
    /\ phase = "start"
    /\ \E s \in [allowed -> 0 .. MaxScore] :
        /\ score' = [t \in Tables |-> IF t \in allowed THEN s[t] ELSE 0]
        /\ IF hybrid THEN phase' = "scored" /\ UNCHANGED rest
           ELSE phase' = "select" /\ rest' = RankedBy(s)
    /\ UNCHANGED <<keys, allowed, hybrid, similarity, call, pool, chosen,
                   results, top_k>>

\* What the pool is made of, before reranking.
Fresh(mode, embedded) ==
    [mode      |-> mode,
     embedding |-> embedded,
     fused     |-> Fused(Lexical, embedded),
     ranked    |-> WithRemainder(Fused(Lexical, embedded), LexicalRanked),
     degraded  |-> FALSE,
     evidence  |-> <<>>,
     reranked  |-> <<>>]

\* The index is there and the query was embedded.
Embed ==
    /\ phase = "scored"
    /\ \E s \in [allowed -> 0 .. MaxSimilarity] :
        /\ similarity' = [t \in Tables |-> IF t \in allowed THEN s[t] ELSE 0]
        /\ pool' = Fresh("hybrid", Embedded(s))
    /\ phase' = "fused"
    /\ UNCHANGED <<keys, allowed, hybrid, score, call, rest, chosen, results,
                   top_k>>

Degradations == {"timeout", "connection", "rate_limited", "invalid_response"}

\* The embedding failed: without a lexical result the call fails.
EmbeddingFails ==
    /\ phase = "scored"
    /\ \E e \in Degradations \cup {"http_error", "invalid_input"} :
        IF Lexical # <<>> /\ e \in Degradations
        THEN phase' = "fused" /\ pool' = Fresh("bm25_only", <<>>)
        ELSE phase' = "failed" /\ UNCHANGED pool
    /\ UNCHANGED <<inputs, call, rest, chosen, results, top_k>>

\* raw_direct_evidence_table_ids
Direct == (Positive \cup ToSet(pool.embedding)) \cap ToSet(pool.fused)

\* What is reranked: the fused tables and the bridges among them.
Bridges == RequiredBridges(Visible, Direct, allowed)

\* Faulty variant: only what the embedding found is reranked.
FaultyRerankInput == ToSet(pool.embedding) \cup Bridges
RerankInput == ToSet(pool.fused) \cup Bridges

\* Faulty variant: bridges are ranked like any other table.
FaultyIsBridge(t) == FALSE
IsBridge(t) == RequiredBridge(Visible, Direct, t)

\* _Features.sort_key; matched are the tables with a field or alias that
\* matches (the code counts them).
SortKey(t, matched, grain) ==
    <<IF IsBridge(t) THEN 0 ELSE 1,
      IF t \in matched THEN 0 ELSE 1,
      PathEdges(Visible, Direct, t),
      IF t \in grain THEN 0 ELSE 1,
      -FusionScore(Lexical, pool.embedding, t),
      t>>

\* SchemaRetrievalPool.__post_init__, for what link_schema builds.
PoolValid(p) ==
    /\ IsInjective(p.ranked) /\ IsInjective(p.reranked)
    /\ ToSet(p.ranked) = ToSet(p.reranked)
    /\ ToSet(p.fused) \subseteq ToSet(p.evidence)
    /\ ToSet(p.evidence) \subseteq ToSet(p.ranked)
    /\ p.evidence = First(p.reranked, Len(p.evidence))
    /\ p.mode = "bm25_only" => p.embedding = <<>>

\* The pool is built, or its own validation raises.
Pools(order, degraded) ==
    \E p \in {[pool EXCEPT !.evidence = order, !.degraded = degraded,
                           !.reranked = WithRemainder(order, pool.ranked)]} :
        IF PoolValid(p)
        THEN pool' = p /\ phase' = "select" /\ rest' = p.ranked
        ELSE phase' = "raised" /\ UNCHANGED <<pool, rest>>

\* A table with a field that matches has a score or a similarity.
Matching == {t \in RerankInput : t \in Positive \/ similarity[t] > 0}

\* rerank_schema_candidates
Rerank ==
    /\ phase = "fused"
    /\ \E matched \in SUBSET Matching : \E grain \in {{}, matched} :
       \E key \in {[t \in RerankInput |-> SortKey(t, matched, grain)]} :
       \E order \in {ByKey(RerankInput, key)} :
          Pools(order, FALSE)
    /\ UNCHANGED <<inputs, call, chosen, results, top_k>>

\* Any exception while reranking: fallback_rerank_outcome.
RerankFails ==
    /\ phase = "fused" /\ Pools(pool.fused, TRUE)
    /\ UNCHANGED <<inputs, call, chosen, results, top_k>>

-----------------------------------------------------------------------------
(* Selection and result                                                    *)

HasEvidence == Positive # {} \/ (pool # None /\ pool.embedding # <<>>)

\* One candidate of _select_table_ids.
Select ==
    /\ phase = "select" /\ HasEvidence /\ rest # <<>>
    /\ Cardinality(chosen) # top_k
    /\ chosen' = ChosenAfter(Visible, chosen, Head(rest), top_k)
    /\ rest' = Tail(rest)
    /\ UNCHANGED <<inputs, phase, call, pool, results, top_k>>

\* The result: the selected tables and the paths between them.
Result ==
    /\ phase = "select"
    /\ LET tables == IF HasEvidence THEN chosen ELSE ToSet(First(rest, top_k))
       IN  /\ HasEvidence => rest = <<>> \/ Cardinality(chosen) = top_k
           /\ results' = Append(results,
                [tables |-> tables, top_k |-> top_k,
                 paths  |-> JoinPaths(Visible, tables)])
    /\ phase' = IF call = 1 THEN "route" ELSE "done"
    /\ rest' = <<>> /\ chosen' = {}
    /\ UNCHANGED <<inputs, call, pool, top_k>>

-----------------------------------------------------------------------------
(* Complexity and the second call                                          *)

\* CandidateTable.score > 0
Scored(tables) ==
    {t \in tables : t \in Positive \/ (pool # None /\ t \in ToSet(pool.fused))}

\* decide_complexity: phrases of the question, positive tables, join paths.
HighReason(r, positive) ==
    \E p \in r.paths : Len(p) > 2 /\ Cardinality(ToSet(p) \cap positive) > 1
MediumReasons(r, positive) ==
    (IF Cardinality(positive) > 1 THEN {"multiple_positive_tables"} ELSE {})
    \cup (IF \E p \in r.paths : Cardinality(ToSet(p) \cap positive) > 1
          THEN {"relevant_join_path"} ELSE {})

Level(r, high, medium) ==
    LET positive == Scored(r.tables)
        reasons == MediumReasons(r, positive) \cup medium
    IN  IF high \/ HighReason(r, positive) \/ Cardinality(reasons) > 1
        THEN "complex"
        ELSE IF reasons # {} THEN "medium" ELSE "simple"

Route ==
    /\ phase = "route"
    /\ \E high \in BOOLEAN, medium \in {{}, {"aggregation"}} :
        LET level == Level(results[1], high, medium)
        IN  top_k' = CASE level = "complex" -> ProbeTopK
                       [] level = "medium"  -> MediumTopK
                       [] OTHER             -> SimpleTopK
    /\ phase' = "again" /\ call' = 2
    /\ UNCHANGED <<inputs, pool, rest, chosen, results>>

\* _validate_prepared_pool_contents: the pool is computed again from the
\* lexical channel of this call and the ranks in its own evidence.
Prepared ==
    /\ ToSet(pool.ranked) = allowed
    /\ pool.mode = "bm25_only" => pool.embedding = <<>> /\ Lexical # <<>>
    /\ pool.fused = Fused(Lexical, pool.embedding)
    /\ pool.ranked = WithRemainder(pool.fused, LexicalRanked)

Relink ==
    /\ phase = "again"
    /\ IF ~hybrid THEN phase' = "select" /\ rest' = LexicalRanked
       ELSE IF Prepared THEN phase' = "select" /\ rest' = pool.reranked
       ELSE phase' = "raised" /\ UNCHANGED rest
    /\ UNCHANGED <<inputs, call, pool, chosen, results, top_k>>

Next ==
    \/ Score \/ Embed \/ EmbeddingFails \/ Rerank \/ RerankFails
    \/ Select \/ Result \/ Route \/ Relink

Spec == Init /\ [][Next]_vars

-----------------------------------------------------------------------------
(* Properties                                                              *)

TypeOK ==
    /\ keys \subseteq Pairs /\ allowed \subseteq Tables /\ hybrid \in BOOLEAN
    /\ score \in [Tables -> 0 .. MaxScore]
    /\ similarity \in [Tables -> 0 .. MaxSimilarity]
    /\ phase \in {"start", "scored", "fused", "select", "route", "again",
                  "done", "failed", "raised"}
    /\ pool \in Pool \cup {None}
    /\ call \in {1, 2} /\ top_k \in {ProbeTopK, MediumTopK, SimpleTopK}
    /\ ToSet(rest) \subseteq allowed /\ chosen \subseteq allowed
    /\ Len(results) <= 2

\* Neither the validation of the pool when it is built nor that of the second
\* call refuses what link_schema itself prepared: both would end the request.
PoolAccepted == phase # "raised"

\* Without embedding the order is that of the lexical search alone.
DegradedIsLexical ==
    pool # None /\ pool.mode = "bm25_only" => pool.ranked = LexicalRanked

\* A table that both channels rank before another is before it in the pool,
\* where a channel that does not know a table ranks it last.
FusionAgrees ==
    pool # None =>
        LET lexical == Lexical
        IN  \A a, b \in ToSet(pool.fused) :
                /\ Contribution(lexical, a) > Contribution(lexical, b)
                /\ Contribution(pool.embedding, a) >=
                        Contribution(pool.embedding, b)
                => RankIn(pool.ranked, a) < RankIn(pool.ranked, b)

\* A call returns as many tables as its budget and the scope allow.
BudgetUsed ==
    \A i \in DOMAIN results :
        Cardinality(results[i].tables) =
            Least(results[i].top_k, Cardinality(allowed))

\* The tables connected by keys inside a set of tables: no part of the set
\* that none of these keys leaves has one of the two alone.
Connected(tables) ==
    LET closed == {K \in SUBSET tables :
                     \A e \in keys : e \subseteq tables /\ e \cap K # {}
                                      => e \subseteq K}
    IN  {p \in tables \X tables :
           \A K \in closed : p[1] \in K => p[2] \in K}

\* Paths that stay inside a set of tables and connect exactly the pairs that
\* keys inside it connect; none is longer than any other way.
WellJoined(tables, paths) ==
    LET connected == Connected(tables)
    IN  /\ \A p \in paths :
              /\ ToSet(p) \subseteq tables /\ IsInjective(p)
              /\ \A j \in 1 .. Len(p) - 1 : {p[j], p[j + 1]} \in keys
              /\ \A q \in paths :
                    p[1] = q[1] /\ {q[Len(q)], p[Len(p)]} \in keys
                        => Len(p) <= Len(q) + 1
        /\ \A a, b \in tables :
              a < b => (<<a, b>> \in connected <=>
                 Cardinality({p \in paths : p[1] = a /\ p[Len(p)] = b}) = 1)

\* The join paths of a result join its tables as the keys between them do.
PathsConnect ==
    phase \in {"route", "done"} =>
        \A i \in DOMAIN results : WellJoined(results[i].tables, results[i].paths)

\* The tables that two tables with evidence cannot be joined without.
Needed ==
    LET whole == Connected(allowed)
    IN  {c \in allowed : \E a, b \in Direct \ {c} :
            <<a, b>> \in whole /\ <<a, b>> \notin Connected(allowed \ {c})}

\* Such a table is left out of a selection only for others of its kind, and
\* for what joins one of them to another table of the selection.
ForOthers(tables) ==
    LET needed == Needed
    IN  needed \subseteq tables
        \/ \A t \in tables \ needed :
              \E a \in needed \cap tables :
                  LET path == Paths(Visible, a, Tables)
                  IN  \E b \in (tables \cap DOMAIN path) \ {t} :
                          t \in ToSet(path[b])

\* So it is with what the second call selects from the reranked order.
BridgesKept ==
    phase = "done" /\ hybrid /\ ~pool.degraded => ForOthers(results[2].tables)

\* Nothing outside the scope of the profile is ranked, selected or joined
\* through.
ScopeKept ==
    /\ pool # None => ToSet(pool.ranked) = allowed
    /\ \A i \in DOMAIN results :
        /\ results[i].tables \subseteq allowed
        /\ \A p \in results[i].paths : ToSet(p) \subseteq allowed
=============================================================================
