------------------------------ MODULE JoinGraph ------------------------------
(***************************************************************************)
(* The graph of the foreign keys and what is computed on it                *)
(* (src/app/schema_linking/graph_search.py and rerank.py): shortest join   *)
(* paths by breadth-first search, the tables that are required bridges     *)
(* between tables with evidence, and the choice of at most top_k tables.   *)
(* A table is a number, its order that of the object IDs.  Of parallel     *)
(* keys one is kept and a key of a table to itself is left out: the search *)
(* never follows either.                                                   *)
(***************************************************************************)
EXTENDS Integers, Sequences, FiniteSets, SequencesExt, FiniteSetsExt

CONSTANT N      \* number of tables of the snapshot

GraphAssumption == N \in Nat \ {0}

Tables == 1 .. N
Pairs == {e \in SUBSET Tables : Cardinality(e) = 2}

\* Tuples compare as in the code, by the first place where they differ.
KeyBefore(p, q) ==
    \E i \in DOMAIN p : p[i] < q[i] /\ \A j \in 1 .. i - 1 : p[j] = q[j]

\* sorted(S, key = key) for keys that differ: so many come before the i-th.
ByKey(S, key) ==
    [i \in 1 .. Cardinality(S) |->
       CHOOSE a \in S :
           Cardinality({b \in S : KeyBefore(key[b], key[a])}) = i - 1]
Sorted(S) == ByKey(S, [a \in S |-> <<a>>])

\* The neighbours of a table, in the order of _foreign_key_graph.
Neighbours(keys, a) == {b \in Tables : {a, b} \in keys}

-----------------------------------------------------------------------------
(* Breadth-first search                                                    *)

\* Faulty variant: tables outside nodes are followed too.
FaultyFollow(keys, nodes, s) ==
    IF s.pending = <<>> THEN s
    ELSE LET a == Head(s.pending)
             new == Neighbours(keys, a) \ DOMAIN s.path
         IN  [pending |-> Tail(s.pending) \o Sorted(new),
              path    |-> [b \in DOMAIN s.path \cup new |->
                             IF b \in new THEN Append(s.path[a], b)
                             ELSE s.path[b]]]

\* One round: the first pending table, its neighbours not yet seen.
Follow(keys, nodes, s) ==
    IF s.pending = <<>> THEN s
    ELSE LET a == Head(s.pending)
             new == (Neighbours(keys, a) \cap nodes) \ DOMAIN s.path
         IN  [pending |-> Tail(s.pending) \o Sorted(new),
              path    |-> [b \in DOMAIN s.path \cup new |->
                             IF b \in new THEN Append(s.path[a], b)
                             ELSE s.path[b]]]

\* The search from a set of tables inside nodes, round by round, and the
\* path of every table found: no more than N can be pending in turn.
Rounds(keys, starts, nodes) ==
    LET after[i \in 0 .. N] ==
          IF i = 0 THEN [pending |-> Sorted(starts),
                         path    |-> [a \in starts |-> <<a>>]]
          ELSE Follow(keys, nodes, after[i - 1])
    IN  after
Search(keys, starts, nodes) == Rounds(keys, starts, nodes)[N].path

\* _shortest_path from a table to each it reaches, and _distances.
Paths(keys, a, nodes) == Search(keys, {a}, nodes)
Distances(keys, starts) ==
    LET path == Search(keys, starts, Tables)
    IN  [b \in DOMAIN path |-> Len(path[b]) - 1]

-----------------------------------------------------------------------------
(* Bridges                                                                 *)

\* Two tables with evidence are connected, and not without c.
RequiredBridge(keys, direct, c) ==
    \E left, right \in direct \ {c} :
        /\ left < right
        /\ right \in DOMAIN Paths(keys, left, Tables)
        /\ right \notin DOMAIN Paths(keys, left, Tables \ {c})

RequiredBridges(keys, direct, tables) ==
    {c \in tables \ direct : RequiredBridge(keys, direct, c)}

\* Length of the shortest way between two tables with evidence through c;
\* 2 * N stands for none.
PathEdges(keys, direct, c) ==
    LET far == Distances(keys, {c})
        through == {far[p[1]] + far[p[2]] : p \in
                      {q \in (direct \cap DOMAIN far) \X
                             (direct \cap DOMAIN far) : q[1] < q[2]}}
    IN  IF through = {} THEN 2 * N ELSE Min(through)

-----------------------------------------------------------------------------
(* Selection                                                               *)

\* _path_order: shorter first, then by the tables.
PathBefore(p, q) ==
    Len(p) < Len(q) \/ (Len(p) = Len(q) /\ KeyBefore(p, q))

\* The tables a candidate brings along: those of the best path to the
\* selection, or itself.
Additions(keys, chosen, c) ==
    LET path == Paths(keys, c, Tables)
        ends == chosen \cap DOMAIN path
        best == CHOOSE b \in ends : \A o \in ends \ {b} :
                    PathBefore(path[b], path[o])
    IN  IF chosen = {} \/ ends = {} THEN {c} ELSE ToSet(path[best]) \ chosen

\* Faulty variant: the path is taken whether or not it fits.
FaultyChosenAfter(keys, chosen, c, k) ==
    IF c \in chosen THEN chosen ELSE chosen \cup Additions(keys, chosen, c)

\* One round of _select_table_ids.
ChosenAfter(keys, chosen, c, k) ==
    LET more == Additions(keys, chosen, c)
    IN  IF c \in chosen THEN chosen
        ELSE IF Cardinality(chosen) + Cardinality(more) <= k
        THEN chosen \cup more
        ELSE IF Cardinality(chosen) < k THEN chosen \cup {c}
        ELSE chosen

\* _join_paths: the shortest path inside the selection of every pair.
JoinPaths(keys, chosen) ==
    UNION {{Paths(keys, a, chosen)[b] :
              b \in {d \in DOMAIN Paths(keys, a, chosen) : a < d}} :
           a \in chosen}
=============================================================================
