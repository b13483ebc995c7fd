----------------------------- MODULE RowMatching -----------------------------
(***************************************************************************)
(* The multiset comparison of two results of the same number of rows       *)
(* (evaluation/comparator.py, _unordered_rows_equal).  With a numeric      *)
(* tolerance "equal" is not transitive, so rows cannot be sorted or        *)
(* counted: the comparator looks for a pairing of the predicted rows with  *)
(* the gold rows.  It places one predicted row after the other on the      *)
(* first free gold row it equals; when there is none it searches breadth   *)
(* first for an alternating path to a free gold row and moves every row    *)
(* on the path to its next gold row.  One action is one round of one of    *)
(* the three loops.                                                        *)
(***************************************************************************)
EXTENDS Integers, Sequences, FiniteSets

CONSTANT N                    \* rows of either result

NAssumption == N \in Nat \ {0}

Rows == 1..N
NoRow == 0

VARIABLES adjacency,          \* predicted row -> the gold rows it equals
          pc,                 \* "place", "search", "move" or "done"
          start,              \* the predicted row being placed
          matched,            \* gold row -> the predicted row on it
          pending,            \* the search's queue of predicted rows
          next,               \* its position, pending_index
          seenGold,
          parent, incoming,   \* how the search came to a predicted row
          current,            \* the predicted row to move, and
          target,             \* the gold row to move it to
          answer              \* "none", "equal" or "different"

search == <<pending, next, seenGold, parent, incoming>>
vars == <<adjacency, pc, start, matched, search, current, target, answer>>

IsLeast(g, S) == g \in S /\ \A h \in S : g <= h
Queued == {pending[i] : i \in 1..Len(pending)}
NotSeen == adjacency[pending[next]] \ seenGold
FreeOptions == {g \in adjacency[start] : matched[g] = NoRow}

Init ==
    /\ adjacency \in [Rows -> SUBSET Rows]
    /\ pc = "place" /\ start = 1 /\ answer = "none"
    /\ matched = [g \in Rows |-> NoRow]
    /\ pending = <<>> /\ next = 1 /\ seenGold = {}
    /\ parent = [p \in Rows |-> NoRow]
    /\ incoming = [p \in Rows |-> NoRow]
    /\ current = NoRow /\ target = NoRow

(* The first free option takes the row at once. *)
Direct(g) ==
    /\ pc = "place" /\ start \in Rows /\ IsLeast(g, FreeOptions)
    /\ matched' = [matched EXCEPT ![g] = start]
    /\ start' = start + 1
    /\ UNCHANGED <<adjacency, pc, search, current, target, answer>>

(* Every option is taken: a search begins with the row alone. *)
BeginSearch ==
    /\ pc = "place" /\ start \in Rows /\ FreeOptions = {}
    /\ pc' = "search"
    /\ pending' = <<start>> /\ next' = 1 /\ seenGold' = {}
    /\ parent' = [p \in Rows |-> NoRow]
    /\ incoming' = [p \in Rows |-> NoRow]
    /\ UNCHANGED <<adjacency, start, matched, current, target, answer>>

(* mutant: a taken option is never followed *)
FaultyVisitTaken(g) ==
    /\ pc = "search" /\ next <= Len(pending) /\ IsLeast(g, NotSeen)
    /\ matched[g] # NoRow
    /\ seenGold' = seenGold \union {g}
    /\ UNCHANGED <<adjacency, pc, start, matched, pending, next, parent,
                   incoming, current, target, answer>>

(* The next option is taken by another row, which is queued. *)
VisitTaken(g) ==
    /\ pc = "search" /\ next <= Len(pending) /\ IsLeast(g, NotSeen)
    /\ matched[g] # NoRow
    /\ seenGold' = seenGold \union {g}
    /\ IF matched[g] \in Queued
       THEN UNCHANGED <<pending, parent, incoming>>
       ELSE /\ pending' = Append(pending, matched[g])
            /\ parent' = [parent EXCEPT ![matched[g]] = pending[next]]
            /\ incoming' = [incoming EXCEPT ![matched[g]] = g]
    /\ UNCHANGED <<adjacency, pc, start, matched, next, current, target,
                   answer>>

(* The next option is free: the path ends here. *)
VisitFree(g) ==
    /\ pc = "search" /\ next <= Len(pending) /\ IsLeast(g, NotSeen)
    /\ matched[g] = NoRow
    /\ current' = pending[next] /\ target' = g
    /\ seenGold' = seenGold \union {g}
    /\ pc' = "move"
    /\ UNCHANGED <<adjacency, start, matched, pending, next, parent,
                   incoming, answer>>

(* mutant: the queue's position runs past its end *)
FaultyNextPending ==
    /\ pc = "search" /\ next <= Len(pending) /\ NotSeen = {}
    /\ next' = next + 2
    /\ UNCHANGED <<adjacency, pc, start, matched, pending, seenGold, parent,
                   incoming, current, target, answer>>

(* All options of this row are seen: the next row of the queue. *)
NextPending ==
    /\ pc = "search" /\ next <= Len(pending) /\ NotSeen = {}
    /\ next' = next + 1
    /\ UNCHANGED <<adjacency, pc, start, matched, pending, seenGold, parent,
                   incoming, current, target, answer>>

(* The queue is empty and no gold row was free. *)
NoPath ==
    /\ pc = "search" /\ next > Len(pending)
    /\ pc' = "done" /\ answer' = "different"
    /\ UNCHANGED <<adjacency, start, matched, search, current, target>>

(* mutant: the walk back places the first row on the free gold row *)
FaultyMove ==
    /\ pc = "move"
    /\ matched' = [matched EXCEPT ![target] = start]
    /\ pc' = "place" /\ start' = start + 1
    /\ current' = NoRow /\ target' = NoRow
    /\ UNCHANGED <<adjacency, search, answer>>

(* mutant: the walk back stays at its row *)
FaultyWalk ==
    /\ pc = "move"
    /\ matched' = [matched EXCEPT ![target] = current]
    /\ IF current = start
       THEN /\ pc' = "place" /\ start' = start + 1
            /\ current' = NoRow /\ target' = NoRow
       ELSE /\ target' = incoming[current]
            /\ UNCHANGED <<pc, start, current>>
    /\ UNCHANGED <<adjacency, search, answer>>

(* One row of the path moves; the gold row it leaves goes to its parent. *)
Move ==
    /\ pc = "move"
    /\ matched' = [matched EXCEPT ![target] = current]
    /\ IF current = start
       THEN /\ pc' = "place" /\ start' = start + 1
            /\ current' = NoRow /\ target' = NoRow
       ELSE /\ current' = parent[current] /\ target' = incoming[current]
            /\ UNCHANGED <<pc, start>>
    /\ UNCHANGED <<adjacency, search, answer>>

Finish ==
    /\ pc = "place" /\ start > N
    /\ pc' = "done" /\ answer' = "equal"
    /\ UNCHANGED <<adjacency, start, matched, search, current, target>>

Next ==
    \/ \E g \in Rows : Direct(g) \/ VisitTaken(g) \/ VisitFree(g)
    \/ BeginSearch \/ NextPending \/ NoPath \/ Move \/ Finish

Spec == Init /\ [][Next]_vars

-----------------------------------------------------------------------------
(* Pairings: what the comparison means.                                    *)

Pairings == {f \in [Rows -> Rows] :
                /\ \A p \in Rows : f[p] \in adjacency[p]
                /\ \A p, q \in Rows : f[p] = f[q] => p = q}

(* Values of the declared kinds. *)
TypeOK ==
    /\ adjacency \in [Rows -> SUBSET Rows]
    /\ pc \in {"place", "search", "move", "done"}
    /\ start \in 1..N + 1
    /\ matched \in [Rows -> Rows \union {NoRow}]
    /\ pending \in Seq(Rows) /\ next \in 1..Len(pending) + 1
    /\ seenGold \subseteq Rows
    /\ parent \in [Rows -> Rows \union {NoRow}]
    /\ incoming \in [Rows -> Rows \union {NoRow}]
    /\ current \in Rows \union {NoRow} /\ target \in Rows \union {NoRow}
    /\ answer \in {"none", "equal", "different"}

(* "The results match" is said exactly when some pairing of all the        *)
(* predicted rows with equal gold rows exists: the order in which rows     *)
(* come and the greedy choices made on the way never decide the verdict    *)
(* (_unordered_rows_equal).                                                *)
VerdictTrue ==
    /\ answer = "equal" => Pairings # {}
    /\ answer = "different" => Pairings = {}

(* Between two searches every predicted row placed so far sits on exactly  *)
(* one gold row, one that it equals, and no other row sits anywhere: a     *)
(* move along a path neither loses nor doubles a row.                      *)
AllPlaced ==
    pc = "place" =>
        /\ \A p \in 1..start - 1 :
              Cardinality({g \in Rows : matched[g] = p}) = 1
        /\ \A g \in Rows : matched[g] # NoRow =>
              matched[g] < start /\ g \in adjacency[matched[g]]

(* The verdict is that of the definition, on a placement that holds.       *)
AnswerRight == VerdictTrue /\ AllPlaced

=============================================================================
