-------------------------- MODULE EvaluationProofs --------------------------
(***************************************************************************)
(* What evaluates the answers judges them rightly: the multiset comparison *)
(* for any number of rows and any equality of rows, the comparison of two  *)
(* results of any size, one case for any suite and budget of repairs, and  *)
(* the audit for any number of cases, runs and commands.  Read against     *)
(* evaluation/comparator.py, evaluation/runner.py and                      *)
(* tools/run_pagila_evaluation.py.                                         *)
(***************************************************************************)
EXTENDS MCEvaluation, FiniteSetTheorems, TLAPS

(* The multiset comparison, _unordered_rows_equal.  The argument is        *)
(* Berge's and Hall's.  While rows are placed, and while a                 *)
(* path is moved, the rows placed so far sit injectively on gold rows they *)
(* equal, but for the gold row the next move overwrites (PlacedBut).  The  *)
(* queue holds the rows that alternating paths reach from the row being    *)
(* placed, and parent and incoming lead back to it (QueueOK).  When the    *)
(* queue is exhausted the rows in it have fewer equal gold rows, all seen, *)
(* than there are rows in it, so that no pairing exists.                   *)

(* All rows before start are placed, each once and on an equal row, without *)
(* counting the gold row t.                                                *)
PlacedBut(t) ==
    /\ \A g \in Rows : g # t /\ matched[g] # NoRow =>
           matched[g] < start /\ g \in adjacency[matched[g]]
    /\ \A g, h \in Rows :
           g # t /\ h # t /\ matched[g] # NoRow /\ matched[g] = matched[h]
               => g = h
    /\ \A p \in 1..start - 1 : \E g \in Rows : g # t /\ matched[g] = p

(* The queue begins with start, has no row twice, and each other row was   *)
(* reached from an earlier one, over a gold row that one equals.           *)
QueueOK ==
    /\ start \in Rows /\ Len(pending) >= 1 /\ pending[1] = start
    /\ \A i, j \in 1..Len(pending) : pending[i] = pending[j] => i = j
    /\ \A i \in 2..Len(pending) :
           /\ incoming[pending[i]] \in Rows
           /\ \E j \in 1..i - 1 :
                  /\ parent[pending[i]] = pending[j]
                  /\ incoming[pending[i]] \in adjacency[pending[j]]

(* The first k rows of the queue still sit where the search met them.      *)
SitUpTo(k) ==
    \A i \in 2..k : matched[incoming[pending[i]]] = pending[i]

PlaceOK == PlacedBut(NoRow) /\ answer = "none"

SearchOK ==
    /\ QueueOK /\ SitUpTo(Len(pending))
    /\ \A g \in seenGold : matched[g] \in Queued
    /\ \A i \in 1..next - 1 : adjacency[pending[i]] \subseteq seenGold

(* The walk back has reached the k-th row of the queue.                    *)
MoveOK ==
    /\ QueueOK /\ answer = "none"
    /\ target \in Rows /\ PlacedBut(target)
    /\ \E k \in 1..Len(pending) :
           /\ current = pending[k] /\ target \in adjacency[current]
           /\ SitUpTo(k)
           /\ \/ matched[target] = NoRow
              \/ \E j \in k + 1..Len(pending) : matched[target] = pending[j]

IInv ==
    /\ TypeOK
    /\ pc \in {"place", "search"} => PlaceOK
    /\ pc = "search" => SearchOK
    /\ pc = "move" => MoveOK
    /\ pc = "done" => VerdictTrue

-----------------------------------------------------------------------------
(* The search takes its way back with it.                                  *)

(* A row that takes the next place on the queue keeps the queue as it must *)
(* be, when it was reached from the row the search is at.                  *)
LEMMA QueueGrows ==
    ASSUME NAssumption, TypeOK, SearchOK, PlacedBut(NoRow),
           NEW g \in Rows, VisitTaken(g), matched[g] \notin Queued
    PROVE  QueueOK' /\ SitUpTo(Len(pending))'
<1> DEFINE p == matched[g]
           L == Len(pending)
<1>1. /\ pending' = Append(pending, p)
      /\ parent' = [parent EXCEPT ![p] = pending[next]]
      /\ incoming' = [incoming EXCEPT ![p] = g]
      /\ UNCHANGED <<adjacency, start, matched>>
      /\ g \in adjacency[pending[next]] /\ next \in 1..L /\ p \in Rows
  BY DEF VisitTaken, TypeOK, IsLeast, NotSeen, NoRow
<1>2. /\ L \in Nat /\ Len(pending') = L + 1 /\ pending'[L + 1] = p
      /\ \A i \in 1..L : /\ pending'[i] = pending[i]
                        /\ pending[i] \in Rows /\ pending[i] # p
  BY <1>1 DEF TypeOK, Queued
<1>3. /\ parent'[p] = pending[next] /\ incoming'[p] = g
      /\ \A i \in 1..L : /\ parent'[pending[i]] = parent[pending[i]]
                        /\ incoming'[pending[i]] = incoming[pending[i]]
  BY <1>1, <1>2 DEF TypeOK
<1>4. QueueOK
  BY DEF SearchOK
<1>5. ASSUME NEW i \in 2..L + 1
      PROVE  /\ incoming'[pending'[i]] \in Rows
             /\ \E j \in 1..i - 1 :
                    /\ parent'[pending'[i]] = pending'[j]
                    /\ incoming'[pending'[i]] \in adjacency'[pending'[j]]
  <2>1. CASE i = L + 1
    BY <1>1, <1>2, <1>3, <2>1
  <2>2. CASE i # L + 1
    <3>1. i \in 2..L
      BY <1>2, <2>2
    <3>2. PICK j \in 1..i - 1 :
                         /\ parent[pending[i]] = pending[j]
                         /\ incoming[pending[i]] \in adjacency[pending[j]]
      BY <1>4, <3>1 DEF QueueOK
    <3>3. i \in 1..L /\ j \in 1..L /\ incoming[pending[i]] \in Rows
      BY <1>2, <1>4, <3>1 DEF QueueOK
    <3>4. pending'[i] = pending[i] /\ pending'[j] = pending[j]
      BY <1>2, <3>3
    <3>5. /\ parent'[pending[i]] = pending[j]
          /\ incoming'[pending[i]] = incoming[pending[i]]
      BY <1>3, <3>2, <3>3
    <3> QED
      BY <1>1, <3>2, <3>3, <3>4, <3>5
  <2> QED
    BY <2>1, <2>2
<1>6. \A i, j \in 1..L + 1 : pending'[i] = pending'[j] => i = j
  BY <1>2, <1>4 DEF QueueOK
<1>7. QueueOK'
  <2>1. start' \in Rows /\ Len(pending') >= 1 /\ pending'[1] = start'
    BY <1>1, <1>2, <1>4 DEF QueueOK
  <2> QED
    BY <1>2, <1>5, <1>6, <2>1 DEF QueueOK
<1>8. ASSUME NEW i \in 2..L + 1
      PROVE  matched'[incoming'[pending'[i]]] = pending'[i]
  <2>1. CASE i = L + 1
    BY <1>1, <1>2, <1>3, <2>1
  <2>2. CASE i # L + 1
    BY <1>1, <1>2, <1>3, <2>2 DEF SearchOK, SitUpTo
  <2> QED
    BY <2>1, <2>2
<1> QED
  BY <1>2, <1>7, <1>8 DEF SitUpTo

(* The row that is moved next still sits on the gold row it is to leave,   *)
(* which is not the one it is moved to.                                    *)
LEMMA PathStands ==
    ASSUME TypeOK, MoveOK, current # start
    PROVE  \E k \in 2..Len(pending) : \E j \in 1..k - 1 :
               /\ current = pending[k] /\ current \in Rows
               /\ parent[current] = pending[j]
               /\ incoming[current] \in Rows \ {target}
               /\ incoming[current] \in adjacency[pending[j]]
               /\ matched[incoming[current]] = current
               /\ \A i \in 2..j : /\ incoming[pending[i]] \in Rows \ {target}
                                 /\ matched[incoming[pending[i]]] = pending[i]
<1>1. QueueOK /\ TypeOK
  BY DEF MoveOK
<1>2. PICK k \in 1..Len(pending) :
          /\ current = pending[k] /\ SitUpTo(k)
          /\ \/ matched[target] = NoRow
             \/ \E j \in k + 1..Len(pending) : matched[target] = pending[j]
  BY DEF MoveOK
<1>3. Len(pending) \in Nat /\ \A i \in 1..Len(pending) : pending[i] \in Rows
  BY <1>1 DEF TypeOK
<1>4. k \in 2..Len(pending) /\ k \in Nat
  BY <1>1, <1>2, <1>3 DEF QueueOK
<1>5. \A i \in 2..k : /\ matched[incoming[pending[i]]] = pending[i]
                     /\ incoming[pending[i]] \in Rows
  BY <1>1, <1>2, <1>3, <1>4 DEF SitUpTo, QueueOK
<1>6. \A i \in 2..k : matched[target] # pending[i]
  BY <1>1, <1>2, <1>3, <1>4 DEF QueueOK, NoRow, Rows
<1>7. PICK j \in 1..k - 1 : /\ parent[pending[k]] = pending[j]
                           /\ incoming[pending[k]] \in adjacency[pending[j]]
  BY <1>1, <1>4 DEF QueueOK
<1>8. \A i \in 2..j : i \in 2..k
  BY <1>4, <1>7
<1> QED
  BY <1>2, <1>3, <1>4, <1>5, <1>6, <1>7, <1>8

(* Moving a row that has left its gold row loses no row and doubles none.  *)
LEMMA RowsMoved ==
    ASSUME TypeOK, NEW t \in Rows, PlacedBut(t), NEW p \in Rows,
           t \in adjacency[p], NEW u \in Rows \ {t}, matched[u] = p,
           matched' = [matched EXCEPT ![t] = p],
           UNCHANGED <<adjacency, start>>
    PROVE  PlacedBut(u)'
<1>1. /\ matched'[t] = p /\ p # NoRow
      /\ \A g \in Rows : g # t => matched'[g] = matched[g]
  BY DEF TypeOK, Rows, NoRow
<1>2. p < start
  BY DEF PlacedBut, Rows, NoRow
<1>3. \A g \in Rows : g # u /\ matched'[g] # NoRow =>
          matched'[g] < start /\ g \in adjacency[matched'[g]]
  BY <1>1, <1>2 DEF PlacedBut
<1>4. \A g, h \in Rows :
          g # u /\ h # u /\ matched'[g] # NoRow /\ matched'[g] = matched'[h]
              => g = h
  BY <1>1 DEF PlacedBut
<1>5. \A q \in 1..start - 1 : \E g \in Rows : g # u /\ matched'[g] = q
  BY <1>1 DEF PlacedBut
<1> QED
  BY <1>3, <1>4, <1>5 DEF PlacedBut

(* Placing the new row at last: every row up to it is placed.              *)
LEMMA RowPlaced ==
    ASSUME TypeOK, start \in Rows,
           NEW g \in Rows, g \in adjacency[start],
           PlacedBut(g),
           matched' = [matched EXCEPT ![g] = start],
           start' = start + 1, UNCHANGED adjacency
    PROVE  PlacedBut(NoRow)'
<1>1. /\ matched'[g] = start /\ start # NoRow /\ start \in Int
      /\ \A h \in Rows : h # g => matched'[h] = matched[h]
      /\ \A h \in Rows : matched[h] \in Int
  BY DEF TypeOK, Rows, NoRow
<1>2. /\ \A h \in Rows : h # g /\ matched[h] # NoRow =>
             matched[h] < start /\ h \in adjacency[matched[h]]
      /\ \A h, k \in Rows :
             h # g /\ k # g /\ matched[h] # NoRow /\ matched[h] = matched[k]
                 => h = k
      /\ \A q \in 1..start - 1 : \E h \in Rows : h # g /\ matched[h] = q
  BY <1>1 DEF PlacedBut, NoRow, Rows
<1>3. \A h \in Rows : h # NoRow /\ matched'[h] # NoRow =>
          matched'[h] < start + 1 /\ h \in adjacency[matched'[h]]
  <2>1. ASSUME NEW h \in Rows, h # g, matched'[h] # NoRow
        PROVE  matched'[h] < start + 1 /\ h \in adjacency[matched'[h]]
    <3>1. matched[h] < start /\ h \in adjacency[matched[h]]
      BY <1>1, <1>2, <2>1
    <3> QED
      BY <1>1, <2>1, <3>1
  <2>2. matched'[g] < start + 1 /\ g \in adjacency[matched'[g]]
    BY <1>1
  <2> QED
    BY <2>1, <2>2
<1>4. \A h, k \in Rows :
          h # NoRow /\ k # NoRow /\ matched'[h] # NoRow
              /\ matched'[h] = matched'[k] => h = k
  BY <1>1, <1>2
<1>5. ASSUME NEW q \in 1..start
      PROVE  \E h \in Rows : h # NoRow /\ matched'[h] = q
  <2>1. CASE q = start
    BY <1>1, <2>1 DEF Rows, NoRow
  <2>2. CASE q # start
    <3>1. PICK h \in Rows : h # g /\ matched[h] = q
      BY <1>1, <1>2, <2>2
    <3> QED
      BY <1>1, <3>1 DEF Rows, NoRow
  <2> QED
    BY <2>1, <2>2
<1>6. (start + 1) - 1 = start
  BY <1>1
<1> QED
  BY <1>3, <1>4, <1>5, <1>6 DEF PlacedBut

-----------------------------------------------------------------------------
(* The two verdicts.                                                       *)

(* When the queue is exhausted, a pairing would put its rows on the gold   *)
(* rows seen, and those hold one row of the queue less.                    *)
LEMMA NoPairing ==
    ASSUME NAssumption, TypeOK, PlacedBut(NoRow), SearchOK,
           next > Len(pending)
    PROVE  Pairings = {}
<1> SUFFICES ASSUME NEW f \in Pairings PROVE FALSE
  OBVIOUS
<1> DEFINE Others == Queued \ {start}
           Home == [p \in Queued |-> matched[f[p]]]
<1>1. /\ f \in [Rows -> Rows] /\ \A p \in Rows : f[p] \in adjacency[p]
      /\ \A p, q \in Rows : f[p] = f[q] => p = q
  BY DEF Pairings
<1>2. Len(pending) \in Nat /\ next = Len(pending) + 1
  BY DEF TypeOK
<1>3. Queued \subseteq Rows /\ start \in Queued
  BY <1>2 DEF TypeOK, Queued, SearchOK, QueueOK
<1>4. IsFiniteSet(Queued)
  <2>1. IsFiniteSet(Rows)
    BY FS_Interval DEF NAssumption, Rows
  <2> QED
    BY <1>3, <2>1, FS_Subset
<1>5. ASSUME NEW p \in Queued PROVE f[p] \in seenGold
  <2>1. PICK i \in 1..Len(pending) : pending[i] = p
    BY DEF Queued
  <2>2. adjacency[pending[i]] \subseteq seenGold
    BY <1>2 DEF SearchOK
  <2> QED
    BY <1>1, <1>3, <2>1, <2>2
<1>6. ASSUME NEW p \in Queued
      PROVE  /\ f[p] \in Rows /\ matched[f[p]] \in Others
             /\ matched[f[p]] # NoRow
  <2>1. f[p] \in Rows /\ matched[f[p]] \in Queued
    BY <1>1, <1>3, <1>5 DEF SearchOK
  <2>2. matched[f[p]] # NoRow /\ matched[f[p]] \in Int
    <3>1. \A r \in Rows : r # NoRow /\ r \in Int
      BY DEF Rows, NoRow
    <3>2. matched[f[p]] \in Rows
      BY <1>3, <2>1
    <3> QED
      BY <3>1, <3>2
  <2>3. matched[f[p]] < start /\ start \in Int
    BY <2>1, <2>2 DEF PlacedBut, TypeOK, NAssumption, NoRow, Rows
  <2> QED
    BY <2>1, <2>2, <2>3
<1>7. Home \in [Queued -> Others]
  BY <1>6
<1>8. IsFiniteSet(Others) /\ Cardinality(Others) < Cardinality(Queued)
  <2>1. Cardinality(Queued) \in Nat
    BY <1>4, FS_CardinalityType
  <2>2. Cardinality(Others) = Cardinality(Queued) - 1
    BY <1>3, <1>4, FS_RemoveElement
  <2>3. IsFiniteSet(Others)
    BY <1>4, FS_RemoveElement
  <2> QED
    BY <2>1, <2>2, <2>3
<1>9. \E p, q \in Queued : p # q /\ Home[p] = Home[q]
  <2> HIDE DEF Home, Others
  <2> QED
    BY <1>4, <1>7, <1>8, FS_PigeonHole
<1>10. PICK p, q \in Queued : p # q /\ matched[f[p]] = matched[f[q]]
  BY <1>9
<1>11. f[p] = f[q]
  BY <1>6, <1>10 DEF PlacedBut, Rows, NoRow
<1> QED
  BY <1>1, <1>3, <1>10, <1>11

(* When every row is placed, the placement is a pairing.                   *)
LEMMA SomePairing ==
    ASSUME NAssumption, TypeOK, PlacedBut(NoRow), start > N
    PROVE  Pairings # {}
<1> DEFINE f == [p \in Rows |-> CHOOSE g \in Rows : matched[g] = p]
<1>1. start - 1 = N
  BY DEF TypeOK, NAssumption
<1>2. ASSUME NEW p \in Rows
      PROVE  f[p] \in Rows /\ matched[f[p]] = p /\ p # NoRow
  <2>1. \E g \in Rows : matched[g] = p
    BY <1>1 DEF PlacedBut, Rows
  <2> QED
    BY <2>1 DEF Rows, NoRow
<1>3. \A p \in Rows : f[p] \in adjacency[p]
  BY <1>2 DEF PlacedBut, Rows, NoRow
<1>4. \A p, q \in Rows : f[p] = f[q] => p = q
  BY <1>2
<1>5. f \in [Rows -> Rows]
  BY <1>2
<1>6. f \in Pairings
  <2> HIDE DEF f
  <2> QED
    BY <1>3, <1>4, <1>5 DEF Pairings
<1> QED
  BY <1>6

-----------------------------------------------------------------------------
(* The invariant.                                                          *)

LEMMA TypesKept ==
    ASSUME NAssumption, IInv, Next
    PROVE  TypeOK'
<1>1. TypeOK
  BY DEF IInv
<1>2. ASSUME NEW g \in Rows, Direct(g) PROVE TypeOK'
  <2>1. start \in Rows /\ start' = start + 1 /\ start' \in 1..N + 1
    BY <1>2 DEF Direct, Rows, NAssumption
  <2> QED
    BY <1>1, <1>2, <2>1 DEF Direct, search, TypeOK
<1>3. ASSUME NEW g \in Rows, VisitTaken(g) PROVE TypeOK'
  <2>1. /\ matched[g] \in Rows /\ pending[next] \in Rows
        /\ Len(pending) \in Nat /\ next \in 1..Len(pending)
    BY <1>1, <1>3 DEF VisitTaken, TypeOK
  <2>2. /\ pending' \in Seq(Rows) /\ next' \in 1..Len(pending') + 1
        /\ parent' \in [Rows -> Rows \union {NoRow}]
        /\ incoming' \in [Rows -> Rows \union {NoRow}]
    <3>1. CASE matched[g] \in Queued
      BY <1>1, <1>3, <3>1 DEF VisitTaken, TypeOK
    <3>2. CASE matched[g] \notin Queued
      <4>1. Len(pending') = Len(pending) + 1
        BY <1>1, <1>3, <2>1, <3>2 DEF VisitTaken, TypeOK
      <4>2. pending' = Append(pending, matched[g]) /\ pending \in Seq(Rows)
        BY <1>1, <1>3, <3>2 DEF VisitTaken, TypeOK
      <4>3. pending' \in Seq(Rows) /\ next' \in 1..Len(pending') + 1
        BY <1>3, <2>1, <4>1, <4>2 DEF VisitTaken
      <4>4. /\ parent' \in [Rows -> Rows \union {NoRow}]
            /\ incoming' \in [Rows -> Rows \union {NoRow}]
        BY <1>1, <1>3, <2>1, <3>2 DEF VisitTaken, TypeOK
      <4> QED
        BY <4>3, <4>4
    <3> QED
      BY <3>1, <3>2
  <2> QED
    BY <1>1, <1>3, <2>2 DEF VisitTaken, TypeOK
<1>4. ASSUME NEW g \in Rows, VisitFree(g) PROVE TypeOK'
  BY <1>1, <1>4 DEF VisitFree, TypeOK
<1>5. CASE BeginSearch
  <2>1. start \in Rows /\ pending' = <<start>> /\ next' = 1
    BY <1>5 DEF BeginSearch
  <2>2. pending' \in Seq(Rows) /\ next' \in 1..Len(pending') + 1
    BY <2>1
  <2> QED
    BY <1>1, <1>5, <2>2 DEF BeginSearch, TypeOK
<1>6. CASE NextPending
  <2>1. Len(pending) \in Nat /\ next' \in 1..Len(pending) + 1
    BY <1>1, <1>6 DEF NextPending, TypeOK
  <2> QED
    BY <1>1, <1>6, <2>1 DEF NextPending, TypeOK
<1>7. CASE NoPath
  BY <1>1, <1>7 DEF NoPath, search, TypeOK
<1>8. CASE Move
  <2>1. MoveOK
    BY <1>8 DEF IInv, Move
  <2>2. /\ target \in Rows /\ current \in Rows
        /\ start \in Rows
    BY <1>1, <2>1 DEF MoveOK, QueueOK, TypeOK
  <2>3. CASE current = start
    <3>1. start' \in 1..N + 1 /\ pc' = "place"
          /\ current' = NoRow /\ target' = NoRow
      BY <1>8, <2>2, <2>3 DEF Move, Rows, NAssumption
    <3> QED
      BY <1>1, <1>8, <2>2, <3>1 DEF Move, search, TypeOK
  <2>4. CASE current # start
    BY <1>1, <1>8, <2>2, <2>4 DEF Move, search, TypeOK
  <2> QED
    BY <2>3, <2>4
<1>9. CASE Finish
  BY <1>1, <1>9 DEF Finish, search, TypeOK
<1> QED
  BY <1>2, <1>3, <1>4, <1>5, <1>6, <1>7, <1>8, <1>9 DEF Next

(* The invariant holds initially and every round of the loops keeps it.    *)
LEMMA InvariantKept ==
    ASSUME NAssumption, IInv, [Next]_vars
    PROVE  IInv'
<1>1. CASE UNCHANGED vars
  BY <1>1 DEF vars, search, IInv, TypeOK, PlaceOK, SearchOK, MoveOK,
      PlacedBut, QueueOK, SitUpTo, Queued, VerdictTrue, Pairings
<1>2. ASSUME Next PROVE TypeOK /\ TypeOK'
  BY <1>2, TypesKept DEF IInv
<1>3. ASSUME NEW g \in Rows, Direct(g) PROVE IInv'
  <2>1. /\ PlacedBut(NoRow) /\ answer = "none" /\ pc' = "place"
        /\ start \in Rows /\ g \in adjacency[start] /\ matched[g] = NoRow
    BY <1>3 DEF IInv, PlaceOK, Direct, IsLeast, FreeOptions
  <2>2. PlacedBut(NoRow)'
    <3>1. PlacedBut(g)
      <4>1. \A h \in Rows : h # NoRow
        BY DEF Rows, NoRow
      <4>2. start \in Int /\ \A p \in 1..start - 1 : p # NoRow
        BY <2>1 DEF Rows, NoRow
      <4> QED
        BY <2>1, <4>1, <4>2 DEF PlacedBut
    <3> QED
      BY <1>2, <1>3, <2>1, <3>1, RowPlaced DEF Direct, Next
  <2> QED
    BY <1>2, <1>3, <2>1, <2>2 DEF IInv, PlaceOK, Direct, Next
<1>4. CASE BeginSearch
  <2>1. /\ PlacedBut(NoRow) /\ answer = "none" /\ pc' = "search"
        /\ start \in Rows /\ pending' = <<start>>
        /\ next' = 1 /\ seenGold' = {}
        /\ UNCHANGED <<adjacency, start, matched, answer>>
    BY <1>4 DEF IInv, PlaceOK, BeginSearch
  <2>2. Len(pending') = 1 /\ pending'[1] = start /\ 2..1 = {} /\ 1..0 = {}
    BY <2>1
  <2>3. QueueOK' /\ SitUpTo(Len(pending))'
    BY <2>1, <2>2 DEF QueueOK, SitUpTo
  <2>4. SearchOK' /\ PlaceOK'
    BY <2>1, <2>2, <2>3 DEF SearchOK, PlaceOK, PlacedBut
  <2> QED
    BY <1>2, <1>4, <2>1, <2>4 DEF IInv, Next
<1>5. ASSUME NEW g \in Rows, VisitTaken(g) PROVE IInv'
  <2>1. /\ PlaceOK /\ SearchOK /\ pc' = "search"
        /\ g \in adjacency[pending[next]] /\ next \in 1..Len(pending)
        /\ matched[g] \in Rows
        /\ seenGold' = seenGold \union {g} /\ next' = next
        /\ UNCHANGED <<adjacency, start, matched, answer>>
    BY <1>2, <1>5 DEF IInv, VisitTaken, IsLeast, NotSeen, TypeOK, Next
  <2>2. PlaceOK'
    BY <2>1 DEF PlaceOK, PlacedBut
  <2>3. /\ QueueOK' /\ SitUpTo(Len(pending))'
        /\ Queued \union {matched[g]} \subseteq Queued'
        /\ \A i \in 1..next - 1 : pending'[i] = pending[i]
    <3>1. CASE matched[g] \in Queued
      BY <1>5, <2>1, <3>1
         DEF VisitTaken, SearchOK, QueueOK, SitUpTo, Queued
    <3>2. CASE matched[g] \notin Queued
      <4>1. QueueOK' /\ SitUpTo(Len(pending))'
        BY <1>2, <1>5, <2>1, <3>2, QueueGrows DEF PlaceOK, Next
      <4>2. /\ pending' = Append(pending, matched[g])
            /\ pending \in Seq(Rows) /\ Len(pending) \in Nat
        BY <1>2, <1>5, <3>2 DEF VisitTaken, TypeOK, Next
      <4>3. /\ Len(pending') = Len(pending) + 1
            /\ pending'[Len(pending) + 1] = matched[g]
            /\ \A i \in 1..Len(pending) : pending'[i] = pending[i]
        BY <2>1, <4>2
      <4> QED
        BY <2>1, <4>1, <4>2, <4>3 DEF Queued
    <3> QED
      BY <3>1, <3>2
  <2>4. \A h \in seenGold' : matched'[h] \in Queued'
    BY <2>1, <2>3 DEF SearchOK
  <2>5. \A i \in 1..next' - 1 : adjacency'[pending'[i]] \subseteq seenGold'
    BY <2>1, <2>3 DEF SearchOK
  <2> QED
    BY <1>2, <1>5, <2>1, <2>2, <2>3, <2>4, <2>5 DEF IInv, SearchOK, Next
<1>6. ASSUME NEW g \in Rows, VisitFree(g) PROVE IInv'
  <2>1. /\ PlaceOK /\ SearchOK /\ pc' = "move"
        /\ g \in adjacency[pending[next]] /\ next \in 1..Len(pending)
        /\ matched[g] = NoRow /\ current' = pending[next] /\ target' = g
        /\ UNCHANGED <<adjacency, start, matched, pending, parent, incoming,
                       answer>>
    BY <1>2, <1>6 DEF IInv, VisitFree, IsLeast, NotSeen, TypeOK, Next
  <2>2. QueueOK' /\ PlacedBut(g)' /\ answer' = "none"
    <3>1. QueueOK' /\ answer' = "none"
      BY <2>1 DEF PlaceOK, SearchOK, QueueOK
    <3>2. PlacedBut(g)
      <4>1. \A h \in Rows : h # NoRow
        BY DEF Rows, NoRow
      <4>2. start \in Int /\ \A p \in 1..start - 1 : p # NoRow
        BY <1>2, <1>6 DEF TypeOK, Next, NoRow
      <4> QED
        BY <2>1, <4>1, <4>2 DEF PlaceOK, PlacedBut
    <3> QED
      BY <2>1, <3>1, <3>2 DEF PlacedBut
  <2>3. PICK k \in 1..Len(pending) : k = next
    BY <2>1
  <2>4. SitUpTo(k)' /\ Len(pending) \in Nat
    BY <1>2, <1>6, <2>1, <2>3 DEF SearchOK, SitUpTo, TypeOK, Next
  <2>5. PlacedBut(target)'
    BY <2>1, <2>2 DEF PlacedBut
  <2>6. /\ k \in 1..Len(pending') /\ current' = pending'[k]
        /\ target' \in adjacency'[current'] /\ matched'[target'] = NoRow
        /\ target' \in Rows
    BY <2>1, <2>3
  <2>7. MoveOK'
    BY <2>2, <2>4, <2>5, <2>6 DEF MoveOK
  <2> QED
    BY <1>2, <1>6, <2>1, <2>7 DEF IInv, Next
<1>7. CASE NextPending
  <2>1. /\ PlaceOK /\ SearchOK /\ pc' = "search"
        /\ adjacency[pending[next]] \subseteq seenGold
        /\ next \in 1..Len(pending) /\ next' = next + 1
        /\ UNCHANGED <<adjacency, start, matched, pending, seenGold, parent,
                       incoming, answer>>
    BY <1>2, <1>7 DEF IInv, NextPending, NotSeen, TypeOK, Next
  <2>2. PlaceOK' /\ QueueOK' /\ SitUpTo(Len(pending))'
    BY <2>1 DEF PlaceOK, PlacedBut, SearchOK, QueueOK, SitUpTo
  <2>3. \A i \in 1..next' - 1 : adjacency[pending[i]] \subseteq seenGold
    BY <2>1 DEF SearchOK
  <2> QED
    BY <1>2, <1>7, <2>1, <2>2, <2>3 DEF IInv, SearchOK, Queued, Next
<1>8. CASE NoPath
  <2>1. /\ PlacedBut(NoRow) /\ SearchOK /\ next > Len(pending)
        /\ pc' = "done" /\ answer' = "different" /\ adjacency' = adjacency
    BY <1>8 DEF IInv, NoPath, PlaceOK
  <2>2. Pairings = {}
    BY <1>2, <1>8, <2>1, NoPairing DEF Next
  <2> QED
    BY <1>2, <1>8, <2>1, <2>2 DEF IInv, VerdictTrue, Pairings, Next
<1>9. CASE Move
  <2>1. /\ MoveOK /\ TypeOK /\ target \in Rows /\ start \in Rows
        /\ current \in Rows /\ target \in adjacency[current]
        /\ PlacedBut(target) /\ answer = "none"
        /\ matched' = [matched EXCEPT ![target] = current]
        /\ UNCHANGED <<adjacency, pending, parent, incoming, answer>>
    BY <1>2, <1>9 DEF IInv, Move, MoveOK, QueueOK, TypeOK, search, Next
  <2>2. CASE current = start
    <3>1. pc' = "place" /\ start' = start + 1
      BY <1>9, <2>2 DEF Move
    <3>0. PICK t \in Rows : t = target
      BY <2>1
    <3>2. PlacedBut(NoRow)'
      <4>1. PlacedBut(t) /\ t \in adjacency[start]
        BY <2>1, <2>2, <3>0 DEF PlacedBut
      <4>2. matched' = [matched EXCEPT ![t] = start]
        BY <2>1, <2>2, <3>0
      <4>3. TypeOK /\ start \in Rows /\ adjacency' = adjacency
        BY <2>1
      <4> QED
        BY <3>0, <3>1, <4>1, <4>2, <4>3, RowPlaced
    <3> QED
      BY <1>2, <1>9, <2>1, <3>1, <3>2 DEF IInv, PlaceOK, Next
  <2>3. CASE current # start
    <3>1. /\ current' = parent[current] /\ target' = incoming[current]
          /\ pc' = "move" /\ start' = start
      BY <1>9, <2>3 DEF Move, IInv
    <3>20. PICK k \in 2..Len(pending) : \E j \in 1..k - 1 :
               /\ current = pending[k]
               /\ parent[current] = pending[j]
               /\ incoming[current] \in Rows \ {target}
               /\ incoming[current] \in adjacency[pending[j]]
               /\ matched[incoming[current]] = current
               /\ \A i \in 2..j : /\ incoming[pending[i]] \in Rows \ {target}
                                 /\ matched[incoming[pending[i]]] = pending[i]
      BY <2>1, <2>3, PathStands
    <3>2. PICK j \in 1..k - 1 :
               /\ current = pending[k]
               /\ parent[current] = pending[j]
               /\ incoming[current] \in Rows \ {target}
               /\ incoming[current] \in adjacency[pending[j]]
               /\ matched[incoming[current]] = current
               /\ \A i \in 2..j : /\ incoming[pending[i]] \in Rows \ {target}
                                 /\ matched[incoming[pending[i]]] = pending[i]
      BY <3>20
    <3>3. PlacedBut(target)'
      <4>1. PICK t \in Rows, p \in Rows, u \in Rows :
                 t = target /\ p = current /\ u = incoming[current]
        BY <2>1, <3>2
      <4>2. PlacedBut(t)
        BY <2>1, <4>1 DEF PlacedBut
      <4>3. PlacedBut(u)'
        BY <2>1, <3>1, <3>2, <4>1, <4>2, RowsMoved
      <4> QED
        BY <3>1, <4>1, <4>3 DEF PlacedBut
    <3>4. /\ QueueOK' /\ answer' = "none" /\ target' \in Rows
          /\ current' = pending[j] /\ target' \in adjacency[current']
      BY <2>1, <3>1, <3>2 DEF MoveOK, QueueOK
    <3>5. /\ \A i \in 2..j : matched'[incoming[pending[i]]] = pending[i]
          /\ matched'[target'] = pending[k]
      BY <2>1, <3>1, <3>2 DEF TypeOK
    <3>6. /\ j \in 1..Len(pending') /\ k \in j + 1..Len(pending')
      BY <2>1, <3>2 DEF TypeOK
    <3>7. SitUpTo(j)' /\ pending'[j] = pending[j] /\ pending'[k] = pending[k]
      BY <2>1, <3>5 DEF SitUpTo
    <3>8. MoveOK'
      BY <2>1, <3>3, <3>4, <3>5, <3>6, <3>7 DEF MoveOK
    <3> QED
      BY <1>2, <1>9, <3>1, <3>8 DEF IInv, Next
  <2> QED
    BY <2>2, <2>3
<1>10. CASE Finish
  <2>1. /\ PlacedBut(NoRow) /\ start > N
        /\ pc' = "done" /\ answer' = "equal" /\ adjacency' = adjacency
    BY <1>10 DEF IInv, Finish, PlaceOK
  <2>2. Pairings # {}
    BY <1>2, <1>10, <2>1, SomePairing DEF Next
  <2> QED
    BY <1>2, <1>10, <2>1, <2>2 DEF IInv, VerdictTrue, Pairings, Next
<1> QED
  BY <1>1, <1>3, <1>4, <1>5, <1>6, <1>7, <1>8, <1>9, <1>10 DEF Next

LEMMA InvariantBegins ==
    ASSUME NAssumption, Init
    PROVE  IInv
<1>1. TypeOK
  <2>1. <<>> \in Seq(Rows) /\ Len(<<>>) = 0 /\ 1 \in 1..0 + 1
        /\ 1 \in 1..N + 1
    BY DEF NAssumption
  <2> QED
    BY <2>1 DEF Init, TypeOK
<1>2. PlacedBut(NoRow)
  <2>1. start - 1 = 0 /\ 1..0 = {}
    BY DEF Init
  <2> QED
    BY <2>1 DEF Init, PlacedBut
<1> QED
  BY <1>1, <1>2 DEF Init, IInv, PlaceOK

(* What the invariant says of the answer and of the rows between searches. *)
LEMMA InvariantAnswers ==
    ASSUME NAssumption, IInv
    PROVE  AnswerRight
<1>1. VerdictTrue
  BY DEF IInv, PlaceOK, MoveOK, VerdictTrue, TypeOK
<1>2. ASSUME pc = "place", NEW p \in 1..start - 1
      PROVE  Cardinality({g \in Rows : matched[g] = p}) = 1
  <2>1. PlacedBut(NoRow) /\ p # NoRow
    BY <1>2 DEF IInv, PlaceOK, NoRow
  <2>2. PICK g \in Rows : matched[g] = p
    BY <2>1 DEF PlacedBut
  <2>3. {h \in Rows : matched[h] = p} = {g}
    BY <2>1, <2>2 DEF PlacedBut, Rows, NoRow
  <2> QED
    BY <2>3, FS_Singleton
<1>3. ASSUME pc = "place", NEW g \in Rows, matched[g] # NoRow
      PROVE  matched[g] < start /\ g \in adjacency[matched[g]]
  BY <1>3 DEF IInv, PlaceOK, PlacedBut, Rows, NoRow
<1> QED
  BY <1>1, <1>2, <1>3 DEF AnswerRight, AllPlaced

(* For any number of rows: the invariant of the comparison.                *)
THEOREM Invariant ==
    ASSUME NAssumption
    PROVE  Spec => []IInv
  BY InvariantBegins, InvariantKept, PTL DEF Spec

(* Two results are told equal exactly when their rows can be paired, for   *)
(* any number of rows and whatever pairs of rows are equal, with or        *)
(* without a tolerance; no row is lost or doubled on the way               *)
(* (_unordered_rows_equal).                                                *)
THEOREM PairingDecided ==
    ASSUME NAssumption
    PROVE  Spec => []AnswerRight
  BY Invariant, InvariantAnswers, PTL
-----------------------------------------------------------------------------
(* The comparison of two results, compare_results.  A column of the gold   *)
(* result and the predicted column of the same name stand for each other   *)
(* (Position), the aligned rows are the predicted rows seen through it,    *)
(* and what the verdict depends on is the same whichever way one looks.    *)

LEMMA PositionIn ==
    ASSUME NEW names, NEW name \in Comparison!Range(names)
    PROVE  /\ Comparison!Position(names, name) \in DOMAIN names
           /\ names[Comparison!Position(names, name)] = name
<1>1. \E i \in DOMAIN names : names[i] = name
  BY DEF Comparison!Range
<1> QED
  BY <1>1 DEF Comparison!Position

LEMMA PositionOf ==
    ASSUME NEW names, Comparison!IsInjective(names),
           NEW i \in DOMAIN names
    PROVE  Comparison!Position(names, names[i]) = i
<1>1. names[i] \in Comparison!Range(names)
  BY DEF Comparison!Range
<1> QED
  BY <1>1, PositionIn DEF Comparison!IsInjective

\* The folded names of the columns of either result.
PredictedNames(c) == Comparison!Names(c.predicted.columns)
GoldNames(c) == Comparison!Names(c.gold.columns)

Spellings == DOMAIN Comparison!Folded
FoldedNames == {Comparison!Folded[n] : n \in Spellings}

LEMMA Shapes ==
    ASSUME NEW c \in Comparison!Comparisons
    PROVE  /\ c.predicted \in Comparison!Results
           /\ c.gold \in Comparison!Results
           /\ c.mode \in {"exact", "multiset", "keyed", "none"}
           /\ c.ordered \in BOOLEAN
           /\ c.tolerances \in Seq(Comparison!Tolerances)
           /\ c.keys \in Seq(Spellings)
           /\ c = [predicted |-> c.predicted, gold |-> c.gold,
                   mode |-> c.mode, ordered |-> c.ordered,
                   tolerances |-> c.tolerances, keys |-> c.keys]
  BY DEF Comparison!Comparisons, Spellings

LEMMA ResultShape ==
    ASSUME NEW r \in Comparison!Results
    PROVE  /\ r.columns \in Seq([name : Spellings, type : STRING])
           /\ r.rows \in Seq(Seq(Comparison!Cell))
           /\ r.truncated \in BOOLEAN
           /\ r = [columns |-> r.columns, rows |-> r.rows,
                   truncated |-> r.truncated]
           /\ Comparison!Names(r.columns) \in Seq(FoldedNames)
           /\ Len(Comparison!Names(r.columns)) = Len(r.columns)
           /\ DOMAIN Comparison!Names(r.columns) = 1..Len(r.columns)
           /\ Len(r.columns) \in Nat /\ DOMAIN r.columns = 1..Len(r.columns)
           /\ Len(r.rows) \in Nat /\ DOMAIN r.rows = 1..Len(r.rows)
           /\ \A i \in DOMAIN r.rows : r.rows[i] \in Seq(Comparison!Cell)
<1>1. /\ r.columns \in Seq([name : Spellings, type : STRING])
      /\ r.rows \in Seq(Seq(Comparison!Cell)) /\ r.truncated \in BOOLEAN
      /\ r = [columns |-> r.columns, rows |-> r.rows,
              truncated |-> r.truncated]
  <2>1. r \in [columns : Seq([name : Spellings, type : STRING]),
               rows : Seq(Seq(Comparison!Cell)), truncated : BOOLEAN]
    BY DEF Comparison!Results, Spellings
  <2> QED
    BY <2>1
<1>2. /\ Len(r.columns) \in Nat /\ DOMAIN r.columns = 1..Len(r.columns)
      /\ \A i \in DOMAIN r.columns : r.columns[i].name \in Spellings
  <2> DEFINE S == [name : Spellings, type : STRING]
  <2>1. r.columns \in Seq(S)
    BY <1>1
  <2>2. \A column \in S : column.name \in Spellings
    OBVIOUS
  <2> HIDE DEF S
  <2> QED
    BY <2>1, <2>2
<1>3. \A n \in Spellings : Comparison!Folded[n] \in FoldedNames
  BY DEF FoldedNames
<1>4. /\ Comparison!Names(r.columns)
             = [i \in 1..Len(r.columns) |->
                    Comparison!Folded[r.columns[i].name]]
      /\ \A i \in 1..Len(r.columns) :
            Comparison!Folded[r.columns[i].name] \in FoldedNames
  BY <1>2, <1>3 DEF Comparison!Names
<1>5. /\ Comparison!Names(r.columns) \in Seq(FoldedNames)
      /\ Len(Comparison!Names(r.columns)) = Len(r.columns)
  BY <1>2, <1>4
<1>6. /\ Len(r.rows) \in Nat /\ DOMAIN r.rows = 1..Len(r.rows)
      /\ \A i \in DOMAIN r.rows : r.rows[i] \in Seq(Comparison!Cell)
  BY <1>1
<1> QED
  BY <1>1, <1>2, <1>4, <1>5, <1>6

\* What is known of two results that are not refused.
LEMMA NotRefused ==
    ASSUME NEW c, Comparison!Refusal(c) = "none"
    PROVE  /\ c.mode # "none" /\ Comparison!SameColumns(c)
           /\ Len(c.predicted.rows) = Len(c.gold.rows)
           /\ \A i \in DOMAIN c.gold.columns :
                 Comparison!ToleranceOf(c, GoldNames(c)[i]) # {} =>
                     c.gold.columns[i].type \in Comparison!NumericTypes
           /\ ~c.ordered /\ c.mode = "keyed" => Comparison!ValidKeys(c)
  BY DEF Comparison!Refusal, GoldNames

\* Every column has its counterpart.
LEMMA Counterparts ==
    ASSUME NEW c \in Comparison!Comparisons, Comparison!SameColumns(c)
    PROVE  /\ Len(c.predicted.columns) = Len(c.gold.columns)
           /\ Comparison!IsInjective(PredictedNames(c))
           /\ Comparison!IsInjective(GoldNames(c))
           /\ Comparison!Range(PredictedNames(c))
                  = Comparison!Range(GoldNames(c))
           /\ \A j \in DOMAIN c.gold.columns :
                 LET i == Comparison!Position(PredictedNames(c),
                                              GoldNames(c)[j])
                 IN /\ i \in DOMAIN c.predicted.columns
                    /\ PredictedNames(c)[i] = GoldNames(c)[j]
                    /\ Comparison!TypesAgree(c.predicted.columns[i].type,
                                             c.gold.columns[j].type)
           /\ \A i \in DOMAIN c.predicted.rows :
                 Len(c.predicted.rows[i]) = Len(c.predicted.columns)
           /\ \A i \in DOMAIN c.gold.rows :
                 Len(c.gold.rows[i]) = Len(c.gold.columns)
<1>1. /\ Len(c.predicted.columns) = Len(c.gold.columns)
      /\ Comparison!IsInjective(PredictedNames(c))
      /\ Comparison!IsInjective(GoldNames(c))
      /\ Comparison!Range(PredictedNames(c)) = Comparison!Range(GoldNames(c))
      /\ \A i \in DOMAIN c.gold.columns :
            Comparison!TypesAgree(
                c.predicted.columns[Comparison!Position(
                    PredictedNames(c), GoldNames(c)[i])].type,
                c.gold.columns[i].type)
      /\ \A i \in DOMAIN c.predicted.rows :
            Len(c.predicted.rows[i]) = Len(c.predicted.columns)
      /\ \A i \in DOMAIN c.gold.rows :
            Len(c.gold.rows[i]) = Len(c.gold.columns)
  BY DEF Comparison!SameColumns, Comparison!WellFormed, PredictedNames,
         GoldNames
<1>2. ASSUME NEW j \in DOMAIN c.gold.columns
      PROVE  LET i == Comparison!Position(PredictedNames(c), GoldNames(c)[j])
             IN /\ i \in DOMAIN c.predicted.columns
                /\ PredictedNames(c)[i] = GoldNames(c)[j]
  <2>1. /\ DOMAIN GoldNames(c) = DOMAIN c.gold.columns
        /\ DOMAIN PredictedNames(c) = DOMAIN c.predicted.columns
    BY Shapes, ResultShape DEF PredictedNames, GoldNames
  <2>2. GoldNames(c)[j] \in Comparison!Range(PredictedNames(c))
    BY <1>1, <2>1 DEF Comparison!Range
  <2> QED
    BY <2>1, <2>2, PositionIn
<1> QED
  BY <1>1, <1>2

\* The aligned rows.
LEMMA AlignedRows ==
    ASSUME NEW c \in Comparison!Comparisons
    PROVE  /\ DOMAIN Comparison!Aligned(c) = 1..Len(c.predicted.rows)
           /\ \A i \in 1..Len(c.predicted.rows) :
                 /\ DOMAIN Comparison!Aligned(c)[i] = 1..Len(c.gold.columns)
                 /\ \A j \in 1..Len(c.gold.columns) :
                       Comparison!Aligned(c)[i][j] =
                           c.predicted.rows[i][
                               Comparison!Position(PredictedNames(c),
                                                   GoldNames(c)[j])]
<1>1. /\ DOMAIN c.predicted.rows = 1..Len(c.predicted.rows)
      /\ DOMAIN GoldNames(c) = 1..Len(c.gold.columns)
  BY Shapes, ResultShape DEF GoldNames
<1> QED
  BY <1>1 DEF Comparison!Aligned, PredictedNames, GoldNames

\* The keyed mode pairs every row with the one gold row that has its key.
KeyPairing(c, rows, f) ==
    /\ f \in [DOMAIN rows -> DOMAIN c.gold.rows]
    /\ \A i, k \in DOMAIN rows : f[i] = f[k] => i = k
    /\ \A i \in DOMAIN rows :
          /\ Comparison!RowEqual(c, rows[i], c.gold.rows[f[i]])
          /\ \A j \in DOMAIN c.gold.rows :
                Comparison!KeysEqual(c, rows[i], c.gold.rows[j]) <=> j = f[i]

LEMMA KeyedPairs ==
    ASSUME NEW c \in Comparison!Comparisons, NEW rows
    PROVE  Comparison!KeyedRowsEqual(c, rows) <=>
               \E f : KeyPairing(c, rows, f)
<1> DEFINE G == c.gold.rows
           K(i) == {j \in DOMAIN G : Comparison!KeysEqual(c, rows[i], G[j])}
           M == [i \in DOMAIN rows |-> K(i)]
<1>1. Comparison!KeyedRowsEqual(c, rows) <=>
          /\ \A i \in DOMAIN rows :
                /\ Comparison!Cardinality(K(i)) = 1
                /\ \A j \in K(i) : Comparison!RowEqual(c, rows[i], G[j])
          /\ \A i, k \in DOMAIN rows : K(i) = K(k) => i = k
  <2>1. Comparison!KeyedRowsEqual(c, rows) <=>
            /\ \A i \in DOMAIN rows :
                  /\ Comparison!Cardinality(M[i]) = 1
                  /\ \A j \in M[i] : Comparison!RowEqual(c, rows[i], G[j])
            /\ Comparison!IsInjective(M)
    BY DEF Comparison!KeyedRowsEqual
  <2> HIDE DEF K
  <2> QED
    BY <2>1 DEF Comparison!IsInjective
<1>2. ASSUME NEW i
      PROVE  Comparison!Cardinality(K(i)) = 1 <=> \E j : K(i) = {j}
  <2>1. DOMAIN G = 1..Len(G) /\ 1 \in Int /\ Len(G) \in Int
    BY Shapes, ResultShape
  <2>2. IsFiniteSet(DOMAIN G) /\ K(i) \subseteq DOMAIN G
    BY <2>1, FS_Interval
  <2>3. IsFiniteSet(K(i))
    BY <2>2, FS_Subset
  <2>4. Comparison!Cardinality(K(i)) = Cardinality(K(i))
    BY DEF Comparison!Cardinality, Cardinality
  <2> HIDE DEF K
  <2> QED
    BY <2>3, <2>4, FS_Singleton
<1>3. \A i, j : j \in K(i) <=>
                    /\ j \in DOMAIN G
                    /\ Comparison!KeysEqual(c, rows[i], G[j])
  OBVIOUS
<1> HIDE DEF K, M
<1>4. ASSUME Comparison!KeyedRowsEqual(c, rows)
      PROVE  \E f : KeyPairing(c, rows, f)
  <2> DEFINE f == [i \in DOMAIN rows |-> CHOOSE j : K(i) = {j}]
  <2>1. \A i \in DOMAIN rows : K(i) = {f[i]}
    BY <1>1, <1>2, <1>4
  <2>2. f \in [DOMAIN rows -> DOMAIN G]
    <3>1. \A i \in DOMAIN rows : f[i] \in DOMAIN G
      BY <1>3, <2>1
    <3> QED
      BY <3>1
  <2> HIDE DEF f
  <2>3. \A i, k \in DOMAIN rows : f[i] = f[k] => i = k
    BY <1>1, <1>4, <2>1
  <2>4. ASSUME NEW i \in DOMAIN rows
        PROVE  /\ Comparison!RowEqual(c, rows[i], G[f[i]])
               /\ \A j \in DOMAIN G :
                     Comparison!KeysEqual(c, rows[i], G[j]) <=> j = f[i]
    <3>1. f[i] \in K(i) /\ \A j \in K(i) : j = f[i]
      BY <2>1
    <3> QED
      BY <1>1, <1>3, <1>4, <3>1
  <2>5. KeyPairing(c, rows, f)
    BY <2>2, <2>3, <2>4 DEF KeyPairing
  <2> QED
    BY <2>5
<1>5. ASSUME NEW f, KeyPairing(c, rows, f)
      PROVE  Comparison!KeyedRowsEqual(c, rows)
  <2>1. ASSUME NEW i \in DOMAIN rows
        PROVE  K(i) = {f[i]}
    <3>1. \A j : j \in K(i) <=> j = f[i]
      BY <1>3, <1>5 DEF KeyPairing
    <3> QED
      BY <3>1
  <2>2. ASSUME NEW i \in DOMAIN rows
        PROVE  /\ Comparison!Cardinality(K(i)) = 1
               /\ \A j \in K(i) : Comparison!RowEqual(c, rows[i], G[j])
    BY <1>2, <1>5, <2>1 DEF KeyPairing
  <2>3. \A i, k \in DOMAIN rows : K(i) = K(k) => i = k
    BY <1>5, <2>1 DEF KeyPairing
  <2> QED
    BY <1>1, <2>2, <2>3
<1> QED
  BY <1>4, <1>5

\* Rows told equal by their keys are told equal one to one.
LEMMA MatchPairs ==
    ASSUME NEW c \in Comparison!Comparisons,
           Comparison!CompareResults(c) = "match"
    PROVE  /\ Comparison!SameColumns(c)
           /\ Len(c.predicted.rows) = Len(c.gold.rows)
           /\ Comparison!UnorderedRowsEqual(c, Comparison!Aligned(c))
<1> DEFINE A == Comparison!Aligned(c)
           G == c.gold.rows
<1>1. Comparison!Refusal(c) = "none"
  BY DEF Comparison!CompareResults, Comparison!Refusal
<1>2. /\ Comparison!SameColumns(c) /\ Len(c.predicted.rows) = Len(G)
      /\ c.mode # "none"
  BY <1>1, NotRefused
<1>3. DOMAIN A = DOMAIN G
  BY <1>2, AlignedRows, Shapes, ResultShape
<1>4. Comparison!RowsMatch(c, A)
  BY <1>1 DEF Comparison!CompareResults
<1> HIDE DEF A
<1>5. CASE c.ordered \/ c.mode = "exact"
  <2> DEFINE f == [i \in DOMAIN A |-> i]
  <2>1. \A i \in DOMAIN A : Comparison!RowEqual(c, A[i], G[i])
    BY <1>4, <1>5 DEF Comparison!RowsMatch, Comparison!OrderedRowsEqual
  <2>2. f \in Comparison!Injection(DOMAIN A, DOMAIN G)
    BY <1>3 DEF Comparison!Injection, Comparison!IsInjective
  <2>3. \A i \in DOMAIN A : Comparison!RowEqual(c, A[i], G[f[i]])
    BY <2>1
  <2> QED
    BY <1>2, <2>2, <2>3 DEF Comparison!UnorderedRowsEqual, A
<1>6. CASE ~c.ordered /\ c.mode = "multiset"
  BY <1>2, <1>4, <1>6 DEF Comparison!RowsMatch, A
<1>7. CASE ~c.ordered /\ c.mode = "keyed"
  <2>1. Comparison!KeyedRowsEqual(c, A)
    BY <1>4, <1>7 DEF Comparison!RowsMatch
  <2>2. PICK f : KeyPairing(c, A, f)
    BY <2>1, KeyedPairs
  <2>3. /\ f \in Comparison!Injection(DOMAIN A, DOMAIN G)
        /\ \A i \in DOMAIN A : Comparison!RowEqual(c, A[i], G[f[i]])
    BY <2>2
       DEF KeyPairing, Comparison!Injection, Comparison!IsInjective
  <2> QED
    BY <1>2, <2>3 DEF Comparison!UnorderedRowsEqual, A
<1> QED
  BY <1>2, <1>5, <1>6, <1>7, Shapes

\* Two comparisons that differ in the predicted result only.
LEMMA SameRest ==
    ASSUME NEW c, NEW d, d.gold = c.gold, d.mode = c.mode,
           d.ordered = c.ordered, d.tolerances = c.tolerances,
           d.keys = c.keys
    PROVE  /\ \A name : Comparison!ToleranceOf(d, name)
                            = Comparison!ToleranceOf(c, name)
           /\ Comparison!ValidKeys(d) <=> Comparison!ValidKeys(c)
           /\ \A rows : Comparison!DuplicateKey(d, rows)
                            <=> Comparison!DuplicateKey(c, rows)
           /\ \A rows : Comparison!RowsMatch(d, rows)
                            <=> Comparison!RowsMatch(c, rows)
<1>1. \A name : Comparison!ToleranceOf(d, name)
                    = Comparison!ToleranceOf(c, name)
  BY DEF Comparison!ToleranceOf
<1>2. \A r, s, columns : Comparison!CellsEqual(d, r, s, columns)
                             <=> Comparison!CellsEqual(c, r, s, columns)
  BY <1>1 DEF Comparison!CellsEqual
<1>3. \A r, s : Comparison!RowEqual(d, r, s) <=> Comparison!RowEqual(c, r, s)
  BY <1>2 DEF Comparison!RowEqual
<1>4. Comparison!KeyColumns(d) = Comparison!KeyColumns(c)
  BY DEF Comparison!KeyColumns
<1>5. \A r, s : Comparison!KeysEqual(d, r, s)
                    <=> Comparison!KeysEqual(c, r, s)
  BY <1>2, <1>4 DEF Comparison!KeysEqual
<1>6. Comparison!ValidKeys(d) <=> Comparison!ValidKeys(c)
  BY DEF Comparison!ValidKeys
<1>7. ASSUME NEW rows
      PROVE  Comparison!DuplicateKey(d, rows)
                 <=> Comparison!DuplicateKey(c, rows)
  BY <1>5 DEF Comparison!DuplicateKey
<1>8. ASSUME NEW rows
      PROVE  Comparison!RowsMatch(d, rows) <=> Comparison!RowsMatch(c, rows)
  <2>1. Comparison!OrderedRowsEqual(d, rows)
            <=> Comparison!OrderedRowsEqual(c, rows)
    BY <1>3 DEF Comparison!OrderedRowsEqual
  <2>2. Comparison!UnorderedRowsEqual(d, rows)
            <=> Comparison!UnorderedRowsEqual(c, rows)
    BY <1>3 DEF Comparison!UnorderedRowsEqual
  <2>3. Comparison!KeyedRowsEqual(d, rows)
            <=> Comparison!KeyedRowsEqual(c, rows)
    <3> DEFINE K(e, i) == {j \in DOMAIN e.gold.rows :
                              Comparison!KeysEqual(e, rows[i],
                                                   e.gold.rows[j])}
    <3>1. \A i : K(d, i) = K(c, i)
      BY <1>5
    <3>2. ASSUME NEW e
          PROVE  Comparison!KeyedRowsEqual(e, rows) <=>
                     /\ \A i \in DOMAIN rows :
                           /\ Comparison!Cardinality(K(e, i)) = 1
                           /\ \A j \in K(e, i) :
                                 Comparison!RowEqual(e, rows[i],
                                                     e.gold.rows[j])
                     /\ \A i, k \in DOMAIN rows :
                           K(e, i) = K(e, k) => i = k
      <4> DEFINE M == [i \in DOMAIN rows |-> K(e, i)]
      <4>1. Comparison!KeyedRowsEqual(e, rows) <=>
                /\ \A i \in DOMAIN rows :
                      /\ Comparison!Cardinality(M[i]) = 1
                      /\ \A j \in M[i] :
                            Comparison!RowEqual(e, rows[i], e.gold.rows[j])
                /\ Comparison!IsInjective(M)
        BY DEF Comparison!KeyedRowsEqual
      <4> HIDE DEF K
      <4> QED
        BY <4>1 DEF Comparison!IsInjective
    <3> HIDE DEF K
    <3> QED
      BY <1>3, <3>1, <3>2
  <2> QED
    BY <2>1, <2>2, <2>3 DEF Comparison!RowsMatch
<1> QED
  BY <1>1, <1>6, <1>7, <1>8

\* The predicted columns, and the cells of every predicted row, the other
\* way around.
Turned(c) ==
    [c EXCEPT !.predicted =
        [c.predicted EXCEPT
            !.columns = Comparison!Reversed(@),
            !.rows = [i \in DOMAIN @ |-> Comparison!Reversed(@[i])]]]

LEMMA TurnedShape ==
    ASSUME NEW c \in Comparison!Comparisons
    PROVE  /\ Turned(c).gold = c.gold /\ Turned(c).mode = c.mode
           /\ Turned(c).ordered = c.ordered /\ Turned(c).keys = c.keys
           /\ Turned(c).tolerances = c.tolerances
           /\ Turned(c).predicted.truncated = c.predicted.truncated
           /\ Turned(c).predicted.columns
                  = Comparison!Reversed(c.predicted.columns)
           /\ Turned(c).predicted.rows
                  = [i \in DOMAIN c.predicted.rows |->
                        Comparison!Reversed(c.predicted.rows[i])]
<1>1. /\ c = [predicted |-> c.predicted, gold |-> c.gold,
              mode |-> c.mode, ordered |-> c.ordered,
              tolerances |-> c.tolerances, keys |-> c.keys]
      /\ c.predicted = [columns |-> c.predicted.columns,
                        rows |-> c.predicted.rows,
                        truncated |-> c.predicted.truncated]
  BY Shapes, ResultShape
<1> QED
  BY <1>1 DEF Turned

LEMMA ReversedShape ==
    ASSUME NEW S, NEW s \in Seq(S)
    PROVE  /\ Comparison!Reversed(s) \in Seq(S)
           /\ Len(Comparison!Reversed(s)) = Len(s)
           /\ DOMAIN Comparison!Reversed(s) = 1..Len(s)
           /\ \A i \in 1..Len(s) :
                 /\ Len(s) + 1 - i \in 1..Len(s)
                 /\ Comparison!Reversed(s)[i] = s[Len(s) + 1 - i]
<1>1. DOMAIN s = 1..Len(s) /\ Len(s) \in Nat
  OBVIOUS
<1>2. \A i \in 1..Len(s) : Len(s) + 1 - i \in 1..Len(s)
  BY <1>1
<1>3. \A i \in 1..Len(s) : s[i] \in S
  OBVIOUS
<1>4. Comparison!Reversed(s) = [i \in 1..Len(s) |-> s[Len(s) + 1 - i]]
  BY <1>1 DEF Comparison!Reversed
<1> QED
  BY <1>1, <1>2, <1>3, <1>4

\* The names of the turned columns.
LEMMA NamesReversed ==
    ASSUME NEW columns \in Seq([name : Spellings, type : STRING])
    PROVE  Comparison!Names(Comparison!Reversed(columns))
               = Comparison!Reversed(Comparison!Names(columns))
<1>1. /\ DOMAIN Comparison!Reversed(columns) = DOMAIN columns
      /\ DOMAIN columns = 1..Len(columns) /\ Len(columns) \in Nat
      /\ \A i \in 1..Len(columns) :
            /\ Len(columns) + 1 - i \in 1..Len(columns)
            /\ Comparison!Reversed(columns)[i]
                   = columns[Len(columns) + 1 - i]
  BY ReversedShape
<1>2. Len(Comparison!Names(columns)) = Len(columns)
  BY <1>1 DEF Comparison!Names
<1> QED
  BY <1>1, <1>2 DEF Comparison!Names, Comparison!Reversed

LEMMA PositionReversed ==
    ASSUME NEW S, NEW names \in Seq(S)
    PROVE  /\ Comparison!IsInjective(Comparison!Reversed(names))
                  <=> Comparison!IsInjective(names)
           /\ Comparison!Range(Comparison!Reversed(names))
                  = Comparison!Range(names)
           /\ \A name \in Comparison!Range(names) :
                 Comparison!IsInjective(names) =>
                     Comparison!Position(Comparison!Reversed(names), name)
                         = Len(names) + 1 - Comparison!Position(names, name)
<1> DEFINE n == Len(names)
           back == Comparison!Reversed(names)
<1>1. /\ DOMAIN names = 1..n /\ n \in Nat /\ DOMAIN back = 1..n
      /\ \A i \in 1..n : n + 1 - i \in 1..n /\ back[i] = names[n + 1 - i]
  BY ReversedShape
<1>2. \A i \in 1..n : names[i] = back[n + 1 - i]
  BY <1>1
<1> HIDE DEF back, n
<1>3. Comparison!IsInjective(back) <=> Comparison!IsInjective(names)
  <2>1. ASSUME Comparison!IsInjective(back),
               NEW i \in 1..n, NEW j \in 1..n, names[i] = names[j]
        PROVE  i = j
    <3>1. n + 1 - i = n + 1 - j
      BY <1>1, <1>2, <2>1 DEF Comparison!IsInjective
    <3> QED
      BY <1>1, <3>1
  <2>2. ASSUME Comparison!IsInjective(names),
               NEW i \in 1..n, NEW j \in 1..n, back[i] = back[j]
        PROVE  i = j
    <3>1. n + 1 - i = n + 1 - j
      BY <1>1, <2>2 DEF Comparison!IsInjective
    <3> QED
      BY <1>1, <3>1
  <2> QED
    BY <1>1, <2>1, <2>2 DEF Comparison!IsInjective
<1>4. Comparison!Range(back) = Comparison!Range(names)
  BY <1>1, <1>2 DEF Comparison!Range
<1>5. ASSUME NEW name \in Comparison!Range(names),
             Comparison!IsInjective(names)
      PROVE  Comparison!Position(back, name)
                 = n + 1 - Comparison!Position(names, name)
  <2> DEFINE i == Comparison!Position(names, name)
  <2>1. i \in 1..n /\ names[i] = name
    BY <1>1, PositionIn
  <2> HIDE DEF i
  <2>2. n + 1 - i \in DOMAIN back /\ back[n + 1 - i] = name
    BY <1>1, <1>2, <2>1
  <2> QED
    BY <1>3, <1>5, <2>2, PositionOf DEF i
<1> QED
  BY <1>3, <1>4, <1>5 DEF back, n

LEMMA TurnedNames ==
    ASSUME NEW c \in Comparison!Comparisons
    PROVE  /\ PredictedNames(Turned(c))
                  = Comparison!Reversed(PredictedNames(c))
           /\ GoldNames(Turned(c)) = GoldNames(c)
           /\ PredictedNames(c) \in Seq(FoldedNames)
           /\ Len(PredictedNames(c)) = Len(c.predicted.columns)
           /\ Len(Turned(c).predicted.columns) = Len(c.predicted.columns)
           /\ Len(Turned(c).predicted.rows) = Len(c.predicted.rows)
           /\ DOMAIN Turned(c).predicted.rows = DOMAIN c.predicted.rows
           /\ \A i \in DOMAIN c.predicted.rows :
                 Len(Turned(c).predicted.rows[i]) = Len(c.predicted.rows[i])
<1>1. /\ Turned(c).gold = c.gold
      /\ Turned(c).predicted.columns
             = Comparison!Reversed(c.predicted.columns)
      /\ Turned(c).predicted.rows
             = [i \in DOMAIN c.predicted.rows |->
                   Comparison!Reversed(c.predicted.rows[i])]
  BY TurnedShape
<1>2. /\ c.predicted.columns \in Seq([name : Spellings, type : STRING])
      /\ PredictedNames(c) \in Seq(FoldedNames)
      /\ Len(PredictedNames(c)) = Len(c.predicted.columns)
      /\ DOMAIN c.predicted.rows = 1..Len(c.predicted.rows)
      /\ Len(c.predicted.rows) \in Nat
      /\ \A i \in DOMAIN c.predicted.rows :
            c.predicted.rows[i] \in Seq(Comparison!Cell)
  BY Shapes, ResultShape DEF PredictedNames
<1>3. Len(Comparison!Reversed(c.predicted.columns))
          = Len(c.predicted.columns)
  BY <1>2, ReversedShape
<1>4. \A i \in DOMAIN c.predicted.rows :
         Len(Comparison!Reversed(c.predicted.rows[i]))
             = Len(c.predicted.rows[i])
  BY <1>2, ReversedShape
<1>5. Comparison!Names(Comparison!Reversed(c.predicted.columns))
          = Comparison!Reversed(Comparison!Names(c.predicted.columns))
  BY <1>2, NamesReversed
<1> QED
  BY <1>1, <1>2, <1>3, <1>4, <1>5 DEF PredictedNames, GoldNames

\* Turned columns are the same columns.
LEMMA TurnedColumns ==
    ASSUME NEW c \in Comparison!Comparisons
    PROVE  Comparison!SameColumns(Turned(c)) <=> Comparison!SameColumns(c)
<1> DEFINE T == Turned(c)
           p == c.predicted.columns
           g == c.gold.columns
           n == Len(p)
<1>1. /\ T.gold = c.gold
      /\ T.predicted.columns = Comparison!Reversed(p)
      /\ Len(T.predicted.columns) = n
      /\ PredictedNames(T) = Comparison!Reversed(PredictedNames(c))
      /\ GoldNames(T) = GoldNames(c)
  BY TurnedShape, TurnedNames
<1>2. Comparison!WellFormed(T.predicted) <=>
          Comparison!WellFormed(c.predicted)
  <2>1. Comparison!IsInjective(PredictedNames(T))
            <=> Comparison!IsInjective(PredictedNames(c))
    BY <1>1, TurnedNames, PositionReversed
  <2>2. /\ DOMAIN T.predicted.rows = DOMAIN c.predicted.rows
        /\ \A i \in DOMAIN c.predicted.rows :
              Len(T.predicted.rows[i]) = Len(c.predicted.rows[i])
    BY TurnedNames
  <2> QED
    BY <1>1, <2>1, <2>2 DEF Comparison!WellFormed, PredictedNames
<1>3. Comparison!Range(PredictedNames(T))
          = Comparison!Range(PredictedNames(c))
  BY <1>1, TurnedNames, PositionReversed
<1>4. ASSUME Comparison!WellFormed(c.predicted),
             Comparison!Range(PredictedNames(c))
                 = Comparison!Range(GoldNames(c)),
             NEW j \in DOMAIN g
      PROVE  T.predicted.columns[
                 Comparison!Position(PredictedNames(T), GoldNames(c)[j])]
             = p[Comparison!Position(PredictedNames(c), GoldNames(c)[j])]
  <2> DEFINE i == Comparison!Position(PredictedNames(c), GoldNames(c)[j])
  <2>1. GoldNames(c)[j] \in Comparison!Range(PredictedNames(c))
    <3>1. DOMAIN GoldNames(c) = DOMAIN g
      BY Shapes, ResultShape DEF GoldNames
    <3> QED
      BY <1>4, <3>1 DEF Comparison!Range
  <2>2. DOMAIN PredictedNames(c) = 1..n
    BY Shapes, ResultShape DEF PredictedNames
  <2>3. i \in 1..n
    BY <2>1, <2>2, PositionIn
  <2>4. Comparison!Position(PredictedNames(T), GoldNames(c)[j]) = n + 1 - i
    <3>1. Comparison!IsInjective(PredictedNames(c))
      BY <1>4 DEF Comparison!WellFormed, PredictedNames
    <3>2. PredictedNames(c) \in Seq(FoldedNames) /\ Len(PredictedNames(c)) = n
      BY TurnedNames
    <3> QED
      BY <1>1, <2>1, <3>1, <3>2, PositionReversed
  <2>5. /\ p \in Seq([name : Spellings, type : STRING]) /\ n \in Nat
    BY Shapes, ResultShape
  <2> HIDE DEF i
  <2>6. n + 1 - i \in 1..n /\ n + 1 - (n + 1 - i) = i
    BY <2>3, <2>5
  <2>7. Comparison!Reversed(p)[n + 1 - i] = p[n + 1 - (n + 1 - i)]
    BY <2>5, <2>6, ReversedShape
  <2>8. T.predicted.columns[n + 1 - i] = p[i]
    BY <1>1, <2>6, <2>7
  <2> QED
    BY <2>4, <2>8 DEF i
<1> HIDE DEF T
<1>5. ASSUME NEW d
      PROVE  Comparison!SameColumns(d) <=>
                 /\ Len(d.predicted.columns) = Len(d.gold.columns)
                 /\ Comparison!WellFormed(d.predicted)
                 /\ Comparison!WellFormed(d.gold)
                 /\ Comparison!Range(PredictedNames(d))
                        = Comparison!Range(GoldNames(d))
                 /\ \A j \in DOMAIN d.gold.columns :
                       Comparison!TypesAgree(
                           d.predicted.columns[Comparison!Position(
                               PredictedNames(d), GoldNames(d)[j])].type,
                           d.gold.columns[j].type)
  BY DEF Comparison!SameColumns, PredictedNames, GoldNames
<1> QED
  BY <1>1, <1>2, <1>3, <1>4, <1>5 DEF T

\* The rows are aligned alike.
LEMMA TurnedRows ==
    ASSUME NEW c \in Comparison!Comparisons, Comparison!SameColumns(c)
    PROVE  Comparison!Aligned(Turned(c)) = Comparison!Aligned(c)
<1> DEFINE T == Turned(c)
           n == Len(c.predicted.columns)
           P(j) == Comparison!Position(PredictedNames(c), GoldNames(c)[j])
           Q(j) == Comparison!Position(PredictedNames(T), GoldNames(T)[j])
<1>1. /\ DOMAIN T.predicted.rows = DOMAIN c.predicted.rows
      /\ GoldNames(T) = GoldNames(c)
      /\ T.predicted.rows = [i \in DOMAIN c.predicted.rows |->
                                Comparison!Reversed(c.predicted.rows[i])]
  BY TurnedShape, TurnedNames
<1>2. ASSUME NEW j \in DOMAIN GoldNames(c)
      PROVE  P(j) \in 1..n /\ Q(j) = n + 1 - P(j) /\ n \in Nat
  <2>1. /\ Comparison!IsInjective(PredictedNames(c))
        /\ GoldNames(c)[j] \in Comparison!Range(PredictedNames(c))
    BY Counterparts DEF Comparison!Range
  <2>2. /\ PredictedNames(c) \in Seq(FoldedNames)
        /\ Len(PredictedNames(c)) = n
        /\ PredictedNames(T) = Comparison!Reversed(PredictedNames(c))
    BY TurnedNames
  <2>3. DOMAIN PredictedNames(c) = 1..n /\ n \in Nat
    BY Shapes, ResultShape DEF PredictedNames
  <2> QED
    BY <1>1, <2>1, <2>2, <2>3, PositionIn, PositionReversed
<1>3. ASSUME NEW i \in DOMAIN c.predicted.rows, NEW j \in DOMAIN GoldNames(c)
      PROVE  T.predicted.rows[i][Q(j)] = c.predicted.rows[i][P(j)]
  <2> DEFINE r == c.predicted.rows[i]
  <2>1. r \in Seq(Comparison!Cell) /\ Len(r) = n
    BY Counterparts, Shapes, ResultShape
  <2>2. T.predicted.rows[i] = Comparison!Reversed(r)
    BY <1>1
  <2> HIDE DEF r, T, n, P
  <2>3. /\ P(j) \in 1..n /\ Q(j) = n + 1 - P(j) /\ n \in Nat
        /\ n + 1 - P(j) \in 1..n /\ n + 1 - (n + 1 - P(j)) = P(j)
    BY <1>2
  <2> HIDE DEF Q
  <2>4. Comparison!Reversed(r)[n + 1 - P(j)] = r[n + 1 - (n + 1 - P(j))]
    BY <2>1, <2>3, ReversedShape
  <2> QED
    BY <2>2, <2>3, <2>4 DEF r
<1>4. \A d : Comparison!Aligned(d) =
                 [i \in DOMAIN d.predicted.rows |->
                     [j \in DOMAIN GoldNames(d) |->
                         d.predicted.rows[i][
                             Comparison!Position(PredictedNames(d),
                                                 GoldNames(d)[j])]]]
  BY DEF Comparison!Aligned, PredictedNames, GoldNames
<1>5. Comparison!Aligned(T) = [i \in DOMAIN c.predicted.rows |->
                                  [j \in DOMAIN GoldNames(c) |->
                                      T.predicted.rows[i][Q(j)]]]
  BY <1>1, <1>4
<1>6. Comparison!Aligned(c) = [i \in DOMAIN c.predicted.rows |->
                                  [j \in DOMAIN GoldNames(c) |->
                                      c.predicted.rows[i][P(j)]]]
  BY <1>4
<1> HIDE DEF T, P, Q
<1> QED
  BY <1>3, <1>5, <1>6 DEF T

\* The verdict does not depend on the order of the predicted columns.
LEMMA TurnedVerdict ==
    ASSUME NEW c \in Comparison!Comparisons
    PROVE  Comparison!CompareResults(Turned(c))
               = Comparison!CompareResults(c)
<1> DEFINE T == Turned(c)
<1>1. /\ T.gold = c.gold /\ T.mode = c.mode /\ T.ordered = c.ordered
      /\ T.tolerances = c.tolerances /\ T.keys = c.keys
      /\ T.predicted.truncated = c.predicted.truncated
      /\ Len(T.predicted.rows) = Len(c.predicted.rows)
  BY TurnedShape, TurnedNames
<1>2. /\ \A name : Comparison!ToleranceOf(T, name)
                       = Comparison!ToleranceOf(c, name)
      /\ Comparison!ValidKeys(T) <=> Comparison!ValidKeys(c)
      /\ \A rows : Comparison!DuplicateKey(T, rows)
                       <=> Comparison!DuplicateKey(c, rows)
      /\ \A rows : Comparison!RowsMatch(T, rows)
                       <=> Comparison!RowsMatch(c, rows)
  BY <1>1, SameRest
<1>3. Comparison!SameColumns(T) <=> Comparison!SameColumns(c)
  BY TurnedColumns
<1>4. T.predicted.rows \o T.gold.rows # <<>> <=>
          c.predicted.rows \o c.gold.rows # <<>>
  <2>1. /\ T.predicted.rows \in Seq(Seq(Comparison!Cell))
        /\ c.predicted.rows \in Seq(Seq(Comparison!Cell))
        /\ c.gold.rows \in Seq(Seq(Comparison!Cell))
    <3>1. /\ c.predicted.rows \in Seq(Seq(Comparison!Cell))
          /\ c.gold.rows \in Seq(Seq(Comparison!Cell))
      BY Shapes, ResultShape
    <3>2. \A i \in DOMAIN c.predicted.rows :
             Comparison!Reversed(c.predicted.rows[i]) \in Seq(Comparison!Cell)
      BY Shapes, ResultShape, ReversedShape
    <3>3. T.predicted.rows = [i \in DOMAIN c.predicted.rows |->
                                 Comparison!Reversed(c.predicted.rows[i])]
      BY TurnedShape
    <3> DEFINE R == Seq(Comparison!Cell)
    <3> HIDE DEF R, T
    <3>4. /\ c.predicted.rows \in Seq(R) /\ c.gold.rows \in Seq(R)
          /\ \A i \in DOMAIN c.predicted.rows :
                Comparison!Reversed(c.predicted.rows[i]) \in R
      BY <3>1, <3>2 DEF R
    <3>5. T.predicted.rows \in Seq(R)
      BY <3>3, <3>4
    <3> QED
      BY <3>1, <3>5 DEF R
  <2> HIDE DEF T
  <2>2. \A r, s \in Seq(Seq(Comparison!Cell)) :
           r \o s # <<>> <=> Len(r) + Len(s) # 0
    OBVIOUS
  <2> QED
    BY <1>1, <2>1, <2>2
<1> HIDE DEF T
<1>5. Comparison!Refusal(T) = Comparison!Refusal(c)
  BY <1>1, <1>2, <1>3, <1>4 DEF Comparison!Refusal
<1>6. CASE Comparison!Refusal(c) # "none"
  BY <1>5, <1>6 DEF Comparison!CompareResults, T
<1>7. CASE Comparison!Refusal(c) = "none"
  <2>1. Comparison!Aligned(T) = Comparison!Aligned(c)
    BY <1>7, NotRefused, TurnedRows DEF T
  <2> QED
    BY <1>1, <1>2, <1>5, <2>1 DEF Comparison!CompareResults, T
<1> QED
  BY <1>6, <1>7

\* The two results in each other's place.
Swapped(c) == [c EXCEPT !.predicted = c.gold, !.gold = c.predicted]

\* No tolerance is relative to one of the two sides.
Undirected(c) ==
    \A i \in DOMAIN c.tolerances : c.tolerances[i].relative = 0

LEMMA SwappedShape ==
    ASSUME NEW c \in Comparison!Comparisons
    PROVE  /\ Swapped(c) \in Comparison!Comparisons
           /\ Swapped(c).predicted = c.gold /\ Swapped(c).gold = c.predicted
           /\ Swapped(c).mode = c.mode /\ Swapped(c).ordered = c.ordered
           /\ Swapped(c).keys = c.keys
           /\ Swapped(c).tolerances = c.tolerances
           /\ Undirected(Swapped(c)) <=> Undirected(c)
           /\ Swapped(Swapped(c)) = c
           /\ PredictedNames(Swapped(c)) = GoldNames(c)
           /\ GoldNames(Swapped(c)) = PredictedNames(c)
           /\ \A name : Comparison!ToleranceOf(Swapped(c), name)
                            = Comparison!ToleranceOf(c, name)
<1> DEFINE s == [predicted |-> c.gold, gold |-> c.predicted,
                 mode |-> c.mode, ordered |-> c.ordered,
                 tolerances |-> c.tolerances, keys |-> c.keys]
<1>1. c = [predicted |-> c.predicted, gold |-> c.gold,
           mode |-> c.mode, ordered |-> c.ordered,
           tolerances |-> c.tolerances, keys |-> c.keys]
  BY Shapes
<1>2. ASSUME NEW r, NEW q, NEW h,
             r = [predicted |-> r.predicted, gold |-> r.gold,
                  mode |-> r.mode, ordered |-> r.ordered,
                  tolerances |-> r.tolerances, keys |-> r.keys]
      PROVE  [r EXCEPT !.predicted = q, !.gold = h]
             = [predicted |-> q, gold |-> h, mode |-> r.mode,
                ordered |-> r.ordered, tolerances |-> r.tolerances,
                keys |-> r.keys]
  <2> DEFINE r1 == [r EXCEPT !.predicted = q]
  <2>1. r1 = [predicted |-> q, gold |-> r.gold, mode |-> r.mode,
              ordered |-> r.ordered, tolerances |-> r.tolerances,
              keys |-> r.keys]
    BY <1>2
  <2> HIDE DEF r1
  <2>2. [r1 EXCEPT !.gold = h]
             = [predicted |-> q, gold |-> h, mode |-> r.mode,
                ordered |-> r.ordered, tolerances |-> r.tolerances,
                keys |-> r.keys]
    BY <2>1
  <2>3. [r EXCEPT !.predicted = q, !.gold = h] = [r1 EXCEPT !.gold = h]
    BY DEF r1
  <2> QED
    BY <2>2, <2>3
<1>3. Swapped(c) = s
  BY <1>1, <1>2 DEF Swapped
<1>4. s \in Comparison!Comparisons
  BY Shapes DEF Comparison!Comparisons, Spellings
<1>5. Swapped(s) = c
  <2>1. /\ s.predicted = c.gold /\ s.gold = c.predicted
        /\ s.mode = c.mode /\ s.ordered = c.ordered
        /\ s.tolerances = c.tolerances /\ s.keys = c.keys
        /\ s = [predicted |-> s.predicted, gold |-> s.gold,
                mode |-> s.mode, ordered |-> s.ordered,
                tolerances |-> s.tolerances, keys |-> s.keys]
    OBVIOUS
  <2> HIDE DEF s
  <2>2. Swapped(s) = [predicted |-> s.gold, gold |-> s.predicted,
                      mode |-> s.mode, ordered |-> s.ordered,
                      tolerances |-> s.tolerances, keys |-> s.keys]
    <3>1. Swapped(s) = [s EXCEPT !.predicted = s.gold,
                                 !.gold = s.predicted]
      BY DEF Swapped
    <3> QED
      BY <1>2, <2>1, <3>1
  <2> QED
    BY <1>1, <2>1, <2>2
<1> QED
  BY <1>3, <1>4, <1>5
     DEF Undirected, PredictedNames, GoldNames, Comparison!ToleranceOf

LEMMA ToleranceTyped ==
    ASSUME NEW c \in Comparison!Comparisons, NEW name,
           NEW t \in Comparison!ToleranceOf(c, name)
    PROVE  /\ t.absolute \in Nat /\ t.relative \in Nat
           /\ Undirected(c) => t.relative = 0
<1>1. PICK i \in DOMAIN c.tolerances : t = c.tolerances[i]
  BY DEF Comparison!ToleranceOf
<1>2. c.tolerances[i] \in Comparison!Tolerances
  BY Shapes
<1> QED
  BY <1>1, <1>2 DEF Comparison!Tolerances, Undirected

\* Types that agree are compared alike.
LEMMA ValueRetyped ==
    ASSUME NEW s, NEW t, Comparison!TypesAgree(s, t), NEW x, NEW y,
           NEW tolerance
    PROVE  Comparison!ValueEqual(x, y, s, tolerance)
               <=> Comparison!ValueEqual(x, y, t, tolerance)
<1>1. s = "timestamptz" <=> t = "timestamptz"
  BY DEF Comparison!TypesAgree, Comparison!StringTypes
<1> QED
  BY <1>1 DEF Comparison!ValueEqual

LEMMA TypesFlip ==
    ASSUME NEW s, NEW t, Comparison!TypesAgree(s, t)
    PROVE  /\ Comparison!TypesAgree(t, s)
           /\ s \in Comparison!NumericTypes <=> t \in Comparison!NumericTypes
           /\ s \in Comparison!FloatTypes <=> t \in Comparison!FloatTypes
  BY DEF Comparison!TypesAgree, Comparison!StringTypes,
         Comparison!NumericTypes, Comparison!FloatTypes

\* Without a relative tolerance equality has no direction.
LEMMA ValueFlips ==
    ASSUME NEW x \in Comparison!Cell, NEW y \in Comparison!Cell, NEW type,
           NEW tolerance,
           \A t \in tolerance : t.absolute \in Nat /\ t.relative = 0,
           Comparison!ValueEqual(x, y, type, tolerance)
    PROVE  Comparison!ValueEqual(y, x, type, tolerance)
<1>1. CASE Comparison!Null \in {x, y}
  BY <1>1 DEF Comparison!ValueEqual
<1>2. CASE Comparison!Null \notin {x, y}
  <2>1. x.value \in Nat /\ y.value \in Nat
    BY DEF Comparison!Cell
  <2>2. ASSUME NEW t \in tolerance, Comparison!DecimalEqual(x, y, t)
        PROVE  Comparison!DecimalEqual(y, x, t)
    <3>1. t.relative * x.value = 0 /\ t.relative * y.value = 0
      BY <2>1
    <3> QED
      BY <2>1, <2>2, <3>1
         DEF Comparison!DecimalEqual, Comparison!Distance, Comparison!Larger
  <2>3. /\ Comparison!StrictEqual(x, y) => Comparison!StrictEqual(y, x)
        /\ Comparison!SameInstant(x, y) => Comparison!SameInstant(y, x)
    BY DEF Comparison!StrictEqual, Comparison!SameInstant
  <2> QED
    BY <1>2, <2>2, <2>3 DEF Comparison!ValueEqual
<1> QED
  BY <1>1, <1>2

\* A column of either result and its counterpart lead back to each other.
LEMMA CounterpartsFlip ==
    ASSUME NEW c \in Comparison!Comparisons, Comparison!SameColumns(c)
    PROVE  /\ Comparison!SameColumns(Swapped(c))
           /\ \A i \in DOMAIN c.predicted.columns :
                 LET j == Comparison!Position(GoldNames(c),
                                              PredictedNames(c)[i])
                 IN /\ j \in DOMAIN c.gold.columns
                    /\ GoldNames(c)[j] = PredictedNames(c)[i]
                    /\ Comparison!Position(PredictedNames(c),
                                           GoldNames(c)[j]) = i
                    /\ Comparison!TypesAgree(c.gold.columns[j].type,
                                             c.predicted.columns[i].type)
<1> DEFINE S == Swapped(c)
           J(i) == Comparison!Position(GoldNames(c), PredictedNames(c)[i])
<1>1. /\ DOMAIN PredictedNames(c) = DOMAIN c.predicted.columns
      /\ DOMAIN GoldNames(c) = DOMAIN c.gold.columns
  BY Shapes, ResultShape DEF PredictedNames, GoldNames
<1>2. ASSUME NEW i \in DOMAIN c.predicted.columns
      PROVE  /\ J(i) \in DOMAIN c.gold.columns
             /\ GoldNames(c)[J(i)] = PredictedNames(c)[i]
             /\ Comparison!Position(PredictedNames(c), GoldNames(c)[J(i)]) = i
             /\ Comparison!TypesAgree(c.gold.columns[J(i)].type,
                                      c.predicted.columns[i].type)
  <2>1. PredictedNames(c)[i] \in Comparison!Range(GoldNames(c))
    BY <1>1, Counterparts DEF Comparison!Range
  <2>2. /\ J(i) \in DOMAIN c.gold.columns
        /\ GoldNames(c)[J(i)] = PredictedNames(c)[i]
    BY <1>1, <2>1, PositionIn
  <2>3. Comparison!Position(PredictedNames(c), PredictedNames(c)[i]) = i
    BY <1>1, Counterparts, PositionOf
  <2> HIDE DEF J
  <2>4. Comparison!TypesAgree(c.predicted.columns[i].type,
                              c.gold.columns[J(i)].type)
    BY <2>2, <2>3, Counterparts
  <2> QED
    BY <2>2, <2>3, <2>4, TypesFlip
<1>3. Comparison!SameColumns(S)
  <2>1. /\ S.predicted = c.gold /\ S.gold = c.predicted
        /\ PredictedNames(S) = GoldNames(c)
        /\ GoldNames(S) = PredictedNames(c)
    BY SwappedShape
  <2> HIDE DEF S
  <2>2. /\ Len(c.predicted.columns) = Len(c.gold.columns)
        /\ Comparison!WellFormed(c.predicted)
        /\ Comparison!WellFormed(c.gold)
        /\ Comparison!Range(PredictedNames(c))
               = Comparison!Range(GoldNames(c))
    BY DEF Comparison!SameColumns, PredictedNames, GoldNames
  <2>3. \A i \in DOMAIN c.predicted.columns :
           Comparison!TypesAgree(
               c.gold.columns[Comparison!Position(
                   GoldNames(c), PredictedNames(c)[i])].type,
               c.predicted.columns[i].type)
    BY <1>2
  <2> QED
    BY <2>1, <2>2, <2>3
       DEF Comparison!SameColumns, PredictedNames, GoldNames
<1> QED
  BY <1>2, <1>3

\* The gold column that stands for a predicted one.
Mate(c, k) == Comparison!Position(GoldNames(c), PredictedNames(c)[k])

LEMMA MateCells ==
    ASSUME NEW c \in Comparison!Comparisons, Comparison!SameColumns(c),
           NEW k \in DOMAIN c.predicted.columns
    PROVE  /\ Mate(c, k) \in DOMAIN c.gold.columns
           /\ GoldNames(c)[Mate(c, k)] = PredictedNames(c)[k]
           /\ Comparison!TypesAgree(c.gold.columns[Mate(c, k)].type,
                                    c.predicted.columns[k].type)
           /\ \A i \in DOMAIN c.predicted.rows :
                 /\ c.predicted.rows[i][k] \in Comparison!Cell
                 /\ Comparison!Aligned(c)[i][Mate(c, k)]
                        = c.predicted.rows[i][k]
           /\ \A j \in DOMAIN c.gold.rows :
                 /\ c.gold.rows[j][Mate(c, k)] \in Comparison!Cell
                 /\ Comparison!Aligned(Swapped(c))[j][k]
                        = c.gold.rows[j][Mate(c, k)]
<1> DEFINE h == Mate(c, k)
           S == Swapped(c)
<1>1. /\ h \in DOMAIN c.gold.columns
      /\ GoldNames(c)[h] = PredictedNames(c)[k]
      /\ Comparison!Position(PredictedNames(c), GoldNames(c)[h]) = k
      /\ Comparison!TypesAgree(c.gold.columns[h].type,
                               c.predicted.columns[k].type)
  BY CounterpartsFlip DEF Mate
<1>2. /\ DOMAIN c.predicted.columns = 1..Len(c.predicted.columns)
      /\ DOMAIN c.gold.columns = 1..Len(c.gold.columns)
      /\ DOMAIN c.predicted.rows = 1..Len(c.predicted.rows)
      /\ DOMAIN c.gold.rows = 1..Len(c.gold.rows)
      /\ \A i \in DOMAIN c.predicted.rows :
            c.predicted.rows[i] \in Seq(Comparison!Cell)
      /\ \A j \in DOMAIN c.gold.rows :
            c.gold.rows[j] \in Seq(Comparison!Cell)
  BY Shapes, ResultShape
<1>3. /\ \A i \in DOMAIN c.predicted.rows :
            Len(c.predicted.rows[i]) = Len(c.predicted.columns)
      /\ \A j \in DOMAIN c.gold.rows :
            Len(c.gold.rows[j]) = Len(c.gold.columns)
  BY Counterparts
<1>4. ASSUME NEW i \in DOMAIN c.predicted.rows
      PROVE  /\ c.predicted.rows[i][k] \in Comparison!Cell
             /\ Comparison!Aligned(c)[i][h] = c.predicted.rows[i][k]
  <2>1. c.predicted.rows[i][k] \in Comparison!Cell
    BY <1>2, <1>3
  <2> HIDE DEF h
  <2>2. Comparison!Aligned(c)[i][h] = c.predicted.rows[i][k]
    BY <1>1, <1>2, AlignedRows
  <2> QED
    BY <2>1, <2>2
<1>5. ASSUME NEW j \in DOMAIN c.gold.rows
      PROVE  /\ c.gold.rows[j][h] \in Comparison!Cell
             /\ Comparison!Aligned(S)[j][k] = c.gold.rows[j][h]
  <2> HIDE DEF h, S
  <2>1. c.gold.rows[j][h] \in Comparison!Cell
    <3>1. h \in 1..Len(c.gold.rows[j])
      BY <1>1, <1>2, <1>3
    <3> QED
      BY <1>2, <3>1
  <2>2. /\ S \in Comparison!Comparisons
        /\ S.predicted = c.gold /\ S.gold = c.predicted
        /\ PredictedNames(S) = GoldNames(c)
        /\ GoldNames(S) = PredictedNames(c)
    BY SwappedShape DEF S
  <2>3. Comparison!Aligned(S)[j][k]
            = S.predicted.rows[j][
                  Comparison!Position(PredictedNames(S), GoldNames(S)[k])]
    BY <1>2, <2>2, AlignedRows
  <2> QED
    BY <2>1, <2>2, <2>3 DEF h, Mate
<1> QED
  BY <1>1, <1>4, <1>5

\* Cells that are equal one way are equal the other way.
LEMMA CellsFlip ==
    ASSUME NEW c \in Comparison!Comparisons, Comparison!SameColumns(c),
           NEW J, NEW I \in SUBSET DOMAIN c.predicted.columns,
           \A k \in I : Mate(c, k) \in J
    PROVE  /\ \A i \in DOMAIN c.predicted.rows :
                 \A j \in DOMAIN c.gold.rows :
                    Undirected(c) /\
                    Comparison!CellsEqual(c, Comparison!Aligned(c)[i],
                                          c.gold.rows[j], J)
                    => Comparison!CellsEqual(
                           Swapped(c), Comparison!Aligned(Swapped(c))[j],
                           c.predicted.rows[i], I)
           /\ \A i, j \in DOMAIN c.predicted.rows :
                 Comparison!CellsEqual(c, Comparison!Aligned(c)[i],
                                       Comparison!Aligned(c)[j], J)
                 => Comparison!CellsEqual(Swapped(c), c.predicted.rows[i],
                                          c.predicted.rows[j], I)
           /\ \A i, j \in DOMAIN c.gold.rows :
                 Comparison!CellsEqual(c, c.gold.rows[i], c.gold.rows[j], J)
                 => Comparison!CellsEqual(
                        Swapped(c), Comparison!Aligned(Swapped(c))[i],
                        Comparison!Aligned(Swapped(c))[j], I)
<1> DEFINE S == Swapped(c)
           A == Comparison!Aligned(c)
           B == Comparison!Aligned(S)
           Tol(k) == Comparison!ToleranceOf(c, PredictedNames(c)[k])
<1>1. ASSUME NEW r, NEW s, NEW k \in I, Comparison!CellsEqual(c, r, s, J)
      PROVE  Comparison!ValueEqual(r[Mate(c, k)], s[Mate(c, k)],
                                   c.predicted.columns[k].type, Tol(k))
  <2>1. Comparison!ValueEqual(
            r[Mate(c, k)], s[Mate(c, k)], c.gold.columns[Mate(c, k)].type,
            Comparison!ToleranceOf(c, GoldNames(c)[Mate(c, k)]))
    BY <1>1 DEF Comparison!CellsEqual, GoldNames
  <2> QED
    BY <2>1, MateCells, ValueRetyped
<1>2. ASSUME NEW r, NEW s,
             \A k \in I : Comparison!ValueEqual(
                              r[k], s[k], c.predicted.columns[k].type, Tol(k))
      PROVE  Comparison!CellsEqual(S, r, s, I)
  <2>1. /\ S.gold = c.predicted
        /\ Comparison!Names(S.gold.columns) = PredictedNames(c)
        /\ \A name : Comparison!ToleranceOf(S, name)
                         = Comparison!ToleranceOf(c, name)
    BY SwappedShape DEF PredictedNames
  <2> HIDE DEF S
  <2> QED
    BY <1>2, <2>1 DEF Comparison!CellsEqual
<1>3. ASSUME NEW k \in I, Undirected(c)
      PROVE  \A t \in Tol(k) : t.absolute \in Nat /\ t.relative = 0
  BY <1>3, ToleranceTyped
<1>4. \A k \in I :
         /\ \A i \in DOMAIN c.predicted.rows :
               /\ c.predicted.rows[i][k] \in Comparison!Cell
               /\ A[i][Mate(c, k)] = c.predicted.rows[i][k]
         /\ \A j \in DOMAIN c.gold.rows :
               /\ c.gold.rows[j][Mate(c, k)] \in Comparison!Cell
               /\ B[j][k] = c.gold.rows[j][Mate(c, k)]
  BY MateCells
<1> HIDE DEF S, A, B, Tol
<1>5. ASSUME NEW i \in DOMAIN c.predicted.rows, NEW j \in DOMAIN c.gold.rows,
             Undirected(c),
             Comparison!CellsEqual(c, A[i], c.gold.rows[j], J)
      PROVE  Comparison!CellsEqual(S, B[j], c.predicted.rows[i], I)
  <2> SUFFICES ASSUME NEW k \in I
               PROVE  Comparison!ValueEqual(
                          B[j][k], c.predicted.rows[i][k],
                          c.predicted.columns[k].type, Tol(k))
    BY <1>2
  <2>1. Comparison!ValueEqual(A[i][Mate(c, k)], c.gold.rows[j][Mate(c, k)],
                              c.predicted.columns[k].type, Tol(k))
    BY <1>1, <1>5
  <2> QED
    BY <1>3, <1>4, <1>5, <2>1, ValueFlips
<1>6. ASSUME NEW i \in DOMAIN c.predicted.rows,
             NEW j \in DOMAIN c.predicted.rows,
             Comparison!CellsEqual(c, A[i], A[j], J)
      PROVE  Comparison!CellsEqual(S, c.predicted.rows[i],
                                   c.predicted.rows[j], I)
  <2>1. \A k \in I : Comparison!ValueEqual(
                         A[i][Mate(c, k)], A[j][Mate(c, k)],
                         c.predicted.columns[k].type, Tol(k))
    BY <1>1, <1>6
  <2> QED
    BY <1>2, <1>4, <2>1
<1>7. ASSUME NEW i \in DOMAIN c.gold.rows, NEW j \in DOMAIN c.gold.rows,
             Comparison!CellsEqual(c, c.gold.rows[i], c.gold.rows[j], J)
      PROVE  Comparison!CellsEqual(S, B[i], B[j], I)
  <2>1. \A k \in I : Comparison!ValueEqual(
                         c.gold.rows[i][Mate(c, k)],
                         c.gold.rows[j][Mate(c, k)],
                         c.predicted.columns[k].type, Tol(k))
    BY <1>1, <1>7
  <2> QED
    BY <1>2, <1>4, <2>1
<1> QED
  BY <1>5, <1>6, <1>7 DEF S, A, B

\* Whoever is paired one to one can be paired back.
LEMMA PairedBack ==
    ASSUME NEW n \in Nat, NEW f \in [1..n -> 1..n],
           \A i, k \in 1..n : f[i] = f[k] => i = k
    PROVE  \E g \in [1..n -> 1..n] :
              \A i \in 1..n : g[f[i]] = i /\ f[g[i]] = i
<1>1. ASSUME NEW j \in 1..n
      PROVE  \E i \in 1..n : f[i] = j
  <2> SUFFICES ASSUME \A i \in 1..n : f[i] # j
               PROVE  FALSE
    OBVIOUS
  <2> DEFINE T == (1..n) \ {j}
  <2>1. f \in [1..n -> T]
    OBVIOUS
  <2>2. /\ IsFiniteSet(1..n) /\ Cardinality(1..n) = n
    BY FS_Interval
  <2>3. IsFiniteSet(T) /\ Cardinality(T) = n - 1
    BY <2>2, FS_RemoveElement
  <2>4. \E x, y \in 1..n : x # y /\ f[x] = f[y]
    <3> HIDE DEF T
    <3>1. Cardinality(T) < Cardinality(1..n)
      BY <2>2, <2>3
    <3> QED
      BY <2>1, <2>2, <2>3, <3>1, FS_PigeonHole
  <2> QED
    BY <2>4
<1> DEFINE g == [j \in 1..n |-> CHOOSE i \in 1..n : f[i] = j]
<1>2. \A j \in 1..n : g[j] \in 1..n /\ f[g[j]] = j
  BY <1>1
<1>3. g \in [1..n -> 1..n]
  BY <1>2
<1> HIDE DEF g
<1>4. \A i \in 1..n : g[f[i]] = i
  BY <1>2
<1> QED
  BY <1>2, <1>3, <1>4

\* What the reasons to refuse ask of the columns.
BadTolerance(c) ==
    \E i \in DOMAIN c.gold.columns :
       /\ Comparison!ToleranceOf(c, GoldNames(c)[i]) # {}
       /\ c.gold.columns[i].type \notin Comparison!NumericTypes
NeedsTolerance(c) ==
    \E i \in DOMAIN c.gold.columns :
       /\ c.gold.columns[i].type \in Comparison!FloatTypes
       /\ ~ Comparison!ToleranceOf(c, GoldNames(c)[i]) # {}

LEMMA ColumnsFlip ==
    ASSUME NEW c \in Comparison!Comparisons, Comparison!SameColumns(c)
    PROVE  /\ BadTolerance(c) => BadTolerance(Swapped(c))
           /\ NeedsTolerance(c) => NeedsTolerance(Swapped(c))
           /\ Comparison!ValidKeys(c) <=> Comparison!ValidKeys(Swapped(c))
<1> DEFINE S == Swapped(c)
<1>1. /\ S.gold = c.predicted /\ S.keys = c.keys
      /\ GoldNames(S) = PredictedNames(c)
      /\ \A name : Comparison!ToleranceOf(S, name)
                       = Comparison!ToleranceOf(c, name)
  BY SwappedShape
<1> HIDE DEF S
<1>2. ASSUME NEW i \in DOMAIN c.gold.columns
      PROVE  \E k \in DOMAIN S.gold.columns :
                /\ GoldNames(S)[k] = GoldNames(c)[i]
                /\ S.gold.columns[k].type \in Comparison!NumericTypes
                       <=> c.gold.columns[i].type \in Comparison!NumericTypes
                /\ S.gold.columns[k].type \in Comparison!FloatTypes
                       <=> c.gold.columns[i].type \in Comparison!FloatTypes
  <2> DEFINE k == Comparison!Position(PredictedNames(c), GoldNames(c)[i])
  <2>1. /\ k \in DOMAIN c.predicted.columns
        /\ PredictedNames(c)[k] = GoldNames(c)[i]
        /\ Comparison!TypesAgree(c.predicted.columns[k].type,
                                 c.gold.columns[i].type)
    BY Counterparts
  <2> QED
    BY <1>1, <2>1, TypesFlip
<1>3. BadTolerance(c) => BadTolerance(S)
  BY <1>1, <1>2 DEF BadTolerance
<1>4. NeedsTolerance(c) => NeedsTolerance(S)
  BY <1>1, <1>2 DEF NeedsTolerance
<1>5. Comparison!Range(GoldNames(S)) = Comparison!Range(GoldNames(c))
  BY <1>1, Counterparts
<1>6. Comparison!ValidKeys(c) <=> Comparison!ValidKeys(S)
  BY <1>1, <1>5 DEF Comparison!ValidKeys, GoldNames
<1> QED
  BY <1>3, <1>4, <1>6 DEF S

LEMMA RefusalFlips ==
    ASSUME NEW c \in Comparison!Comparisons
    PROVE  Comparison!Refusal(Swapped(c)) = Comparison!Refusal(c)
<1> DEFINE S == Swapped(c)
           Unnamed(d) == \E i \in DOMAIN d.tolerances :
                            Comparison!Folded[d.tolerances[i].column]
                                \notin Comparison!Range(GoldNames(d))
           Some(d) == d.predicted.rows \o d.gold.rows # <<>>
<1>1. /\ S \in Comparison!Comparisons /\ Swapped(S) = c
      /\ S.predicted = c.gold /\ S.gold = c.predicted
      /\ S.mode = c.mode /\ S.ordered = c.ordered
      /\ S.tolerances = c.tolerances
      /\ GoldNames(S) = PredictedNames(c)
  BY SwappedShape
<1> HIDE DEF S
<1>2. Comparison!SameColumns(S) <=> Comparison!SameColumns(c)
  BY <1>1, CounterpartsFlip DEF S
<1>3. Some(S) <=> Some(c)
  <2>1. \A r, s \in Seq(Seq(Comparison!Cell)) :
           r \o s # <<>> <=> Len(r) + Len(s) # 0
    OBVIOUS
  <2>2. \A r, s \in Seq(Seq(Comparison!Cell)) :
           Len(r) + Len(s) = Len(s) + Len(r)
    OBVIOUS
  <2>3. /\ c.predicted.rows \in Seq(Seq(Comparison!Cell))
        /\ c.gold.rows \in Seq(Seq(Comparison!Cell))
    BY Shapes, ResultShape
  <2> QED
    BY <1>1, <2>1, <2>2, <2>3
<1>4. ASSUME Comparison!SameColumns(c)
      PROVE  /\ BadTolerance(S) <=> BadTolerance(c)
             /\ NeedsTolerance(S) <=> NeedsTolerance(c)
             /\ Comparison!ValidKeys(S) <=> Comparison!ValidKeys(c)
             /\ Unnamed(S) <=> Unnamed(c)
  <2>1. /\ BadTolerance(S) <=> BadTolerance(c)
        /\ NeedsTolerance(S) <=> NeedsTolerance(c)
        /\ Comparison!ValidKeys(S) <=> Comparison!ValidKeys(c)
    BY <1>1, <1>2, <1>4, ColumnsFlip DEF S
  <2>2. Comparison!Range(GoldNames(S)) = Comparison!Range(GoldNames(c))
    BY <1>1, <1>4, Counterparts
  <2> QED
    BY <1>1, <2>1, <2>2
<1>5. ASSUME NEW d
      PROVE  Comparison!Refusal(d) =
                 IF d.mode = "none" THEN "not_applicable"
                 ELSE IF d.predicted.truncated \/ d.gold.truncated
                      THEN "truncated"
                 ELSE IF ~Comparison!SameColumns(d) \/ Unnamed(d)
                      THEN "columns"
                 ELSE IF BadTolerance(d) THEN "invalid_tolerance"
                 ELSE IF NeedsTolerance(d) /\ Some(d)
                      THEN "tolerance_required"
                 ELSE IF Len(d.predicted.rows) # Len(d.gold.rows)
                      THEN "grain"
                 ELSE IF /\ ~d.ordered /\ d.mode = "keyed"
                         /\ ~Comparison!ValidKeys(d)
                      THEN "invalid_key"
                 ELSE "none"
  BY DEF Comparison!Refusal, BadTolerance, NeedsTolerance, GoldNames
<1> HIDE DEF Unnamed, Some
<1>6. CASE Comparison!SameColumns(c)
  BY <1>1, <1>2, <1>3, <1>4, <1>5, <1>6 DEF S
<1>7. CASE ~Comparison!SameColumns(c)
  BY <1>1, <1>2, <1>5, <1>7 DEF S
<1> QED
  BY <1>6, <1>7

\* A verdict on the rows is a verdict on the rows the other way.
LEMMA RowsFlip ==
    ASSUME NEW c \in Comparison!Comparisons, Comparison!Refusal(c) = "none"
    PROVE  /\ ~c.ordered /\ c.mode = "keyed" /\
              (\/ Comparison!DuplicateKey(c, Comparison!Aligned(c))
               \/ Comparison!DuplicateKey(c, c.gold.rows))
              => \/ Comparison!DuplicateKey(Swapped(c),
                                            Comparison!Aligned(Swapped(c)))
                 \/ Comparison!DuplicateKey(Swapped(c), c.predicted.rows)
           /\ Undirected(c) /\ Comparison!RowsMatch(c, Comparison!Aligned(c))
              => Comparison!RowsMatch(Swapped(c),
                                      Comparison!Aligned(Swapped(c)))
<1> DEFINE S == Swapped(c)
           A == Comparison!Aligned(c)
           B == Comparison!Aligned(S)
           P == c.predicted.rows
           G == c.gold.rows
           n == Len(G)
           Keyed == ~c.ordered /\ c.mode = "keyed"
<1>1. /\ Comparison!SameColumns(c) /\ Len(P) = n /\ c.mode # "none"
      /\ Keyed => Comparison!ValidKeys(c)
  BY NotRefused
<1>2. /\ S \in Comparison!Comparisons /\ Swapped(S) = c
      /\ S.predicted = c.gold /\ S.gold = c.predicted
      /\ S.mode = c.mode /\ S.ordered = c.ordered /\ S.keys = c.keys
      /\ Undirected(S) <=> Undirected(c)
      /\ Comparison!SameColumns(S)
  BY <1>1, SwappedShape, CounterpartsFlip
<1>3. /\ DOMAIN A = 1..n /\ DOMAIN B = 1..n
      /\ DOMAIN P = 1..n /\ DOMAIN G = 1..n /\ n \in Nat
  <2>1. n \in Nat /\ DOMAIN P = 1..Len(P) /\ DOMAIN G = 1..n
    BY Shapes, ResultShape
  <2> QED
    BY <1>1, <1>2, <2>1, AlignedRows
<1>4. ASSUME NEW d \in Comparison!Comparisons, Comparison!SameColumns(d)
      PROVE  /\ \A k \in DOMAIN d.predicted.columns :
                   Mate(d, k) \in DOMAIN d.gold.columns
             /\ DOMAIN Swapped(d).gold.columns = DOMAIN d.predicted.columns
             /\ Comparison!ValidKeys(d) =>
                    /\ Comparison!KeyColumns(Swapped(d))
                           \subseteq DOMAIN d.predicted.columns
                    /\ \A k \in Comparison!KeyColumns(Swapped(d)) :
                          Mate(d, k) \in Comparison!KeyColumns(d)
  <2>1. \A k \in DOMAIN d.predicted.columns :
           Mate(d, k) \in DOMAIN d.gold.columns
    BY <1>4, MateCells
  <2>2. /\ Swapped(d).gold = d.predicted /\ Swapped(d).keys = d.keys
        /\ GoldNames(Swapped(d)) = PredictedNames(d)
    BY <1>4, SwappedShape
  <2>3. ASSUME Comparison!ValidKeys(d),
               NEW k \in Comparison!KeyColumns(Swapped(d))
        PROVE  /\ k \in DOMAIN d.predicted.columns
               /\ Mate(d, k) \in Comparison!KeyColumns(d)
    <3>1. PICK i \in DOMAIN d.keys :
             k = Comparison!Position(PredictedNames(d),
                                     Comparison!Folded[d.keys[i]])
      BY <2>2, <2>3 DEF Comparison!KeyColumns, GoldNames
    <3>2. Comparison!Folded[d.keys[i]] \in Comparison!Range(GoldNames(d))
      BY <2>3 DEF Comparison!ValidKeys, Comparison!Range, GoldNames
    <3>3. Comparison!Folded[d.keys[i]]
              \in Comparison!Range(PredictedNames(d))
      BY <1>4, <3>2, Counterparts
    <3>4. /\ k \in DOMAIN PredictedNames(d)
          /\ PredictedNames(d)[k] = Comparison!Folded[d.keys[i]]
      BY <3>1, <3>3, PositionIn
    <3>5. DOMAIN PredictedNames(d) = DOMAIN d.predicted.columns
      BY <1>4, Shapes, ResultShape DEF PredictedNames
    <3>6. Mate(d, k) \in Comparison!KeyColumns(d)
      BY <3>4 DEF Mate, Comparison!KeyColumns, GoldNames
    <3> QED
      BY <3>4, <3>5, <3>6
  <2> QED
    BY <2>1, <2>2, <2>3
<1>5. ASSUME Undirected(c), NEW i \in 1..n, NEW j \in 1..n,
             Comparison!RowEqual(c, A[i], G[j])
      PROVE  Comparison!RowEqual(S, B[j], P[i])
  BY <1>1, <1>3, <1>4, <1>5, CellsFlip DEF Comparison!RowEqual
<1>6. ASSUME Undirected(c), Comparison!ValidKeys(c),
             NEW i \in 1..n, NEW j \in 1..n
      PROVE  Comparison!KeysEqual(c, A[i], G[j])
                 <=> Comparison!KeysEqual(S, B[j], P[i])
  <2>1. Comparison!KeysEqual(c, A[i], G[j])
            => Comparison!KeysEqual(S, B[j], P[i])
    BY <1>1, <1>3, <1>4, <1>6, CellsFlip DEF Comparison!KeysEqual
  <2>2. Comparison!ValidKeys(S)
    BY <1>1, <1>6, ColumnsFlip
  <2>3. Comparison!KeysEqual(S, B[j], S.gold.rows[i])
            => Comparison!KeysEqual(Swapped(S),
                                    Comparison!Aligned(Swapped(S))[i],
                                    S.predicted.rows[j])
    <3> HIDE DEF S
    <3> QED
      BY <1>2, <1>3, <1>4, <1>6, <2>2, CellsFlip DEF Comparison!KeysEqual
  <2> HIDE DEF S
  <2> QED
    BY <1>2, <2>1, <2>3
<1>7. ASSUME Keyed, \/ Comparison!DuplicateKey(c, A)
                    \/ Comparison!DuplicateKey(c, G)
      PROVE  \/ Comparison!DuplicateKey(S, B)
             \/ Comparison!DuplicateKey(S, P)
  <2>1. /\ \A i, j \in DOMAIN P : Comparison!KeysEqual(c, A[i], A[j])
                 => Comparison!KeysEqual(S, P[i], P[j])
        /\ \A i, j \in DOMAIN G : Comparison!KeysEqual(c, G[i], G[j])
                 => Comparison!KeysEqual(S, B[i], B[j])
    BY <1>1, <1>4, <1>7, CellsFlip DEF Comparison!KeysEqual
  <2> HIDE DEF A, B, S
  <2> QED
    BY <1>3, <1>7, <2>1 DEF Comparison!DuplicateKey
<1>8. ASSUME Undirected(c), Comparison!RowsMatch(c, A)
      PROVE  Comparison!RowsMatch(S, B)
  <2>1. CASE c.ordered \/ c.mode = "exact"
    <3>1. \A i \in 1..n : Comparison!RowEqual(c, A[i], G[i])
      BY <1>3, <1>8, <2>1
         DEF Comparison!RowsMatch, Comparison!OrderedRowsEqual
    <3>2. \A i \in 1..n : Comparison!RowEqual(S, B[i], P[i])
      BY <1>5, <1>8, <3>1
    <3> HIDE DEF B, S
    <3> QED
      BY <1>2, <1>3, <2>1, <3>2
         DEF Comparison!RowsMatch, Comparison!OrderedRowsEqual
  <2>2. CASE ~c.ordered /\ c.mode = "multiset"
    <3>1. Comparison!UnorderedRowsEqual(c, A)
      BY <1>8, <2>2 DEF Comparison!RowsMatch
    <3>2. PICK f \in [1..n -> 1..n] :
             /\ \A i, k \in 1..n : f[i] = f[k] => i = k
             /\ \A i \in 1..n : Comparison!RowEqual(c, A[i], G[f[i]])
      BY <1>3, <3>1
         DEF Comparison!UnorderedRowsEqual, Comparison!Injection,
             Comparison!IsInjective
    <3>3. PICK g \in [1..n -> 1..n] :
             \A i \in 1..n : g[f[i]] = i /\ f[g[i]] = i
      BY <1>3, <3>2, PairedBack
    <3>4. \A j \in 1..n : Comparison!RowEqual(S, B[j], P[g[j]])
      BY <1>5, <1>8, <3>2, <3>3
    <3>5. g \in Comparison!Injection(1..n, 1..n)
      BY <3>3 DEF Comparison!Injection, Comparison!IsInjective
    <3> HIDE DEF B, S
    <3>6. Comparison!UnorderedRowsEqual(S, B)
      BY <1>2, <1>3, <3>4, <3>5 DEF Comparison!UnorderedRowsEqual
    <3> QED
      BY <1>2, <2>2, <3>6 DEF Comparison!RowsMatch
  <2>3. CASE Keyed
    <3>1. Comparison!KeyedRowsEqual(c, A) /\ Comparison!ValidKeys(c)
      BY <1>1, <1>8, <2>3 DEF Comparison!RowsMatch
    <3>2. PICK f : KeyPairing(c, A, f)
      BY <3>1, KeyedPairs
    <3>3. /\ f \in [1..n -> 1..n]
          /\ \A i, k \in 1..n : f[i] = f[k] => i = k
          /\ \A i \in 1..n :
                /\ Comparison!RowEqual(c, A[i], G[f[i]])
                /\ \A j \in 1..n :
                      Comparison!KeysEqual(c, A[i], G[j]) <=> j = f[i]
      BY <1>3, <3>2 DEF KeyPairing
    <3>4. PICK g \in [1..n -> 1..n] :
             \A i \in 1..n : g[f[i]] = i /\ f[g[i]] = i
      <4>1. n \in Nat /\ f \in [1..n -> 1..n]
        BY <1>3, <3>3
      <4>2. \A i, k \in 1..n : f[i] = f[k] => i = k
        BY <3>3
      <4> QED
        BY <4>1, <4>2, PairedBack
    <3>5. \A j \in 1..n :
             /\ Comparison!RowEqual(S, B[j], P[g[j]])
             /\ \A i \in 1..n :
                   Comparison!KeysEqual(S, B[j], P[i]) <=> i = g[j]
      BY <1>5, <1>6, <1>8, <3>1, <3>3, <3>4
    <3>6. \A i, k \in 1..n : g[i] = g[k] => i = k
      BY <3>4
    <3> HIDE DEF B, S
    <3>7. KeyPairing(S, B, g)
      BY <1>2, <1>3, <3>4, <3>5, <3>6 DEF KeyPairing
    <3> QED
      BY <1>2, <2>3, <3>7, KeyedPairs DEF Comparison!RowsMatch
  <2> QED
    BY <1>1, <2>1, <2>2, <2>3, Shapes
<1> QED
  BY <1>7, <1>8

\* Neither side is privileged.
LEMMA SwappedVerdict ==
    ASSUME NEW c \in Comparison!Comparisons, Undirected(c)
    PROVE  Comparison!CompareResults(Swapped(c))
               = Comparison!CompareResults(c)
<1> DEFINE S == Swapped(c)
           Duplicate(d) == /\ ~d.ordered /\ d.mode = "keyed"
                           /\ \/ Comparison!DuplicateKey(
                                     d, Comparison!Aligned(d))
                              \/ Comparison!DuplicateKey(d, d.gold.rows)
           Matched(d) == Comparison!RowsMatch(d, Comparison!Aligned(d))
<1>1. /\ S \in Comparison!Comparisons /\ Swapped(S) = c
      /\ S.gold = c.predicted /\ c.gold = S.predicted
      /\ S.mode = c.mode /\ S.ordered = c.ordered /\ Undirected(S)
  BY SwappedShape
<1>2. Comparison!Refusal(S) = Comparison!Refusal(c)
  BY RefusalFlips
<1>3. ASSUME NEW d
      PROVE  Comparison!CompareResults(d) =
                 IF Comparison!Refusal(d) # "none" THEN Comparison!Refusal(d)
                 ELSE IF Duplicate(d) THEN "duplicate_key"
                 ELSE IF Matched(d) THEN "match" ELSE "rows"
  BY DEF Comparison!CompareResults
<1>4. ASSUME Comparison!Refusal(c) = "none"
      PROVE  (Duplicate(S) <=> Duplicate(c)) /\ (Matched(S) <=> Matched(c))
  <2>1. (Duplicate(c) => Duplicate(S)) /\ (Matched(c) => Matched(S))
    BY <1>1, <1>4, RowsFlip
  <2>2. (Duplicate(S) => Duplicate(Swapped(S)))
        /\ (Matched(S) => Matched(Swapped(S)))
    <3> HIDE DEF S
    <3> QED
      BY <1>1, <1>2, <1>4, RowsFlip
  <2> HIDE DEF S, Duplicate, Matched
  <2> QED
    BY <1>1, <2>1, <2>2
<1> HIDE DEF S, Duplicate, Matched
<1> QED
  BY <1>2, <1>3, <1>4 DEF S

\* A result against itself: no NaN in it, and no relative tolerance when the
\* rows are looked for by their keys.
SelfCompared(c) ==
    /\ c.predicted = c.gold /\ Comparison!Refusal(c) = "none"
    /\ \A r \in Comparison!Range(c.gold.rows) :
          Comparison!NaN \notin Comparison!Range(r)
    /\ c.mode # "keyed" \/ Undirected(c)

LEMMA RowsSelf ==
    ASSUME NEW c \in Comparison!Comparisons, SelfCompared(c)
    PROVE  /\ Comparison!Aligned(c) = c.gold.rows
           /\ \A i \in DOMAIN c.gold.rows :
                 Comparison!RowEqual(c, c.gold.rows[i], c.gold.rows[i])
<1> DEFINE G == c.gold.rows
           n == Len(c.gold.columns)
<1>1. /\ Comparison!SameColumns(c) /\ c.predicted = c.gold
      /\ \A j \in DOMAIN c.gold.columns :
            Comparison!ToleranceOf(c, GoldNames(c)[j]) # {} =>
                c.gold.columns[j].type \in Comparison!NumericTypes
  BY NotRefused DEF SelfCompared
<1>2. /\ DOMAIN GoldNames(c) = 1..n /\ DOMAIN c.gold.columns = 1..n
      /\ n \in Nat /\ DOMAIN G = 1..Len(G) /\ Len(G) \in Nat
      /\ \A i \in DOMAIN G : G[i] \in Seq(Comparison!Cell)
  BY Shapes, ResultShape DEF GoldNames
<1>3. \A i \in DOMAIN G : DOMAIN G[i] = 1..n
  BY <1>1, <1>2, Counterparts
<1>4. Comparison!Aligned(c) = G
  <2>1. \A j \in 1..n :
           Comparison!Position(GoldNames(c), GoldNames(c)[j]) = j
    BY <1>1, <1>2, Counterparts, PositionOf
  <2>2. Comparison!Aligned(c) =
            [i \in DOMAIN G |->
                [j \in 1..n |-> G[i][Comparison!Position(
                                         GoldNames(c), GoldNames(c)[j])]]]
    BY <1>1, <1>2 DEF Comparison!Aligned, GoldNames
  <2>3. Comparison!Aligned(c) = [i \in DOMAIN G |-> [j \in 1..n |-> G[i][j]]]
    BY <2>1, <2>2
  <2>4. \A i \in DOMAIN G : [j \in 1..n |-> G[i][j]] = G[i]
    BY <1>2, <1>3
  <2>5. G = [i \in DOMAIN G |-> G[i]]
    <3>1. G \in Seq(Seq(Comparison!Cell))
      BY Shapes, ResultShape
    <3> HIDE DEF G
    <3> QED
      BY <3>1
  <2> HIDE DEF G
  <2> QED
    BY <2>3, <2>4, <2>5
<1>5. ASSUME NEW i \in DOMAIN G, NEW j \in 1..n
      PROVE  Comparison!ValueEqual(
                 G[i][j], G[i][j], c.gold.columns[j].type,
                 Comparison!ToleranceOf(c, GoldNames(c)[j]))
  <2> DEFINE x == G[i][j]
             Tol == Comparison!ToleranceOf(c, GoldNames(c)[j])
  <2>1. x \in Comparison!Cell /\ x # Comparison!NaN
    <3>1. x \in Comparison!Cell
      BY <1>2, <1>3
    <3>2. G[i] \in Comparison!Range(G) /\ x \in Comparison!Range(G[i])
      BY <1>3 DEF Comparison!Range
    <3> QED
      BY <3>1, <3>2 DEF SelfCompared
  <2>2. CASE x = Comparison!Null \/ Tol = {}
    BY <2>2 DEF Comparison!ValueEqual, Comparison!StrictEqual
  <2>3. CASE x # Comparison!Null /\ Tol # {}
    <3>1. x.kind = "number"
      <4>1. c.gold.columns[j].type \in Comparison!NumericTypes
        BY <1>1, <1>2, <2>3
      <4>2. c.gold \in Comparison!Results
        BY Shapes
      <4>3. \/ x \in {Comparison!Null, Comparison!NaN}
            \/ x.kind = "number"
        BY <1>2, <1>3, <4>1, <4>2 DEF Comparison!Results
      <4> QED
        BY <2>1, <2>3, <4>3
    <3>2. PICK t \in Tol : TRUE
      BY <2>3
    <3>3. t.absolute \in Nat /\ t.relative \in Nat
      BY ToleranceTyped
    <3>4. x.value \in Nat
      BY <2>1 DEF Comparison!Cell
    <3>5. Comparison!DecimalEqual(x, x, t)
      <4>1. t.relative * x.value \in Int
        BY <3>3, <3>4
      <4> HIDE DEF x
      <4> QED
        BY <3>1, <3>3, <3>4, <4>1
           DEF Comparison!DecimalEqual, Comparison!Distance,
               Comparison!Larger
    <3> HIDE DEF x, Tol
    <3>6. \A type : Comparison!ValueEqual(x, x, type, Tol)
      BY <2>3, <3>2, <3>5 DEF Comparison!ValueEqual
    <3> QED
      BY <3>6 DEF x, Tol
  <2> QED
    BY <2>2, <2>3
<1> QED
  BY <1>2, <1>4, <1>5
     DEF Comparison!RowEqual, Comparison!CellsEqual, GoldNames

\* A result that is not refused matches itself unless a key is doubled.
LEMMA SelfVerdict ==
    ASSUME NEW c \in Comparison!Comparisons, SelfCompared(c)
    PROVE  Comparison!CompareResults(c) \in {"match", "duplicate_key"}
<1> DEFINE G == c.gold.rows
<1>1. /\ Comparison!Aligned(c) = G
      /\ \A i \in DOMAIN G : Comparison!RowEqual(c, G[i], G[i])
      /\ Comparison!SameColumns(c) /\ c.predicted = c.gold
      /\ c.mode # "none"
      /\ ~c.ordered /\ c.mode = "keyed" => Comparison!ValidKeys(c)
      /\ DOMAIN G = 1..Len(G) /\ Len(G) \in Nat
  BY RowsSelf, NotRefused, Shapes, ResultShape DEF SelfCompared
<1>2. SUFFICES ASSUME ~(/\ ~c.ordered /\ c.mode = "keyed"
                        /\ Comparison!DuplicateKey(c, G))
               PROVE  Comparison!RowsMatch(c, G)
  BY <1>1 DEF SelfCompared, Comparison!CompareResults
<1>3. CASE c.ordered \/ c.mode = "exact"
  BY <1>1, <1>3 DEF Comparison!RowsMatch, Comparison!OrderedRowsEqual
<1>4. CASE ~c.ordered /\ c.mode = "multiset"
  <2> DEFINE f == [i \in DOMAIN G |-> i]
  <2>1. f \in Comparison!Injection(DOMAIN G, DOMAIN G)
    BY DEF Comparison!Injection, Comparison!IsInjective
  <2>2. Comparison!UnorderedRowsEqual(c, G)
    BY <1>1, <2>1 DEF Comparison!UnorderedRowsEqual
  <2> QED
    BY <1>4, <2>2 DEF Comparison!RowsMatch
<1>5. CASE ~c.ordered /\ c.mode = "keyed"
  <2> DEFINE f == [i \in DOMAIN G |-> i]
  <2>1. Comparison!ValidKeys(c) /\ Undirected(c)
    BY <1>1, <1>5 DEF SelfCompared
  <2>2. Comparison!KeyColumns(c) \subseteq DOMAIN c.gold.columns
    <3>1. DOMAIN GoldNames(c) = DOMAIN c.gold.columns
      BY Shapes, ResultShape DEF GoldNames
    <3>2. \A i \in DOMAIN c.keys :
             Comparison!Folded[c.keys[i]] \in Comparison!Range(GoldNames(c))
      BY <2>1 DEF Comparison!ValidKeys, Comparison!Range, GoldNames
    <3> QED
      BY <3>1, <3>2, PositionIn DEF Comparison!KeyColumns, GoldNames
  <2>3. \A i \in DOMAIN G : Comparison!KeysEqual(c, G[i], G[i])
    BY <1>1, <2>2
       DEF Comparison!KeysEqual, Comparison!RowEqual, Comparison!CellsEqual
  <2>4. ASSUME NEW i \in DOMAIN G, NEW j \in DOMAIN G,
               Comparison!KeysEqual(c, G[i], G[j])
        PROVE  Comparison!KeysEqual(c, G[j], G[i])
    <3> SUFFICES ASSUME NEW k \in Comparison!KeyColumns(c)
                 PROVE  Comparison!ValueEqual(
                            G[j][k], G[i][k], c.gold.columns[k].type,
                            Comparison!ToleranceOf(c, GoldNames(c)[k]))
      BY DEF Comparison!KeysEqual, Comparison!CellsEqual, GoldNames
    <3>1. Comparison!ValueEqual(
              G[i][k], G[j][k], c.gold.columns[k].type,
              Comparison!ToleranceOf(c, GoldNames(c)[k]))
      BY <2>4 DEF Comparison!KeysEqual, Comparison!CellsEqual, GoldNames
    <3>2. G[i][k] \in Comparison!Cell /\ G[j][k] \in Comparison!Cell
      <4>1. /\ G[i] \in Seq(Comparison!Cell) /\ G[j] \in Seq(Comparison!Cell)
            /\ Len(G[i]) = Len(c.gold.columns)
            /\ Len(G[j]) = Len(c.gold.columns)
            /\ DOMAIN c.gold.columns = 1..Len(c.gold.columns)
        BY <1>1, Shapes, ResultShape, Counterparts
      <4> QED
        BY <2>2, <4>1
    <3> QED
      BY <2>1, <3>1, <3>2, ToleranceTyped, ValueFlips
  <2>5. \A i, j \in DOMAIN G : i < j => ~Comparison!KeysEqual(c, G[i], G[j])
    BY <1>2, <1>5 DEF Comparison!DuplicateKey
  <2>6. \A i, j \in DOMAIN G : Comparison!KeysEqual(c, G[i], G[j]) <=> j = i
    BY <1>1, <2>3, <2>4, <2>5
  <2>7. KeyPairing(c, G, f)
    BY <1>1, <2>6 DEF KeyPairing
  <2> QED
    BY <1>5, <2>7, KeyedPairs DEF Comparison!RowsMatch
<1> QED
  BY <1>1, <1>3, <1>4, <1>5, Shapes

\* What the comparison keeps to, and what it comes to.
Compared ==
    /\ comparison \in Comparison!Comparisons
    /\ code \in {"none", Comparison!CompareResults(comparison)}

LEMMA ComparedAnswers ==
    ASSUME Compared
    PROVE  /\ Comparison!MatchIsPairing /\ Comparison!ColumnOrderFree
           /\ Comparison!Symmetric /\ Comparison!MatchesItself
<1>1. Comparison!MatchIsPairing
  BY MatchPairs DEF Compared, Comparison!MatchIsPairing
<1>2. Comparison!ColumnOrderFree
  BY TurnedVerdict DEF Compared, Comparison!ColumnOrderFree, Turned
<1>3. Comparison!Symmetric
  BY SwappedVerdict DEF Compared, Comparison!Symmetric, Swapped, Undirected
<1>4. Comparison!MatchesItself
  <2> SUFFICES ASSUME code # "none", SelfCompared(comparison)
               PROVE  code \in {"match", "duplicate_key"}
    BY DEF Comparison!MatchesItself, SelfCompared, Undirected
  <2> QED
    BY SelfVerdict DEF Compared
<1> QED
  BY <1>1, <1>2, <1>3, <1>4

(* For results of any size, any types, tolerances and keys                 *)
(* (compare_results): what is told to match can be paired row by row, the  *)
(* order of the predicted columns does not matter, without a relative      *)
(* tolerance neither side is privileged, and a result matches itself       *)
(* unless a key is doubled.                                                *)
THEOREM ComparisonJudged ==
    ASSUME Comparison!ComparisonAssumption
    PROVE  MCSpec => []ComparisonRight
<1> DEFINE Holds == part = "comparison" => Compared
<1>1. MCInit => Holds
  BY DEF MCInit, Comparison!Init, Comparison!ComparisonAssumption, Compared
<1>2. Holds /\ [MCNext]_mcVars => Holds'
  <2> SUFFICES ASSUME Holds, [MCNext]_mcVars, part' = "comparison"
               PROVE  Compared'
    OBVIOUS
  <2>1. part = "comparison" /\ [Comparison!Next]_Comparison!vars
    <3>1. CASE UNCHANGED mcVars
      BY <3>1 DEF mcVars, Comparison!vars
    <3>2. CASE MCNext
      BY <3>2 DEF MCNext
    <3> QED
      BY <3>1, <3>2
  <2> QED
    BY <2>1 DEF Compared, Comparison!Next, Comparison!Compare,
                Comparison!vars
<1>3. Holds => ComparisonRight
  BY ComparedAnswers DEF ComparisonRight
<1> QED
  BY <1>1, <1>2, <1>3, PTL DEF MCSpec

-----------------------------------------------------------------------------
(* One case of the evaluation.  What is remembered of the database is the  *)
(* version it had, so that the claim is about the moments at which the     *)
(* harness and the workflow look: the snapshot is opened before the first  *)
(* look (Looked), the schema is read after that of Gold (Early), an        *)
(* attempt adds at most two calls (Budgeted), and what an attempt came to  *)
(* is known by the stage the workflow is at (Tried).                       *)

Attempt == [sql : {"fixture", "model"}, outcome : Judgement!Outcomes,
            at : Judgement!Versions \union {None}]

CaseTyped ==
    /\ case \in Cases /\ Judgement!ValidCase(case)
    /\ snapshots \in BOOLEAN /\ trace \in BOOLEAN
    /\ db \in Judgement!Versions
    /\ pinned \in Judgement!Versions \union {None}
    /\ gold \in [schema : Judgement!Versions \union {None},
                 validated : BOOLEAN, rows : Judgement!Versions \union {None}]
    /\ schema \in Judgement!Versions \union {None}
    /\ attempts \in Seq(Attempt)
    /\ calls \in Nat /\ delegated \in 0..calls
    /\ final = [status |-> final.status, error |-> final.error]

(* The stages before the workflow's own work. *)
Asking == {"gold_schema", "gold_sql", "gold_rows"}
Before == {"enter", "schema"} \union Asking

Early ==
    /\ pc \in Before \union {"generate", "fallback", "validate", "execute",
                             "reflect", "trace", "judge", "done"}
    /\ pc \in Before => attempts = <<>> /\ calls = 0 /\ schema = None
    /\ pc # "done" => code = None
    /\ pc = "enter" => gold.rows = None
    /\ case.behavior # "EXECUTE" =>
           /\ gold.rows = None /\ ~gold.validated /\ pc \notin Asking
    /\ gold.schema # None /\ schema # None => schema = gold.schema

(* With snapshots everything that was seen, was seen in the one that is    *)
(* pinned.                                                                 *)
Looked ==
    snapshots =>
        /\ pc \notin {"enter", "done"} => pinned # None
        /\ gold.rows \in {None, pinned}
        /\ \A i \in 1..Len(attempts) : attempts[i].at \in {None, pinned}

(* The budget of repairs: an attempt takes a call of the model and, when   *)
(* that fails, one of the fallback.                                        *)
Budgeted ==
    /\ Len(attempts) <= MaxRepairs + 1 /\ calls <= 2 * (MaxRepairs + 1)
    /\ pc \in {"generate", "fallback"} => Len(attempts) <= MaxRepairs
    /\ pc \in {"generate", "validate", "execute", "reflect"} =>
           calls <= 2 * Len(attempts)
    /\ pc = "fallback" => calls <= 2 * Len(attempts) + 1
    /\ pc \in {"validate", "execute", "reflect"} => attempts # <<>>

(* The answers that are the case's own. *)
Answered ==
    /\ \A i \in 1..Len(attempts) :
           attempts[i].sql = "fixture" <=>
               /\ case.fixture
               /\ \/ case.category = "security"
                  \/ case.category = "reflection" /\ i = 1
    /\ case.fixture /\ case.category = "reflection" =>
           (calls = 0 <=> attempts = <<>>)
    /\ case.fixture /\ case.category = "security" => delegated = 0

Asked == {i \in DOMAIN attempts : attempts[i].at # None}

Retried == {"invalid", "repairable"}

(* Every attempt but the last was repaired; the last one is not executed   *)
(* before the stage "execute" is over.                                     *)
Tried ==
    /\ execute_count = Cardinality(Asked)
    /\ \A i \in 1..Len(attempts) :
           attempts[i].outcome = "rows" => attempts[i].at # None
    /\ \A i \in 1..Len(attempts) - 1 : attempts[i].outcome \in Retried
    /\ pc \in {"generate", "fallback", "reflect"} =>
           \A i \in 1..Len(attempts) : attempts[i].outcome \in Retried
    /\ pc \in {"validate", "execute"} => attempts[Len(attempts)].at = None
    /\ pc \in {"trace", "judge"} =>
           /\ final.status = "SUCCEEDED_FIRST_PASS" => Len(attempts) = 1
           /\ final.status = "SUCCEEDED_REPAIRED" => Len(attempts) > 1

Judged == Judgement!PassEarned /\ Judgement!ContractAgrees

CaseInv ==
    /\ CaseTyped /\ Early /\ Looked /\ Budgeted /\ Answered /\ Tried /\ Judged

(* A new attempt stands behind the others.                                 *)
LEMMA AttemptAdded ==
    ASSUME attempts \in Seq(Attempt), NEW s \in {"fixture", "model"},
           Judgement!NewAttempt(s)
    PROVE  /\ attempts' \in Seq(Attempt) /\ attempts' # <<>>
           /\ Len(attempts') = Len(attempts) + 1
           /\ \A i \in 1..Len(attempts) : attempts'[i] = attempts[i]
           /\ attempts'[Len(attempts')].sql = s
           /\ attempts'[Len(attempts')].outcome = "open"
           /\ attempts'[Len(attempts')].at = None
           /\ pc' = "validate"
<1> DEFINE new == [sql |-> s, outcome |-> "open", at |-> None]
<1>1. new \in Attempt
  BY DEF Attempt, Judgement!Outcomes
<1>2. attempts' = Append(attempts, new) /\ pc' = "validate"
  BY DEF Judgement!NewAttempt
<1>3. new.sql = s /\ new.outcome = "open" /\ new.at = None
  OBVIOUS
<1> HIDE DEF new
<1> QED
  BY <1>1, <1>2, <1>3

(* Another record in the place of the last attempt.                        *)
LEMMA LastReplaced ==
    ASSUME attempts \in Seq(Attempt), attempts # <<>>, NEW new \in Attempt,
           attempts' = [attempts EXCEPT ![Len(attempts)] = new]
    PROVE  /\ attempts' \in Seq(Attempt) /\ attempts' # <<>>
           /\ Len(attempts') = Len(attempts)
           /\ \A i \in 1..Len(attempts) - 1 : attempts'[i] = attempts[i]
           /\ attempts'[Len(attempts)] = new
           /\ Len(attempts) \in 1..Len(attempts)
           /\ attempts[Len(attempts)] \in Attempt
  OBVIOUS

(* The last attempt gets its outcome.                                      *)
LEMMA AttemptJudged ==
    ASSUME attempts \in Seq(Attempt), attempts # <<>>,
           NEW o \in Judgement!Outcomes, attempts' = Judgement!Outcome(o)
    PROVE  /\ attempts' \in Seq(Attempt) /\ attempts' # <<>>
           /\ Len(attempts') = Len(attempts)
           /\ \A i \in 1..Len(attempts) :
                 /\ attempts'[i].sql = attempts[i].sql
                 /\ attempts'[i].at = attempts[i].at
           /\ \A i \in 1..Len(attempts) - 1 :
                 attempts'[i].outcome = attempts[i].outcome
           /\ attempts'[Len(attempts)].outcome = o
<1> DEFINE n == Len(attempts)
           new == [attempts[n] EXCEPT !.outcome = o]
<1>1. n \in 1..n /\ attempts[n] \in Attempt
  OBVIOUS
<1>2. /\ new \in Attempt /\ new.sql = attempts[n].sql
      /\ new.at = attempts[n].at /\ new.outcome = o
  BY <1>1 DEF Attempt
<1>3. attempts' = [attempts EXCEPT ![n] = new]
  BY DEF Judgement!Outcome
<1> HIDE DEF new
<1>4. /\ attempts' \in Seq(Attempt) /\ attempts' # <<>>
      /\ Len(attempts') = n /\ attempts'[n] = new
      /\ \A i \in 1..n - 1 : attempts'[i] = attempts[i]
  BY <1>2, <1>3, LastReplaced
<1>5. \A i \in 1..n : i = n \/ i \in 1..n - 1
  BY <1>1
<1> QED
  BY <1>1, <1>2, <1>4, <1>5

(* The last attempt is executed.                                           *)
LEMMA AttemptExecuted ==
    ASSUME attempts \in Seq(Attempt), attempts # <<>>,
           NEW o \in Judgement!Outcomes,
           NEW v \in Judgement!Versions \union {None},
           attempts' = [attempts EXCEPT ![Len(attempts)].outcome = o,
                                        ![Len(attempts)].at = v]
    PROVE  /\ attempts' \in Seq(Attempt) /\ attempts' # <<>>
           /\ Len(attempts') = Len(attempts)
           /\ \A i \in 1..Len(attempts) : attempts'[i].sql = attempts[i].sql
           /\ \A i \in 1..Len(attempts) - 1 :
                 /\ attempts'[i].outcome = attempts[i].outcome
                 /\ attempts'[i].at = attempts[i].at
           /\ attempts'[Len(attempts)].outcome = o
           /\ attempts'[Len(attempts)].at = v
<1> DEFINE n == Len(attempts)
           new == [attempts[n] EXCEPT !.outcome = o, !.at = v]
<1>1. n \in 1..n /\ attempts[n] \in Attempt
  OBVIOUS
<1>2. /\ new \in Attempt /\ new.sql = attempts[n].sql
      /\ new.at = v /\ new.outcome = o
  BY <1>1 DEF Attempt
<1>3. attempts' = [attempts EXCEPT ![n] = new]
  BY <1>1
<1> HIDE DEF new
<1>4. /\ attempts' \in Seq(Attempt) /\ attempts' # <<>>
      /\ Len(attempts') = n /\ attempts'[n] = new
      /\ \A i \in 1..n - 1 : attempts'[i] = attempts[i]
  BY <1>2, <1>3, LastReplaced
<1>5. \A i \in 1..n : i = n \/ i \in 1..n - 1
  BY <1>1
<1> QED
  BY <1>1, <1>2, <1>4, <1>5

(* The step an executed attempt takes, whatever comes of it.               *)
LEMMA ExecuteEnds ==
    ASSUME Judgement!CaseAssumption, CaseTyped, Looked, Budgeted,
           Judgement!Execute
    PROVE  \E o \in {"rows", "repairable", "denied", "timeout", "raised"} :
             \E v \in Judgement!Versions :
               /\ v = Judgement!Visible
               /\ attempts' = [attempts EXCEPT ![Len(attempts)].outcome = o,
                                               ![Len(attempts)].at = v]
               /\ execute_count' = execute_count + 1
               /\ \/ /\ o = "rows" /\ pc' = "trace"
                     /\ final' = [status |-> IF Len(attempts) = 1
                                             THEN "SUCCEEDED_FIRST_PASS"
                                             ELSE "SUCCEEDED_REPAIRED",
                                  error |-> None]
                  \/ o = "repairable" /\ pc' = "reflect" /\ final' = final
                  \/ /\ pc' = "trace"
                     /\ \/ final' = [status |-> "REJECTED_SECURITY",
                                     error |-> "PERMISSION_DENIED"]
                        \/ final' = [status |-> "FAILED_TIMEOUT",
                                     error |-> "TIMEOUT"]
                        \/ final' = [status |-> "FAILED_INTERNAL",
                                     error |-> "UNKNOWN"]
<1>1. Judgement!Visible \in Judgement!Versions
  BY DEF Judgement!CaseAssumption, CaseTyped, Looked,
         Judgement!Visible, Judgement!Execute, Judgement!Versions
<1>2. Len(attempts) \in Nat
  BY DEF CaseTyped
<1>3. PICK o \in {"rows", "repairable", "denied", "timeout", "raised"} :
          /\ attempts' = [attempts EXCEPT
                             ![Len(attempts)].outcome = o,
                             ![Len(attempts)].at = Judgement!Visible]
          /\ Judgement!Counted(o)
          /\ \/ /\ o = "rows"
                /\ Judgement!Terminal(IF Judgement!Repairs = 0
                                      THEN "SUCCEEDED_FIRST_PASS"
                                      ELSE "SUCCEEDED_REPAIRED", None)
             \/ /\ o = "repairable"
                /\ pc' = "reflect" /\ UNCHANGED final
             \/ /\ o = "denied"
                /\ Judgement!Terminal("REJECTED_SECURITY",
                                      "PERMISSION_DENIED")
             \/ o = "timeout" /\ Judgement!Terminal("FAILED_TIMEOUT",
                                                    "TIMEOUT")
             \/ o = "raised" /\ Judgement!Terminal("FAILED_INTERNAL",
                                                   "UNKNOWN")
  BY DEF Judgement!Execute
<1>4. Judgement!Repairs = 0 <=> Len(attempts) = 1
  BY <1>2 DEF Judgement!Repairs
<1> QED
  BY <1>1, <1>3, <1>4 DEF Judgement!Counted, Judgement!Terminal

(* What is looked at is a version, the pinned one when there is one.       *)
LEMMA VisibleTyped ==
    ASSUME Judgement!CaseAssumption, CaseTyped, Looked,
           pc \notin {"enter", "done"}
    PROVE  /\ Judgement!Visible \in Judgement!Versions
           /\ Judgement!Visible # None
           /\ snapshots => Judgement!Visible = pinned
  BY DEF Judgement!CaseAssumption, CaseTyped, Looked, Judgement!Visible,
         Judgement!Versions

(* The steps that add no attempt and judge none.                           *)
Quiet ==
    \/ Judgement!Write \/ Judgement!Enter \/ Judgement!EnterFails
    \/ Judgement!GoldSchema \/ Judgement!GoldInvalid \/ Judgement!GoldValid
    \/ Judgement!GoldExecuted \/ Judgement!GoldRaises \/ Judgement!ReadSchema
    \/ Judgement!EndsEarly \/ Judgement!ModelFails \/ Judgement!Reflect
    \/ Judgement!WorkflowRaises \/ Judgement!Trace \/ Judgement!Judge

LEMMA QuietKeeps ==
    ASSUME Quiet
    PROVE  attempts' = attempts /\ execute_count' = execute_count
  BY DEF Quiet, Judgement!work, Judgement!Write, Judgement!Enter,
         Judgement!EnterFails, Judgement!GoldSchema, Judgement!GoldInvalid,
         Judgement!GoldValid, Judgement!GoldExecuted, Judgement!GoldRaises,
         Judgement!ReadSchema, Judgement!EndsEarly, Judgement!ModelFails,
         Judgement!Reflect, Judgement!WorkflowRaises, Judgement!Trace,
         Judgement!Judge

LEMMA StepKinds ==
    ASSUME Judgement!Next
    PROVE  \/ Quiet \/ Judgement!FixtureAnswers \/ Judgement!ModelAnswers
           \/ Judgement!Validate \/ Judgement!Execute
  BY DEF Judgement!Next, Judgement!Harness, Quiet

(* The types of what belongs to no attempt.                                *)
LEMMA CaseTypedQuiet ==
    ASSUME Judgement!CaseAssumption, CaseTyped, Looked, Quiet
    PROVE  CaseTyped'
<1>1. CASE Judgement!Write
  BY <1>1 DEF CaseTyped, Judgement!Write, Judgement!asked, Judgement!work,
              Judgement!Versions, Judgement!CaseAssumption,
              Judgement!ValidCase
<1>2. CASE Judgement!GoldSchema \/ Judgement!GoldExecuted
           \/ Judgement!ReadSchema
  <2>1. Judgement!Visible \in Judgement!Versions
    BY <1>2, VisibleTyped DEF Judgement!GoldSchema, Judgement!GoldExecuted,
                              Judgement!ReadSchema
  <2> QED
    BY <1>2, <2>1 DEF CaseTyped, Judgement!GoldSchema,
           Judgement!GoldExecuted, Judgement!ReadSchema, Judgement!asked,
           Judgement!work, Judgement!ValidCase
<1>3. CASE Judgement!Enter \/ Judgement!EnterFails \/ Judgement!GoldInvalid
           \/ Judgement!GoldValid \/ Judgement!GoldRaises
  BY <1>3 DEF CaseTyped, Judgement!Enter, Judgement!EnterFails,
         Judgement!GoldInvalid, Judgement!GoldValid, Judgement!GoldRaises,
         Judgement!asked, Judgement!work, Judgement!ValidCase
<1>4. CASE Judgement!EndsEarly \/ Judgement!Reflect
           \/ Judgement!WorkflowRaises \/ Judgement!Trace \/ Judgement!Judge
  <2>1. /\ UNCHANGED <<case, snapshots, db, pinned, gold, calls, delegated,
                       schema, attempts>>
        /\ trace' \in BOOLEAN
    BY <1>4 DEF CaseTyped, Judgement!EndsEarly, Judgement!Reflect,
           Judgement!WorkflowRaises, Judgement!Trace, Judgement!Judge,
           Judgement!asked, Judgement!work
  <2>2. final' = [status |-> final'.status, error |-> final'.error]
    <3>1. final' = final
          \/ \E s, e : final' = [status |-> s, error |-> e]
      BY <1>4 DEF Judgement!EndsEarly, Judgement!Reflect, Judgement!Terminal,
             Judgement!WorkflowRaises, Judgement!Trace, Judgement!Judge
    <3> QED
      BY <3>1 DEF CaseTyped
  <2> QED
    BY <2>1, <2>2 DEF CaseTyped, Judgement!ValidCase
<1>5. CASE Judgement!ModelFails
  <2>1. /\ UNCHANGED <<case, snapshots, db, pinned, gold, schema, attempts,
                       trace>>
        /\ calls' = calls + 1 /\ delegated' = delegated + 1
    BY <1>5 DEF Judgement!ModelFails, Judgement!work
  <2>2. final' = [status |-> final'.status, error |-> final'.error]
    <3>1. final' = final
          \/ \E s, e : final' = [status |-> s, error |-> e]
      BY <1>5 DEF Judgement!ModelFails, Judgement!Terminal
    <3> QED
      BY <3>1 DEF CaseTyped
  <2> QED
    BY <2>1, <2>2 DEF CaseTyped, Judgement!ValidCase
<1> QED
  BY <1>1, <1>2, <1>3, <1>4, <1>5 DEF Quiet

LEMMA CaseTypedKept ==
    ASSUME Judgement!CaseAssumption, CaseTyped, Looked, Budgeted,
           Judgement!Next
    PROVE  CaseTyped'
<1>1. CASE Quiet
  BY <1>1, CaseTypedQuiet
<1>2. CASE Judgement!FixtureAnswers \/ Judgement!ModelAnswers
  <2>1. attempts' \in Seq(Attempt)
    BY <1>2, AttemptAdded
       DEF CaseTyped, Judgement!FixtureAnswers, Judgement!ModelAnswers
  <2>2. /\ UNCHANGED <<case, snapshots, db, pinned, gold, schema, trace,
                       final>>
        /\ calls' = calls + 1
        /\ delegated' = delegated \/ delegated' = delegated + 1
    BY <1>2 DEF Judgement!FixtureAnswers, Judgement!ModelAnswers
  <2> QED
    BY <2>1, <2>2 DEF CaseTyped, Judgement!ValidCase
<1>3. CASE Judgement!Validate
  <2>1. attempts # <<>>
    BY <1>3 DEF Budgeted, Judgement!Validate
  <2>2. PICK o \in Judgement!Outcomes : attempts' = Judgement!Outcome(o)
    BY <1>3 DEF Judgement!Validate, Judgement!Outcomes
  <2>3. attempts' \in Seq(Attempt)
    BY <2>1, <2>2, AttemptJudged DEF CaseTyped
  <2>4. UNCHANGED <<case, snapshots, db, pinned, gold, schema, trace, calls,
                    delegated>>
    BY <1>3 DEF Judgement!Validate, Judgement!asked
  <2>5. final' = [status |-> final'.status, error |-> final'.error]
    <3>1. final' = final
          \/ \E s, e : final' = [status |-> s, error |-> e]
      BY <1>3 DEF Judgement!Validate, Judgement!Terminal
    <3> QED
      BY <3>1 DEF CaseTyped
  <2> QED
    BY <2>3, <2>4, <2>5 DEF CaseTyped, Judgement!ValidCase
<1>4. CASE Judgement!Execute
  <2>1. attempts # <<>>
    BY <1>4 DEF Budgeted, Judgement!Execute
  <2>2. PICK o \in {"rows", "repairable", "denied", "timeout", "raised"},
             v \in Judgement!Versions :
             attempts' = [attempts EXCEPT ![Len(attempts)].outcome = o,
                                          ![Len(attempts)].at = v]
    BY <1>4, ExecuteEnds
  <2>3. attempts' \in Seq(Attempt)
    BY <2>1, <2>2, AttemptExecuted DEF CaseTyped, Judgement!Outcomes
  <2>4. UNCHANGED <<case, snapshots, db, pinned, gold, schema, trace, calls,
                    delegated>>
    BY <1>4 DEF Judgement!Execute, Judgement!asked
  <2>5. final' = [status |-> final'.status, error |-> final'.error]
    BY <1>4, ExecuteEnds DEF CaseTyped
  <2> QED
    BY <2>3, <2>4, <2>5 DEF CaseTyped, Judgement!ValidCase
<1> QED
  BY <1>1, <1>2, <1>3, <1>4, StepKinds

LEMMA EarlyKept ==
    ASSUME Judgement!CaseAssumption, CaseTyped, Early, Judgement!Next
    PROVE  Early'
<1>1. CASE Judgement!Write \/ Judgement!Enter \/ Judgement!EnterFails
           \/ Judgement!GoldSchema \/ Judgement!GoldInvalid
           \/ Judgement!GoldValid \/ Judgement!GoldExecuted
           \/ Judgement!GoldRaises
  BY <1>1 DEF CaseTyped, Early, Before, Asking, Judgement!Write,
         Judgement!Enter, Judgement!EnterFails, Judgement!GoldSchema,
         Judgement!GoldInvalid, Judgement!GoldValid, Judgement!GoldExecuted,
         Judgement!GoldRaises, Judgement!Told, Judgement!asked,
         Judgement!work
<1>2. CASE Judgement!ReadSchema
  BY <1>2 DEF Early, Before, Asking, Judgement!ReadSchema, Judgement!asked
<1>3. CASE Judgement!EndsEarly \/ Judgement!ModelFails \/ Judgement!Validate
           \/ Judgement!Reflect \/ Judgement!FixtureAnswers
           \/ Judgement!ModelAnswers
  <2>1. /\ UNCHANGED <<case, gold, schema, code>> /\ pc # "enter"
        /\ pc' \in {"fallback", "validate", "execute", "generate",
                    "reflect", "trace"}
        /\ code = None
    BY <1>3 DEF Early, Judgement!EndsEarly, Judgement!ModelFails,
           Judgement!Validate, Judgement!Reflect, Judgement!FixtureAnswers,
           Judgement!ModelAnswers, Judgement!NewAttempt, Judgement!Terminal,
           Judgement!work
  <2> QED
    BY <2>1 DEF Early, Before, Asking
<1>4. CASE Judgement!Execute
  <2>1. /\ UNCHANGED <<case, gold, schema, code>>
        /\ pc' \in {"reflect", "trace"} /\ pc = "execute"
    BY <1>4 DEF Judgement!Execute, Judgement!Terminal
  <2> QED
    BY <2>1 DEF Early, Before, Asking
<1>5. CASE Judgement!WorkflowRaises \/ Judgement!Trace \/ Judgement!Judge
  <2>1. /\ UNCHANGED <<case, gold, schema>>
        /\ \/ pc' = "done"
           \/ pc' = "judge" /\ pc = "trace" /\ code' = code
    BY <1>5 DEF Judgement!WorkflowRaises, Judgement!Trace, Judgement!Judge,
           Judgement!Told, Judgement!work
  <2> QED
    BY <2>1 DEF Early, Before, Asking
<1> QED
  BY <1>1, <1>2, <1>3, <1>4, <1>5, StepKinds DEF Quiet

(* The snapshot is opened before the first look, and stays.                *)
LEMMA LookedKept ==
    ASSUME Judgement!CaseAssumption, CaseTyped, Early, Looked, Budgeted,
           Judgement!Next
    PROVE  Looked'
<1>1. CASE Judgement!Enter
  <2>1. /\ snapshots' = snapshots /\ gold' = gold /\ gold.rows = None
        /\ attempts' = attempts /\ attempts = <<>>
        /\ snapshots => pinned' = db
    BY <1>1 DEF Judgement!Enter, Early, Before, Judgement!work
  <2>2. db # None
    BY DEF CaseTyped, Judgement!CaseAssumption, Judgement!Versions
  <2>3. 1..Len(attempts') = {}
    BY <2>1
  <2> QED
    BY <2>1, <2>2, <2>3 DEF Looked
<1>2. CASE Judgement!GoldExecuted
  <2>1. /\ snapshots => gold'.rows = pinned
        /\ UNCHANGED <<snapshots, pinned, attempts>> /\ pc = "gold_rows"
    BY <1>2, VisibleTyped
       DEF CaseTyped, Judgement!GoldExecuted, Judgement!work
  <2> QED
    BY <2>1 DEF Looked
<1>3. CASE Quiet /\ ~Judgement!Enter /\ ~Judgement!GoldExecuted
  <2>1. UNCHANGED <<snapshots, pinned, attempts>> /\ gold'.rows = gold.rows
        /\ \/ pc' = "done"
           \/ pc' = pc /\ Judgement!Write
           \/ pc # "enter" /\ pc # "done"
    BY <1>3 DEF Quiet, CaseTyped, Judgement!work, Judgement!Write,
         Judgement!EnterFails, Judgement!GoldSchema, Judgement!GoldInvalid,
         Judgement!GoldValid, Judgement!GoldRaises, Judgement!ReadSchema,
         Judgement!EndsEarly, Judgement!ModelFails, Judgement!Reflect,
         Judgement!WorkflowRaises, Judgement!Trace, Judgement!Judge,
         Judgement!Told
  <2> QED
    BY <2>1 DEF Looked
<1>4. CASE Judgement!FixtureAnswers \/ Judgement!ModelAnswers
  <2>1. /\ Len(attempts') = Len(attempts) + 1
        /\ \A i \in 1..Len(attempts) : attempts'[i] = attempts[i]
        /\ attempts'[Len(attempts')].at = None
        /\ pc' = "validate" /\ Len(attempts) \in Nat
    BY <1>4, AttemptAdded
       DEF CaseTyped, Judgement!FixtureAnswers, Judgement!ModelAnswers
  <2>2. UNCHANGED <<snapshots, pinned, gold>> /\ pc \notin {"enter", "done"}
    BY <1>4 DEF Judgement!FixtureAnswers, Judgement!ModelAnswers
  <2>3. \A i \in 1..Len(attempts') :
            i \in 1..Len(attempts) \/ i = Len(attempts')
    BY <2>1
  <2> QED
    BY <2>1, <2>2, <2>3 DEF Looked
<1>5. CASE Judgement!Validate
  <2>1. attempts # <<>>
    BY <1>5 DEF Budgeted, Judgement!Validate
  <2>2. PICK o \in Judgement!Outcomes : attempts' = Judgement!Outcome(o)
    BY <1>5 DEF Judgement!Validate, Judgement!Outcomes
  <2>3. /\ Len(attempts') = Len(attempts)
        /\ \A i \in 1..Len(attempts) : attempts'[i].at = attempts[i].at
    BY <2>1, <2>2, AttemptJudged DEF CaseTyped
  <2>4. UNCHANGED <<snapshots, pinned, gold>> /\ pc = "validate"
    BY <1>5 DEF Judgement!Validate
  <2> QED
    BY <2>3, <2>4 DEF Looked
<1>6. CASE Judgement!Execute
  <2>1. attempts # <<>> /\ pc = "execute"
    BY <1>6 DEF Budgeted, Judgement!Execute
  <2>2. PICK o \in {"rows", "repairable", "denied", "timeout", "raised"},
             v \in Judgement!Versions :
             /\ v = Judgement!Visible
             /\ attempts' = [attempts EXCEPT ![Len(attempts)].outcome = o,
                                             ![Len(attempts)].at = v]
    BY <1>6, ExecuteEnds
  <2>3. /\ Len(attempts') = Len(attempts) /\ Len(attempts) \in Nat
        /\ \A i \in 1..Len(attempts) - 1 : attempts'[i].at = attempts[i].at
        /\ attempts'[Len(attempts)].at = v
    <3>1. attempts \in Seq(Attempt) /\ o \in Judgement!Outcomes
      BY DEF CaseTyped, Judgement!Outcomes
    <3> QED
      BY <2>1, <2>2, <3>1, AttemptExecuted
  <2>4. UNCHANGED <<snapshots, pinned, gold>>
    BY <1>6 DEF Judgement!Execute
  <2>5. snapshots => v = pinned
    BY <2>1, <2>2, VisibleTyped
  <2>6. \A i \in 1..Len(attempts) :
            i \in 1..Len(attempts) - 1 \/ i = Len(attempts)
    BY <2>3
  <2> QED
    BY <2>1, <2>3, <2>4, <2>5, <2>6 DEF Looked
<1> QED
  BY <1>1, <1>2, <1>3, <1>4, <1>5, <1>6, StepKinds

(* Two calls for an attempt, one attempt more than repairs.                *)
LEMMA BudgetedKept ==
    ASSUME Judgement!CaseAssumption, CaseTyped, Early, Looked, Budgeted,
           Judgement!Next
    PROVE  Budgeted'
<1>1. Len(attempts) \in Nat /\ calls \in Nat /\ MaxRepairs \in Nat
      /\ (attempts = <<>> <=> Len(attempts) = 0)
  BY DEF CaseTyped, Judgement!CaseAssumption
<1>2. CASE Judgement!Write \/ Judgement!Enter \/ Judgement!EnterFails
           \/ Judgement!GoldSchema \/ Judgement!GoldInvalid
           \/ Judgement!GoldValid \/ Judgement!GoldExecuted
           \/ Judgement!GoldRaises \/ Judgement!WorkflowRaises
           \/ Judgement!Trace \/ Judgement!Judge
  <2>1. /\ attempts' = attempts /\ calls' = calls
        /\ \/ pc' = pc
           \/ pc' \in {"gold_schema", "gold_sql", "gold_rows", "schema",
                       "judge", "done"}
    BY <1>2 DEF Judgement!Write, Judgement!Enter, Judgement!EnterFails,
           Judgement!GoldSchema, Judgement!GoldInvalid, Judgement!GoldValid,
           Judgement!GoldExecuted, Judgement!GoldRaises,
           Judgement!WorkflowRaises, Judgement!Trace, Judgement!Judge,
           Judgement!Told, Judgement!asked, Judgement!work
  <2> QED
    BY <2>1 DEF Budgeted
<1>3. CASE Judgement!ReadSchema
  BY <1>1, <1>3 DEF Budgeted, Early, Before, Judgement!ReadSchema,
                    Judgement!asked
<1>4. CASE Judgement!EndsEarly
  BY <1>4 DEF Budgeted, Judgement!EndsEarly, Judgement!Terminal,
              Judgement!asked, Judgement!work
<1>5. CASE Judgement!ModelFails
  <2>1. /\ attempts' = attempts /\ calls' = calls + 1
        /\ \/ pc = "generate" /\ pc' = "fallback"
           \/ pc \in {"generate", "fallback"} /\ pc' = "trace"
    BY <1>5 DEF Judgement!ModelFails, Judgement!Terminal, Judgement!work
  <2> QED
    BY <1>1, <2>1 DEF Budgeted
<1>6. CASE Judgement!FixtureAnswers \/ Judgement!ModelAnswers
  <2>1. /\ attempts' # <<>> /\ Len(attempts') = Len(attempts) + 1
        /\ pc' = "validate" /\ calls' = calls + 1
        /\ pc \in {"generate", "fallback"}
    BY <1>6, AttemptAdded
       DEF CaseTyped, Judgement!FixtureAnswers, Judgement!ModelAnswers
  <2> QED
    BY <1>1, <2>1 DEF Budgeted
<1>7. CASE Judgement!Validate
  <2>1. attempts # <<>> /\ pc = "validate"
    BY <1>7 DEF Budgeted, Judgement!Validate
  <2>2. PICK o \in Judgement!Outcomes : attempts' = Judgement!Outcome(o)
    BY <1>7 DEF Judgement!Validate, Judgement!Outcomes
  <2>3. Len(attempts') = Len(attempts) /\ attempts' # <<>>
    BY <2>1, <2>2, AttemptJudged DEF CaseTyped
  <2>4. calls' = calls /\ pc' \in {"execute", "reflect", "trace"}
    BY <1>7 DEF Judgement!Validate, Judgement!Terminal, Judgement!asked
  <2> QED
    BY <2>1, <2>3, <2>4 DEF Budgeted
<1>8. CASE Judgement!Execute
  <2>1. attempts # <<>> /\ pc = "execute"
    BY <1>8 DEF Budgeted, Judgement!Execute
  <2>2. PICK o \in {"rows", "repairable", "denied", "timeout", "raised"},
             v \in Judgement!Versions :
             attempts' = [attempts EXCEPT ![Len(attempts)].outcome = o,
                                          ![Len(attempts)].at = v]
    BY <1>8, ExecuteEnds
  <2>3. Len(attempts') = Len(attempts) /\ attempts' # <<>>
    BY <2>1, <2>2, AttemptExecuted DEF CaseTyped, Judgement!Outcomes
  <2>4. calls' = calls /\ pc' \in {"reflect", "trace"}
    BY <1>8 DEF Judgement!Execute, Judgement!Terminal, Judgement!asked
  <2> QED
    BY <2>1, <2>3, <2>4 DEF Budgeted
<1>9. CASE Judgement!Reflect
  <2>1. /\ attempts' = attempts /\ calls' = calls /\ pc = "reflect"
        /\ \/ pc' = "generate" /\ Len(attempts) - 1 < MaxRepairs
           \/ pc' = "trace"
    BY <1>9 DEF Judgement!Reflect, Judgement!Terminal, Judgement!Repairs,
                Judgement!asked, Judgement!work
  <2> QED
    BY <1>1, <2>1 DEF Budgeted
<1> QED
  BY <1>2, <1>3, <1>4, <1>5, <1>6, <1>7, <1>8, <1>9, StepKinds DEF Quiet

(* The case's own SQL answers the first call only, or every call.          *)
LEMMA AnsweredKept ==
    ASSUME Judgement!CaseAssumption, CaseTyped, Early, Looked, Budgeted,
           Answered, Judgement!Next
    PROVE  Answered'
<1>1. Len(attempts) \in Nat /\ calls \in Nat
      /\ (attempts = <<>> <=> Len(attempts) = 0)
  BY DEF CaseTyped
<1>2. CASE Quiet /\ ~Judgement!ModelFails
  <2>1. UNCHANGED <<case, attempts, calls, delegated>>
    BY <1>2 DEF Quiet, Judgement!asked, Judgement!work, Judgement!Write,
         Judgement!Enter, Judgement!EnterFails, Judgement!GoldSchema,
         Judgement!GoldInvalid, Judgement!GoldValid, Judgement!GoldExecuted,
         Judgement!GoldRaises, Judgement!ReadSchema, Judgement!EndsEarly,
         Judgement!Reflect, Judgement!WorkflowRaises, Judgement!Trace,
         Judgement!Judge
  <2> QED
    BY <2>1 DEF Answered
<1>3. CASE Judgement!ModelFails
  <2>1. /\ UNCHANGED <<case, attempts>> /\ calls' = calls + 1
        /\ ~(case.fixture /\ case.category = "security")
        /\ ~(case.fixture /\ case.category = "reflection" /\ calls = 0)
    BY <1>3 DEF Judgement!ModelFails, Judgement!Fixture, Judgement!work
  <2>2. case.fixture /\ case.category = "reflection" =>
            ~(calls = 0) /\ ~(calls' = 0)
    BY <1>1, <2>1
  <2> QED
    BY <2>1, <2>2 DEF Answered
<1>4. CASE Judgement!FixtureAnswers \/ Judgement!ModelAnswers
  <2>1. PICK s \in {"fixture", "model"} :
            /\ s = "fixture" <=> Judgement!Fixture
            /\ Judgement!NewAttempt(s)
            /\ Judgement!Fixture => delegated' = delegated
            /\ calls' = calls + 1 /\ case' = case
    BY <1>4 DEF Judgement!FixtureAnswers, Judgement!ModelAnswers
  <2>2. /\ attempts' # <<>> /\ Len(attempts') = Len(attempts) + 1
        /\ \A i \in 1..Len(attempts) : attempts'[i] = attempts[i]
        /\ attempts'[Len(attempts')].sql = s
    BY <2>1, AttemptAdded DEF CaseTyped
  <2>3. case.fixture /\ case.category = "security" => Judgement!Fixture
    BY DEF Judgement!Fixture
  <2>4. case.fixture /\ case.category = "reflection" =>
            (Judgement!Fixture <=> Len(attempts') = 1)
    BY <1>1, <2>2 DEF Judgement!Fixture, Answered
  <2>5. Judgement!Fixture =>
            /\ case.fixture
            /\ \/ case.category = "security" \/ case.category = "reflection"
    BY DEF Judgement!Fixture
  <2>6. attempts'[Len(attempts')].sql = "fixture" <=>
            /\ case.fixture
            /\ \/ case.category = "security"
               \/ case.category = "reflection" /\ Len(attempts') = 1
    BY <2>1, <2>2, <2>3, <2>4, <2>5
  <2>7. \A i \in 1..Len(attempts') :
            i \in 1..Len(attempts) \/ i = Len(attempts')
    BY <1>1, <2>2
  <2>8. ~(calls' = 0)
    BY <1>1, <2>1
  <2>9. \A i \in 1..Len(attempts') :
           attempts'[i].sql = "fixture" <=>
               /\ case.fixture
               /\ \/ case.category = "security"
                  \/ case.category = "reflection" /\ i = 1
    BY <2>2, <2>6, <2>7 DEF Answered
  <2> QED
    BY <2>1, <2>2, <2>3, <2>8, <2>9 DEF Answered
<1>5. CASE Judgement!Validate \/ Judgement!Execute
  <2>1. attempts # <<>>
    BY <1>5 DEF Budgeted, Judgement!Validate, Judgement!Execute
  <2>2. /\ Len(attempts') = Len(attempts) /\ attempts' # <<>>
        /\ \A i \in 1..Len(attempts) : attempts'[i].sql = attempts[i].sql
    <3>1. CASE Judgement!Validate
      <4>1. PICK o \in Judgement!Outcomes :
                attempts' = Judgement!Outcome(o)
        BY <3>1 DEF Judgement!Validate, Judgement!Outcomes
      <4> QED
        BY <2>1, <4>1, AttemptJudged DEF CaseTyped
    <3>2. CASE Judgement!Execute
      <4>1. PICK o \in {"rows", "repairable", "denied", "timeout",
                        "raised"}, v \in Judgement!Versions :
                attempts' = [attempts EXCEPT ![Len(attempts)].outcome = o,
                                             ![Len(attempts)].at = v]
        BY <3>2, ExecuteEnds
      <4> QED
        BY <2>1, <4>1, AttemptExecuted DEF CaseTyped, Judgement!Outcomes
    <3> QED
      BY <1>5, <3>1, <3>2
  <2>3. UNCHANGED <<case, calls, delegated>>
    BY <1>5 DEF Judgement!Validate, Judgement!Execute, Judgement!asked
  <2> QED
    BY <2>1, <2>2, <2>3 DEF Answered
<1> QED
  BY <1>2, <1>3, <1>4, <1>5, StepKinds

(* What became of the attempts, by the stage the workflow is at.           *)
LEMMA TriedKept ==
    ASSUME Judgement!CaseAssumption, CaseTyped, Early, Looked, Budgeted,
           Tried, Judgement!Next
    PROVE  Tried'
<1>1. Len(attempts) \in Nat /\ (attempts = <<>> <=> Len(attempts) = 0)
      /\ DOMAIN attempts = 1..Len(attempts)
  BY DEF CaseTyped
<1>2. Len(attempts) \in Nat
  BY <1>1
<1>3. CASE Quiet
  <2>1. UNCHANGED <<attempts, execute_count>>
    BY <1>3, QuietKeeps
  <2>2. CASE pc' = "generate"
    <3>1. CASE Judgement!ReadSchema
      <4>1. 1..Len(attempts) = {}
        BY <1>1, <3>1 DEF Judgement!ReadSchema, Early, Before
      <4> QED
        BY <2>1, <2>2, <4>1 DEF Tried, Asked
    <3>2. CASE ~Judgement!ReadSchema
      <4>1. pc \in {"generate", "reflect"}
        BY <1>3, <2>2, <3>2 DEF Quiet, Judgement!Write,
           Judgement!Enter, Judgement!EnterFails, Judgement!GoldSchema,
           Judgement!GoldInvalid, Judgement!GoldValid,
           Judgement!GoldExecuted, Judgement!GoldRaises,
           Judgement!EndsEarly, Judgement!ModelFails, Judgement!Reflect,
           Judgement!WorkflowRaises, Judgement!Trace, Judgement!Judge,
           Judgement!Terminal, Judgement!Told
      <4> QED
        BY <2>1, <2>2, <4>1 DEF Tried, Asked
    <3> QED
      BY <3>1, <3>2
  <2>3. CASE pc' # "generate" /\ pc' = pc
    <3>1. final' = final \/ pc' \notin {"trace", "judge"}
      BY <1>3, <2>3 DEF Quiet, Judgement!Write,
           Judgement!Enter, Judgement!EnterFails, Judgement!GoldSchema,
           Judgement!GoldInvalid, Judgement!GoldValid,
           Judgement!GoldExecuted, Judgement!GoldRaises,
           Judgement!ReadSchema, Judgement!EndsEarly, Judgement!ModelFails,
           Judgement!Reflect, Judgement!WorkflowRaises, Judgement!Trace,
           Judgement!Judge, Judgement!Terminal
    <3> QED
      BY <2>1, <2>3, <3>1 DEF Tried, Asked
  <2>4. CASE pc' # "generate" /\ pc' # pc
    <3>1. \/ pc' \in Before \union {"done"}
          \/ pc = "generate" /\ pc' = "fallback"
          \/ /\ pc' = "trace"
             /\ final'.status \notin {"SUCCEEDED_FIRST_PASS",
                                      "SUCCEEDED_REPAIRED"}
          \/ pc = "trace" /\ pc' = "judge" /\ final' = final
      BY <1>3, <2>4 DEF Quiet, Before, Asking, Judgement!Write,
           Judgement!Enter, Judgement!EnterFails, Judgement!GoldSchema,
           Judgement!GoldInvalid, Judgement!GoldValid,
           Judgement!GoldExecuted, Judgement!GoldRaises,
           Judgement!ReadSchema, Judgement!EndsEarly, Judgement!ModelFails,
           Judgement!Reflect, Judgement!WorkflowRaises, Judgement!Trace,
           Judgement!Judge, Judgement!Terminal, Judgement!Told
    <3> QED
      BY <2>1, <3>1 DEF Tried, Asked, Before, Asking
  <2> QED
    BY <2>2, <2>3, <2>4
<1>4. CASE Judgement!FixtureAnswers \/ Judgement!ModelAnswers
  <2>1. /\ Len(attempts') = Len(attempts) + 1
        /\ \A i \in 1..Len(attempts) : attempts'[i] = attempts[i]
        /\ attempts'[Len(attempts')].outcome = "open"
        /\ attempts'[Len(attempts')].at = None
        /\ pc' = "validate" /\ DOMAIN attempts' = 1..Len(attempts')
    BY <1>4, AttemptAdded
       DEF CaseTyped, Judgement!FixtureAnswers, Judgement!ModelAnswers
  <2>2. /\ execute_count' = execute_count
        /\ pc \in {"generate", "fallback"}
    BY <1>4 DEF Judgement!FixtureAnswers, Judgement!ModelAnswers
  <2>3. \A i \in 1..Len(attempts') :
            i \in 1..Len(attempts) \/ i = Len(attempts')
    BY <1>1, <2>1
  <2>4. Asked' = Asked
    BY <1>1, <2>1, <2>3 DEF Asked
  <2>5. \A i \in 1..Len(attempts') - 1 : i \in 1..Len(attempts)
    BY <1>1, <2>1
  <2> QED
    BY <2>1, <2>2, <2>3, <2>4, <2>5 DEF Tried
<1>5. CASE Judgement!Validate
  <2>1. attempts # <<>> /\ pc = "validate"
    BY <1>5 DEF Budgeted, Judgement!Validate
  <2>2. PICK o \in {"valid", "rejected", "invalid"} :
            /\ attempts' = Judgement!Outcome(o)
            /\ \/ pc' = "execute"
               \/ pc' = "reflect" /\ o = "invalid"
               \/ /\ pc' = "trace"
                  /\ final'.status \notin {"SUCCEEDED_FIRST_PASS",
                                           "SUCCEEDED_REPAIRED"}
    BY <1>5 DEF Judgement!Validate, Judgement!Terminal
  <2>3. /\ Len(attempts') = Len(attempts)
        /\ \A i \in 1..Len(attempts) : attempts'[i].at = attempts[i].at
        /\ \A i \in 1..Len(attempts) - 1 :
              attempts'[i].outcome = attempts[i].outcome
        /\ attempts'[Len(attempts)].outcome = o
        /\ DOMAIN attempts' = 1..Len(attempts')
    <3>1. attempts \in Seq(Attempt) /\ o \in Judgement!Outcomes
      BY DEF CaseTyped, Judgement!Outcomes
    <3> QED
      BY <2>1, <2>2, <3>1, AttemptJudged
  <2>4. execute_count' = execute_count
    BY <1>5 DEF Judgement!Validate
  <2>5. \A i \in 1..Len(attempts) :
            i \in 1..Len(attempts) - 1 \/ i = Len(attempts)
    BY <1>2
  <2>6. Asked' = Asked
    BY <1>1, <2>3 DEF Asked
  <2>7. Len(attempts) \in 1..Len(attempts)
    BY <1>1, <2>1
  <2>8. \A i \in 1..Len(attempts') :
            attempts'[i].outcome = "rows" => attempts'[i].at # None
    BY <2>2, <2>3, <2>5 DEF Tried
  <2> QED
    BY <2>1, <2>2, <2>3, <2>4, <2>5, <2>6, <2>7, <2>8 DEF Tried, Retried
<1>6. CASE Judgement!Execute
  <2>1. attempts # <<>> /\ pc = "execute"
    BY <1>6 DEF Budgeted, Judgement!Execute
  <2>2. PICK o \in {"rows", "repairable", "denied", "timeout", "raised"},
             v \in Judgement!Versions :
           /\ v = Judgement!Visible
           /\ attempts' = [attempts EXCEPT ![Len(attempts)].outcome = o,
                                           ![Len(attempts)].at = v]
           /\ execute_count' = execute_count + 1
           /\ \/ /\ o = "rows" /\ pc' = "trace"
                 /\ final' = [status |-> IF Len(attempts) = 1
                                         THEN "SUCCEEDED_FIRST_PASS"
                                         ELSE "SUCCEEDED_REPAIRED",
                              error |-> None]
              \/ o = "repairable" /\ pc' = "reflect" /\ final' = final
              \/ /\ pc' = "trace"
                 /\ \/ final' = [status |-> "REJECTED_SECURITY",
                                 error |-> "PERMISSION_DENIED"]
                    \/ final' = [status |-> "FAILED_TIMEOUT",
                                 error |-> "TIMEOUT"]
                    \/ final' = [status |-> "FAILED_INTERNAL",
                                 error |-> "UNKNOWN"]
    BY <1>6, ExecuteEnds
  <2>3. /\ Len(attempts') = Len(attempts)
        /\ \A i \in 1..Len(attempts) - 1 :
              /\ attempts'[i].outcome = attempts[i].outcome
              /\ attempts'[i].at = attempts[i].at
        /\ attempts'[Len(attempts)].outcome = o
        /\ attempts'[Len(attempts)].at = v
        /\ DOMAIN attempts' = 1..Len(attempts')
    <3>1. attempts \in Seq(Attempt) /\ o \in Judgement!Outcomes
      BY DEF CaseTyped, Judgement!Outcomes
    <3> QED
      BY <2>1, <2>2, <3>1, AttemptExecuted
  <2>4. v # None
    BY <2>1, <2>2, VisibleTyped
  <2>5. \A i \in 1..Len(attempts) :
            i \in 1..Len(attempts) - 1 \/ i = Len(attempts)
    BY <1>2
  <2>6. Len(attempts) \in 1..Len(attempts)
        /\ Len(attempts) \notin 1..Len(attempts) - 1
    BY <1>1, <2>1
  <2>7. Asked' = Asked \union {Len(attempts)} /\ Len(attempts) \notin Asked
    <3>1. attempts[Len(attempts)].at = None
      BY <2>1, <2>6 DEF Tried
    <3>2. DOMAIN attempts = 1..Len(attempts)
      BY <1>2
    <3> QED
      BY <2>3, <2>4, <2>5, <2>6, <3>1, <3>2 DEF Asked
  <2>8. IsFiniteSet(Asked)
    <3>1. IsFiniteSet(1..Len(attempts))
      BY <1>1, FS_Interval
    <3> QED
      BY <1>1, <3>1, FS_Subset DEF Asked
  <2>9. execute_count' = Cardinality(Asked')
    BY <2>2, <2>7, <2>8, FS_AddElement DEF Tried
  <2>10. \A i \in 1..Len(attempts') :
             attempts'[i].outcome = "rows" => attempts'[i].at # None
    BY <2>3, <2>4, <2>5 DEF Tried
  <2>11. \A i \in 1..Len(attempts') - 1 : attempts'[i].outcome \in Retried
    BY <2>3 DEF Tried
  <2>12. pc' = "reflect" =>
             \A i \in 1..Len(attempts') : attempts'[i].outcome \in Retried
    BY <2>2, <2>3, <2>5, <2>11 DEF Retried
  <2>13. pc' = "trace" =>
            /\ final'.status = "SUCCEEDED_FIRST_PASS" => Len(attempts') = 1
            /\ final'.status = "SUCCEEDED_REPAIRED" => Len(attempts') > 1
    BY <1>1, <2>1, <2>2, <2>3
  <2>14. pc' \in {"reflect", "trace"}
    BY <2>2
  <2> QED
    BY <2>9, <2>10, <2>11, <2>12, <2>13, <2>14 DEF Tried
<1> QED
  BY <1>3, <1>4, <1>5, <1>6, StepKinds

(* The attempt a comparison is made for.                                   *)
LEMMA LastAttempt ==
    ASSUME CaseTyped, attempts # <<>>
    PROVE  /\ Len(attempts) \in 1..Len(attempts)
           /\ Judgement!Current = attempts[Len(attempts)]
           /\ Judgement!Current \in Attempt
  BY DEF CaseTyped, Judgement!Current

(* A passing verdict of a case that executes.                              *)
LEMMA PassExecuted ==
    ASSUME Judgement!CaseAssumption, CaseTyped, Early, Budgeted, Answered,
           Tried, pc = "judge",
           NEW comparisonCode \in Judgement!ComparisonCodes,
           NEW tables \in BOOLEAN, NEW fields \in BOOLEAN,
           Judgement!ResultCode(comparisonCode, tables, fields) = "PASS",
           case.behavior = "EXECUTE"
    PROVE  /\ trace /\ final.status = case.status /\ final.error = case.error
           /\ gold.validated /\ gold.rows # None /\ Judgement!Validated
           /\ comparisonCode = "match" /\ tables /\ fields
           /\ attempts # <<>> /\ Judgement!Current.outcome = "rows"
           /\ execute_count > 0
           /\ \A i \in 1..Judgement!Repairs : attempts[i].outcome \in Retried
           /\ \/ case.status = "SUCCEEDED_FIRST_PASS" /\ Len(attempts) = 1
              \/ /\ case.status = "SUCCEEDED_REPAIRED" /\ Len(attempts) > 1
                 /\ Judgement!Current.sql = "model"
                 /\ attempts[1].outcome # "rows"
<1>1. /\ trace /\ final.status = case.status /\ final.error = case.error
      /\ Judgement!ExecuteCode(comparisonCode, tables, fields) = "PASS"
  BY DEF Judgement!ResultCode
<1>2. /\ gold.validated /\ gold.rows # None /\ Judgement!Validated
      /\ comparisonCode = "match" /\ tables /\ fields /\ Judgement!Rows
  <2>1. comparisonCode # "PASS"
    BY DEF Judgement!ComparisonCodes, Judgement!CaseAssumption
  <2> QED
    BY <1>1, <2>1 DEF Judgement!ExecuteCode
<1>3. attempts # <<>> /\ Judgement!Current.outcome = "rows"
  BY <1>2 DEF Judgement!Rows
<1>4. /\ Len(attempts) \in 1..Len(attempts) /\ Len(attempts) \in Nat
      /\ Judgement!Current = attempts[Len(attempts)]
      /\ Judgement!Current \in Attempt /\ DOMAIN attempts = 1..Len(attempts)
  BY <1>3, LastAttempt DEF CaseTyped
<1>5. execute_count > 0
  <2>1. Len(attempts) \in Asked
    BY <1>3, <1>4 DEF Tried, Asked
  <2>2. IsFiniteSet(Asked)
    <3>1. IsFiniteSet(1..Len(attempts))
      BY <1>4, FS_Interval
    <3> QED
      BY <1>4, <3>1, FS_Subset DEF Asked
  <2>3. Cardinality(Asked) \in Nat /\ Cardinality(Asked) # 0
    BY <2>1, <2>2, FS_CardinalityType, FS_EmptySet
  <2> QED
    BY <2>3 DEF Tried
<1>6. \A i \in 1..Judgement!Repairs : attempts[i].outcome \in Retried
  BY DEF Tried, Judgement!Repairs
<1>7. case.status \in {"SUCCEEDED_FIRST_PASS", "SUCCEEDED_REPAIRED"}
  BY DEF CaseTyped, Judgement!ValidCase, Judgement!Successes
<1>8. /\ case.status = "SUCCEEDED_FIRST_PASS" => Len(attempts) = 1
      /\ case.status = "SUCCEEDED_REPAIRED" => Len(attempts) > 1
  BY <1>1 DEF Tried
<1>9. ASSUME case.status = "SUCCEEDED_REPAIRED"
      PROVE  Judgement!Current.sql = "model" /\ attempts[1].outcome # "rows"
  <2>1. Len(attempts) > 1
    BY <1>8, <1>9
  <2>2. 1 \in 1..Len(attempts) - 1 /\ Len(attempts) # 1
    BY <1>4, <2>1
  <2>3. attempts[1].outcome \in Retried
    BY <2>2 DEF Tried
  <2>4. case.category # "security"
    BY DEF CaseTyped, Judgement!CaseAssumption
  <2>5. attempts[Len(attempts)].sql # "fixture"
    BY <1>4, <2>2, <2>4 DEF Answered
  <2> QED
    BY <1>4, <2>3, <2>5 DEF Retried, Attempt
<1> QED
  BY <1>1, <1>2, <1>3, <1>5, <1>6, <1>7, <1>8, <1>9

(* A passing verdict of another case.                                      *)
LEMMA PassRefused ==
    ASSUME Judgement!CaseAssumption, CaseTyped, Early, Tried, pc = "judge",
           NEW comparisonCode, NEW tables \in BOOLEAN, NEW fields \in BOOLEAN,
           Judgement!ResultCode(comparisonCode, tables, fields) = "PASS",
           case.behavior # "EXECUTE"
    PROVE  /\ trace /\ final.status = case.status /\ final.error = case.error
           /\ execute_count = 0
           /\ case.behavior = "REJECT" => Judgement!Repairs <= 0
           /\ \A i \in DOMAIN attempts : attempts[i].at = None
<1>1. /\ trace /\ final.status = case.status /\ final.error = case.error
      /\ execute_count = 0
      /\ case.behavior = "REJECT" => ~(Judgement!Repairs > 0)
  BY DEF Judgement!ResultCode
<1>2. Len(attempts) \in Nat /\ DOMAIN attempts = 1..Len(attempts)
  BY DEF CaseTyped
<1>3. case.behavior = "REJECT" => Judgement!Repairs <= 0
  BY <1>1, <1>2 DEF Judgement!Repairs
<1>4. Asked = {}
  <2>1. IsFiniteSet(1..Len(attempts))
    BY <1>2, FS_Interval
  <2>2. IsFiniteSet(Asked)
    BY <1>2, <2>1, FS_Subset DEF Asked
  <2> QED
    BY <1>1, <2>2, FS_EmptySet DEF Tried
<1> QED
  BY <1>1, <1>3, <1>4 DEF Asked

(* The two lists of conditions agree.                                      *)
LEMMA EvidenceAccepted ==
    ASSUME Judgement!CaseAssumption, CaseTyped, Early, Budgeted, Answered,
           Tried, pc = "judge", case.initial = "draft",
           NEW comparisonCode \in Judgement!ComparisonCodes,
           NEW tables \in BOOLEAN, NEW fields \in BOOLEAN,
           Judgement!ResultCode(comparisonCode, tables, fields) = "PASS"
    PROVE  Judgement!EvidenceValid(comparisonCode, tables, fields)
<1>1. Len(attempts) \in Nat
  BY DEF CaseTyped
<1>2. final = [status |-> case.status, error |-> case.error] /\ trace
  BY PassExecuted, PassRefused DEF CaseTyped
<1>3. CASE case.behavior = "EXECUTE"
  <2>1. /\ gold.validated /\ gold.rows # None /\ Judgement!Validated
        /\ execute_count > 0 /\ comparisonCode = "match"
        /\ tables /\ fields
    BY <1>3, PassExecuted
  <2>2. \/ final.status = "SUCCEEDED_FIRST_PASS" /\ Judgement!Repairs = 0
        \/ final.status = "SUCCEEDED_REPAIRED" /\ Judgement!Repairs > 0
    <3>1. final.status = case.status
      BY <1>3, PassExecuted
    <3>2. \/ case.status = "SUCCEEDED_FIRST_PASS" /\ Len(attempts) = 1
          \/ case.status = "SUCCEEDED_REPAIRED" /\ Len(attempts) > 1
      BY <1>3, PassExecuted
    <3> QED
      BY <1>1, <3>1, <3>2 DEF Judgement!Repairs
  <2> QED
    BY <1>2, <1>3, <2>1, <2>2 DEF Judgement!EvidenceValid
<1>4. CASE case.behavior # "EXECUTE"
  <2>1. ~gold.validated /\ gold.rows = None
    BY <1>4 DEF Early
  <2>2. comparisonCode = None
    BY <1>4 DEF Judgement!ComparisonCodes
  <2>3. /\ execute_count = 0
        /\ case.behavior = "REJECT" => Judgement!Repairs <= 0
    BY <1>4, PassRefused
  <2> QED
    BY <1>2, <1>4, <2>1, <2>2, <2>3 DEF Judgement!EvidenceValid
<1> QED
  BY <1>3, <1>4

LEMMA JudgedKept ==
    ASSUME Judgement!CaseAssumption, CaseTyped, Early, Budgeted, Answered,
           Tried, Judgement!Next
    PROVE  Judged'
<1>1. CASE ~Judgement!Judge
  <2>1. code' \in {None, "snapshot_raised", "GOLD_VALIDATION_FAILED",
                   "GOLD_EXECUTION_FAILED", "INTERNAL_ERROR"}
    BY <1>1 DEF Early, Judgement!Next, Judgement!Harness, Judgement!Write,
           Judgement!Enter, Judgement!EnterFails, Judgement!GoldSchema,
           Judgement!GoldInvalid, Judgement!GoldValid,
           Judgement!GoldExecuted, Judgement!GoldRaises,
           Judgement!ReadSchema, Judgement!EndsEarly,
           Judgement!FixtureAnswers, Judgement!ModelAnswers,
           Judgement!ModelFails, Judgement!Validate, Judgement!Execute,
           Judgement!Reflect, Judgement!WorkflowRaises, Judgement!Trace,
           Judgement!Told
  <2>2. code' # "PASS" /\ code' # "evidence_refused"
    BY <2>1 DEF Judgement!CaseAssumption
  <2> QED
    BY <2>2 DEF Judged, Judgement!PassEarned, Judgement!ContractAgrees
<1>2. CASE Judgement!Judge
  <2>1. PICK comparisonCode \in Judgement!ComparisonCodes,
             tables \in BOOLEAN, fields \in BOOLEAN :
          LET c == Judgement!ResultCode(comparisonCode, tables, fields)
          IN  code' = IF /\ c = "PASS"
                         /\ ~Judgement!EvidenceValid(comparisonCode, tables,
                                                     fields)
                      THEN "evidence_refused" ELSE c
    BY <1>2 DEF Judgement!Judge, Judgement!Told
  <2> DEFINE c == Judgement!ResultCode(comparisonCode, tables, fields)
  <2>2. UNCHANGED <<case, final, gold, attempts>> /\ pc = "judge"
    BY <1>2 DEF Judgement!Judge, Judgement!work
  <2>3. ASSUME code' = "PASS"
        PROVE  Judgement!PassEarned'
    <3>1. c = "PASS"
      BY <2>1, <2>3
    <3>2. CASE case.behavior = "EXECUTE"
      BY <2>2, <3>1, <3>2, PassExecuted
         DEF Judgement!PassEarned, Judgement!Current, Judgement!Repairs,
             Retried
    <3>3. CASE case.behavior # "EXECUTE"
      BY <2>2, <3>1, <3>3, PassRefused DEF Judgement!PassEarned
    <3> QED
      BY <3>2, <3>3
  <2>4. c # "evidence_refused"
    <3>1. comparisonCode # "evidence_refused"
      BY DEF Judgement!ComparisonCodes, Judgement!CaseAssumption
    <3> QED
      BY <3>1 DEF Judgement!ResultCode, Judgement!ExecuteCode
  <2>5. case.initial = "draft" => code' # "evidence_refused"
    BY <2>1, <2>2, <2>4, EvidenceAccepted
  <2> QED
    BY <2>2, <2>3, <2>5
       DEF Judged, Judgement!PassEarned, Judgement!ContractAgrees
<1> QED
  BY <1>1, <1>2

LEMMA CaseInvBegins ==
    ASSUME Judgement!CaseAssumption, Judgement!Init
    PROVE  CaseInv
<1>1. Len(attempts) = 0 /\ 1..0 = {} /\ 1..0 - 1 = {} /\ DOMAIN attempts = {}
  BY DEF Judgement!Init
<1>2. CaseTyped
  <2>1. case \in Cases /\ Judgement!ValidCase(case)
    BY DEF Judgement!Init
  <2>2. attempts \in Seq(Attempt)
    BY DEF Judgement!Init
  <2>3. db \in Judgement!Versions
    BY DEF Judgement!Init, Judgement!CaseAssumption, Judgement!Versions
  <2>4. final = [status |-> final.status, error |-> final.error]
    BY DEF Judgement!Init, Judgement!NotFinal
  <2>5. gold \in [schema : Judgement!Versions \union {None},
                  validated : BOOLEAN, rows : Judgement!Versions \union {None}]
    BY DEF Judgement!Init
  <2>6. snapshots \in BOOLEAN /\ trace \in BOOLEAN
    BY Zenon DEF Judgement!Init
  <2>7. /\ pinned \in Judgement!Versions \union {None}
        /\ schema \in Judgement!Versions \union {None}
        /\ calls \in Nat /\ delegated \in 0..calls
    BY DEF Judgement!Init
  <2> QED
    BY <2>1, <2>2, <2>3, <2>4, <2>5, <2>6, <2>7 DEF CaseTyped
<1>3. Early /\ Looked /\ Budgeted /\ Answered
  BY <1>1 DEF Judgement!CaseAssumption, Judgement!Init, Early, Before, Asking,
         Looked, Budgeted, Answered
<1>4. Tried
  <2>1. Asked = {}
    BY <1>1 DEF Asked
  <2> QED
    BY <1>1, <2>1, FS_EmptySet DEF Judgement!Init, Tried
<1>5. Judged
  BY DEF Judgement!CaseAssumption, Judgement!Init, Judged,
         Judgement!PassEarned, Judgement!ContractAgrees
<1> QED
  BY <1>2, <1>3, <1>4, <1>5 DEF CaseInv

LEMMA CaseInvKept ==
    ASSUME Judgement!CaseAssumption, CaseInv,
           [Judgement!Next]_Judgement!vars
    PROVE  CaseInv'
<1>1. CASE Judgement!Next
  BY <1>1, CaseTypedKept, EarlyKept, LookedKept, BudgetedKept, AnsweredKept,
     TriedKept, JudgedKept DEF CaseInv
<1>2. CASE UNCHANGED Judgement!vars
  BY <1>2 DEF Judgement!vars, Judgement!asked, Judgement!work, CaseInv,
         CaseTyped, Judgement!ValidCase, Early, Looked, Budgeted, Answered,
         Tried, Asked, Judged, Judgement!PassEarned,
         Judgement!ContractAgrees, Judgement!Current, Judgement!Repairs
<1> QED
  BY <1>1, <1>2

LEMMA CaseInvAnswers ==
    ASSUME Judgement!CaseAssumption, CaseInv
    PROVE  /\ Judgement!TypeOK /\ Judgement!OneSnapshot
           /\ Judgement!OneSchema /\ Judgement!FixtureOnce
           /\ Judgement!CountTrue /\ Judgement!PassEarned
           /\ Judgement!ContractAgrees
<1>1. /\ Len(attempts) \in Nat /\ DOMAIN attempts = 1..Len(attempts)
      /\ MaxRepairs \in Nat
  BY DEF CaseInv, CaseTyped, Judgement!CaseAssumption
<1>2. Judgement!OneSnapshot
  BY <1>1 DEF CaseInv, Looked, Judgement!OneSnapshot
<1>3. Judgement!OneSchema
  BY DEF CaseInv, Early, Judgement!OneSchema
<1>4. Judgement!FixtureOnce
  <2>1. ASSUME case.fixture, case.category = "reflection",
               NEW i \in 1..Len(attempts)
        PROVE  (attempts[i].sql = "fixture") <=> (i = 1)
    BY <2>1 DEF CaseInv, Answered
  <2>2. ASSUME case.fixture, case.category = "reflection",
               NEW i \in 1..Len(attempts)
        PROVE  (attempts[i].sql = "fixture") = (i = 1)
    BY <2>1, <2>2, Zenon
  <2> QED
    BY <1>1, <2>2 DEF CaseInv, Answered, Judgement!FixtureOnce
<1>5. Judgement!CountTrue
  <2>1. Judgement!Cardinality(Asked) = Cardinality(Asked)
    BY DEF Judgement!Cardinality, Cardinality
  <2> QED
    BY <2>1 DEF CaseInv, Tried, Asked, Judgement!CountTrue
<1>6. Judgement!TypeOK
  <2>1. IsFiniteSet(1..Len(attempts)) /\
        Cardinality(1..Len(attempts)) = Len(attempts)
    <3> DEFINE n == Len(attempts)
    <3>1. n \in Nat /\ 1 \in Int /\ n \in Int
      BY <1>1
    <3> HIDE DEF n
    <3>2. /\ IsFiniteSet(1..n)
          /\ Cardinality(1..n) = IF 1 > n THEN 0 ELSE n - 1 + 1
      BY <3>1, FS_Interval
    <3>3. (IF 1 > n THEN 0 ELSE n - 1 + 1) = n
      BY <3>1
    <3> QED
      BY <3>2, <3>3 DEF n
  <2>2. /\ Cardinality(Asked) \in Nat
        /\ Cardinality(Asked) <= Cardinality(1..Len(attempts))
    <3>1. IsFiniteSet(Asked) /\ Asked \subseteq 1..Len(attempts)
      BY <1>1, <2>1, FS_Subset DEF Asked
    <3> QED
      BY <2>1, <3>1, FS_Subset, FS_CardinalityType
  <2>3. execute_count \in 0..MaxRepairs + 1
    BY <1>1, <2>1, <2>2 DEF CaseInv, Tried, Budgeted
  <2>4. calls \in 0..2 * (MaxRepairs + 1)
    BY <1>1 DEF CaseInv, Budgeted, CaseTyped
  <2>5. \A i \in DOMAIN attempts : attempts[i] \in Attempt
    BY DEF CaseInv, CaseTyped
  <2> QED
    BY <1>1, <2>3, <2>4, <2>5
       DEF CaseInv, CaseTyped, Budgeted, Attempt, Judgement!TypeOK
<1> QED
  BY <1>2, <1>3, <1>4, <1>5, <1>6 DEF CaseInv, Judged

(* For any suite of cases and any budget of repairs, whatever other        *)
(* sessions commit and whatever fails (evaluate_case): with snapshots Gold *)
(* and every attempt see the same rows, the workflow links against the     *)
(* schema of Gold, a faulty fixture is answered once, every call of the    *)
(* database is counted, a pass is earned, and the contract of the stored   *)
(* evidence refuses no passing verdict of a draft case.                    *)
THEOREM CaseJudged ==
    ASSUME Judgement!CaseAssumption
    PROVE  MCSpec => []CaseRight
<1> DEFINE Holds == part = "case" => CaseInv
<1>1. MCInit => Holds
  BY CaseInvBegins DEF MCInit
<1>2. Holds /\ [MCNext]_mcVars => Holds'
  <2> SUFFICES ASSUME Holds, [MCNext]_mcVars, part' = "case"
               PROVE  CaseInv'
    OBVIOUS
  <2>1. part = "case" /\ [Judgement!Next]_Judgement!vars
    <3>1. CASE UNCHANGED mcVars
      BY <3>1 DEF mcVars, Judgement!vars, Judgement!asked, Judgement!work
    <3>2. CASE MCNext
      BY <3>2 DEF MCNext
    <3> QED
      BY <3>1, <3>2
  <2> QED
    BY <2>1, CaseInvKept
<1>3. Holds => CaseRight
  BY CaseInvAnswers DEF CaseRight
<1> QED
  BY <1>1, <1>2, <1>3, PTL DEF MCSpec

-----------------------------------------------------------------------------
(* The audit.  A report is as good as the approvals that were given: also  *)
(* the one a command holds and has not written yet (Holds).                *)

Doing == {"idle", "ended", "evaluated", "review", "reviewed", "verify",
          "require", "mark", "lines", "write_lines", "refresh",
          "refresh_report", "write_report", "verified"}

\* The reports whose approved cases passed.
Passing(ids, maxRuns, versions) ==
    {r \in [run : 1..maxRuns, baseline : versions, passed : SUBSET ids,
            audit : [ids -> {"pending", "approved", "rejected"}],
            counted : SUBSET ids] :
        \A c \in ids : r.audit[c] = "approved" => c \in r.passed}

\* Every approval of the report was given.
Given(r, ids, given) ==
    \A c \in ids : r.audit[c] = "approved" => <<c, r.run>> \in given

\* What a command may hold, when those approvals were given.
Holds(d, ids, reports, given) ==
    /\ d \in [pc : Doing, case : ids \union {None}, approve : BOOLEAN,
              report : reports \union {None}, verified : SUBSET ids]
    /\ d.pc \notin {"idle", "ended", "evaluated"} => d.case \in ids
    /\ d.pc \in {"evaluated", "reviewed", "write_report"} =>
           d.report \in reports
    /\ d.pc = "evaluated" => \A c \in ids : d.report.audit[c] = "pending"
    /\ d.pc = "reviewed" =>
           Given(d.report, ids,
                 IF d.approve THEN given \union {<<d.case, d.report.run>>}
                 ELSE given)
    /\ d.pc = "write_report" => Given(d.report, ids, given)

\* The files, when those approvals were given.
Filed(ids, reports, versions, maxRuns) ==
    /\ version \in versions /\ baseline \in versions \union {None}
    /\ verified \subseteq ids /\ runs \in 0..maxRuns
    /\ report # None =>
           report \in reports /\ Given(report, ids, approvals)

RivalReports == Passing(RivalIds, RivalRuns, Together!Versions)
RivalsInv ==
    /\ Filed(RivalIds, RivalReports, Together!Versions, RivalRuns)
    /\ process = [p \in Rivals |-> process[p]]
    /\ \A p \in Rivals :
           Holds(process[p], RivalIds, RivalReports, approvals)

CaseReports == Passing(Ids, MaxRuns, Audit!Versions)

(* One command at a time: nobody changes a file between its steps.         *)
Alone(d) ==
    /\ report # None => report.run <= runs
    /\ d.pc = "evaluated" =>
           d.report.run = runs /\ (report # None => report.run < runs)
    /\ d.pc = "reviewed" =>
           /\ report # None /\ d.report.run = report.run
           /\ \A c \in Ids :
                 c # d.case => d.report.audit[c] = report.audit[c]
    /\ d.pc \in {"lines", "write_lines"} =>
           /\ report # None /\ report.baseline = version
           /\ d.case \in report.passed /\ report.audit[d.case] = "approved"
    /\ d.pc \in {"write_lines", "refresh_report"} => d.verified = verified
    /\ d.pc \in {"refresh", "refresh_report", "write_report", "verified"} =>
           d.case \in verified
    /\ d.pc = "write_report" =>
           report # None /\ d.report = [report EXCEPT !.counted = verified]
    /\ d.pc = "verified" => report.counted = verified

FilesInv ==
    /\ Filed(Ids, CaseReports, Audit!Versions, MaxRuns)
    /\ process = [p \in {Command} |-> process[p]]
    /\ \A p \in {Command} : Holds(process[p], Ids, CaseReports, approvals)

AloneInv == FilesInv /\ Alone(process[Command])

(* A decision on one case of a report.                                     *)
Decided(r, c, decision) == [r EXCEPT !.audit[c] = decision]

LEMMA ReportReviewed ==
    ASSUME NEW ids, NEW maxRuns, NEW versions,
           NEW r \in Passing(ids, maxRuns, versions), NEW c \in ids,
           NEW decision \in {"approved", "rejected"},
           decision = "approved" => c \in r.passed
    PROVE  /\ Decided(r, c, decision) \in Passing(ids, maxRuns, versions)
           /\ Decided(r, c, decision).run = r.run
           /\ Decided(r, c, decision).audit[c] = decision
           /\ \A d \in ids : d # c =>
                  Decided(r, c, decision).audit[d] = r.audit[d]
<1> DEFINE s == Decided(r, c, decision)
<1>1. /\ r \in [run : 1..maxRuns, baseline : versions, passed : SUBSET ids,
                audit : [ids -> {"pending", "approved", "rejected"}],
                counted : SUBSET ids]
      /\ \A d \in ids : r.audit[d] = "approved" => d \in r.passed
  BY DEF Passing
<1>2. s = [r EXCEPT !.audit = [r.audit EXCEPT ![c] = decision]]
  BY <1>1 DEF Decided
<1>3. /\ [r.audit EXCEPT ![c] = decision]
             \in [ids -> {"pending", "approved", "rejected"}]
      /\ [r.audit EXCEPT ![c] = decision][c] = decision
      /\ \A d \in ids : d # c =>
             [r.audit EXCEPT ![c] = decision][d] = r.audit[d]
  BY <1>1
<1>4. /\ s \in [run : 1..maxRuns, baseline : versions, passed : SUBSET ids,
                audit : [ids -> {"pending", "approved", "rejected"}],
                counted : SUBSET ids]
      /\ s.run = r.run /\ s.audit = [r.audit EXCEPT ![c] = decision]
      /\ s.passed = r.passed
  BY <1>1, <1>2, <1>3
<1> HIDE DEF s
<1>5. \A d \in ids : s.audit[d] = "approved" => d \in s.passed
  BY <1>1, <1>3, <1>4
<1>6. s \in Passing(ids, maxRuns, versions)
  BY <1>4, <1>5 DEF Passing
<1> QED
  BY <1>3, <1>4, <1>6 DEF s

(* The count of a report refreshed.                                        *)
LEMMA ReportCounted ==
    ASSUME NEW ids, NEW maxRuns, NEW versions,
           NEW r \in Passing(ids, maxRuns, versions), NEW v \in SUBSET ids
    PROVE  /\ [r EXCEPT !.counted = v] \in Passing(ids, maxRuns, versions)
           /\ [r EXCEPT !.counted = v].run = r.run
           /\ [r EXCEPT !.counted = v].audit = r.audit
           /\ [r EXCEPT !.counted = v].counted = v
  BY DEF Passing

(* A new report: nothing is decided.                                       *)
LEMMA ReportBegun ==
    ASSUME NEW ids, NEW maxRuns, NEW versions, NEW n \in 1..maxRuns,
           NEW b \in versions, NEW passed \in SUBSET ids, NEW r,
           r = [run |-> n, baseline |-> b, passed |-> passed,
                audit |-> [c \in ids |-> "pending"], counted |-> {}]
    PROVE  /\ r \in Passing(ids, maxRuns, versions)
           /\ r.run = n /\ \A c \in ids : r.audit[c] = "pending"
<1>1. [c \in ids |-> "pending"]
          \in [ids -> {"pending", "approved", "rejected"}]
  OBVIOUS
<1>2. \A c \in ids : r.audit[c] = "pending"
  OBVIOUS
<1>3. r \in [run : 1..maxRuns, baseline : versions, passed : SUBSET ids,
             audit : [ids -> {"pending", "approved", "rejected"}],
             counted : SUBSET ids]
  BY <1>1
<1> QED
  BY <1>2, <1>3 DEF Passing

(* More approvals take nothing back.                                       *)
LEMMA HoldsMore ==
    ASSUME NEW d, NEW ids, NEW reports, NEW given, NEW more,
           Holds(d, ids, reports, given), given \subseteq more
    PROVE  Holds(d, ids, reports, more)
  BY DEF Holds, Given

LEMMA RivalsBegin ==
    ASSUME Together!AuditAssumption, Together!Init
    PROVE  RivalsInv
<1>1. /\ process = [p \in Rivals |-> Together!Idle]
      /\ version = 1 /\ baseline = None /\ verified = {} /\ report = None
      /\ runs = 0 /\ approvals = {}
  BY DEF Together!Init
<1>2. Filed(RivalIds, RivalReports, Together!Versions, RivalRuns)
  BY <1>1 DEF Filed, Together!AuditAssumption, Together!Versions
<1>3. Holds(Together!Idle, RivalIds, RivalReports, approvals)
  BY DEF Holds, Doing, Together!Idle
<1> QED
  BY <1>1, <1>2, <1>3 DEF RivalsInv

(* The commands read and write whole files.                                *)
LEMMA RivalsMove ==
    ASSUME Together!AuditAssumption, RivalsInv, NEW p \in Rivals,
           \/ Together!Dies(p) \/ Together!Leaves(p)
           \/ \E copy \in BOOLEAN :
                  \/ Together!FreezeBaseline(p, copy)
                  \/ Together!Evaluate(p, copy)
           \/ Together!WriteEvaluation(p) \/ Together!Begins(p, "review")
           \/ Together!Review(p) \/ Together!WriteReview(p)
           \/ Together!Begins(p, "verify") \/ Together!VerifyLoad(p)
           \/ Together!Require(p) \/ Together!Mark(p)
           \/ Together!ReadLines(p) \/ Together!WriteLines(p)
           \/ Together!RefreshSuite(p) \/ Together!RefreshReport(p)
           \/ Together!WriteReport(p) \/ Together!VerifyLeaves(p)
    PROVE  \E d :
             /\ process' = [process EXCEPT ![p] = d]
             /\ Holds(d, RivalIds, RivalReports, approvals')
             /\ approvals \subseteq approvals'
             /\ Filed(RivalIds, RivalReports, Together!Versions, RivalRuns)'
<1> DEFINE old == process[p]
<1>1. Holds(old, RivalIds, RivalReports, approvals)
  BY DEF RivalsInv
<1>2. Filed(RivalIds, RivalReports, Together!Versions, RivalRuns)
  BY DEF RivalsInv
<1>3. CASE Together!Dies(p) \/ Together!Leaves(p) \/ Together!VerifyLeaves(p)
  <2>1. /\ process' = [process EXCEPT ![p] = Together!Idle]
        /\ UNCHANGED <<version, baseline, verified, report, runs, approvals>>
    BY <1>3 DEF Together!Dies, Together!Leaves, Together!VerifyLeaves,
                Together!Becomes, Together!files
  <2>2. Holds(Together!Idle, RivalIds, RivalReports, approvals)
    BY DEF Holds, Doing, Together!Idle
  <2>3. Filed(RivalIds, RivalReports, Together!Versions, RivalRuns)'
    BY <1>2, <2>1 DEF Filed, Given, RivalReports, Passing, Together!Versions
  <2> QED
    BY <2>1, <2>2, <2>3
<1>4. ASSUME NEW copy \in BOOLEAN, Together!FreezeBaseline(p, copy)
      PROVE  /\ process' = [process EXCEPT ![p] = [old EXCEPT !.pc = "ended"]]
             /\ Holds([old EXCEPT !.pc = "ended"], RivalIds, RivalReports,
                      approvals')
             /\ approvals' = approvals
             /\ Filed(RivalIds, RivalReports, Together!Versions, RivalRuns)'
  <2>1. /\ process' = [process EXCEPT ![p] = [old EXCEPT !.pc = "ended"]]
        /\ UNCHANGED <<version, verified, report, runs, approvals>>
        /\ baseline' = version
    BY <1>4 DEF Together!FreezeBaseline, Together!Goes, Together!Becomes
  <2>2. Holds([old EXCEPT !.pc = "ended"], RivalIds, RivalReports, approvals)
    BY <1>1 DEF Holds, Doing
  <2>3. Filed(RivalIds, RivalReports, Together!Versions, RivalRuns)'
    BY <1>2, <2>1 DEF Filed, Given, RivalReports, Passing, Together!Versions
  <2> QED
    BY <2>1, <2>2, <2>3
<1>5. ASSUME NEW copy \in BOOLEAN, Together!Evaluate(p, copy)
      PROVE  \E d :
               /\ process' = [process EXCEPT ![p] = d]
               /\ Holds(d, RivalIds, RivalReports, approvals')
               /\ approvals' = approvals
               /\ Filed(RivalIds, RivalReports, Together!Versions,
                        RivalRuns)'
  <2>1. PICK passed \in SUBSET RivalIds :
            process' = [process EXCEPT ![p] =
                [old EXCEPT !.pc = "evaluated",
                            !.report = Together!Report(runs + 1, passed,
                                [c \in RivalIds |-> "pending"], {})]]
    BY <1>5 DEF Together!Evaluate, Together!Becomes
  <2> DEFINE r == Together!Report(runs + 1, passed,
                                  [c \in RivalIds |-> "pending"], {})
             d == [old EXCEPT !.pc = "evaluated", !.report = r]
  <2>2. /\ UNCHANGED <<version, baseline, verified, report, approvals>>
        /\ runs' = runs + 1 /\ runs < RivalRuns /\ baseline = version
    BY <1>5 DEF Together!Evaluate, Together!files, Together!Frozen
  <2>3. runs + 1 \in 1..RivalRuns /\ baseline \in Together!Versions
    BY <1>2, <2>2 DEF Filed, Together!AuditAssumption
  <2>4. r \in RivalReports /\ \A c \in RivalIds : r.audit[c] = "pending"
    BY <2>3, ReportBegun DEF Together!Report, RivalReports
  <2> HIDE DEF r
  <2>5. Holds(d, RivalIds, RivalReports, approvals)
    BY <1>1, <2>4 DEF Holds, Doing
  <2>6. Filed(RivalIds, RivalReports, Together!Versions, RivalRuns)'
    <3>1. runs' \in 0..RivalRuns
      BY <2>2, <2>3 DEF Together!AuditAssumption
    <3> QED
      BY <1>2, <2>2, <3>1
         DEF Filed, Given, RivalReports, Passing, Together!Versions
  <2> QED
    BY <2>1, <2>2, <2>5, <2>6 DEF r
<1>6. CASE Together!WriteEvaluation(p)
  <2>1. /\ process' = [process EXCEPT ![p] = [old EXCEPT !.pc = "ended"]]
        /\ UNCHANGED <<version, baseline, verified, runs, approvals>>
        /\ report' = old.report /\ old.pc = "evaluated"
    BY <1>6 DEF Together!WriteEvaluation, Together!Goes, Together!Becomes,
                Together!At
  <2>2. Holds([old EXCEPT !.pc = "ended"], RivalIds, RivalReports, approvals)
    BY <1>1 DEF Holds, Doing
  <2>3. old.report \in RivalReports /\ Given(old.report, RivalIds, approvals)
    BY <1>1, <2>1 DEF Holds, Given
  <2>4. Filed(RivalIds, RivalReports, Together!Versions, RivalRuns)'
    BY <1>2, <2>1, <2>3
       DEF Filed, Given, RivalReports, Passing, Together!Versions
  <2> QED
    BY <2>1, <2>2, <2>4
<1>7. CASE Together!Begins(p, "review") \/ Together!Begins(p, "verify")
  <2>1. PICK k \in {"review", "verify"}, c \in RivalIds, a \in BOOLEAN :
            /\ process' = [process EXCEPT ![p] =
                   [Together!Idle EXCEPT !.pc = k, !.case = c, !.approve = a]]
            /\ UNCHANGED <<version, baseline, verified, report, runs,
                           approvals>>
    BY <1>7 DEF Together!Begins, Together!Becomes, Together!files
  <2>2. Holds([Together!Idle EXCEPT !.pc = k, !.case = c, !.approve = a],
              RivalIds, RivalReports, approvals)
    BY DEF Holds, Doing, Together!Idle
  <2>3. Filed(RivalIds, RivalReports, Together!Versions, RivalRuns)'
    BY <1>2, <2>1 DEF Filed, Given, RivalReports, Passing, Together!Versions
  <2> QED
    BY <2>1, <2>2, <2>3
<1>8. CASE Together!Review(p)
  <2> DEFINE decision == IF old.approve THEN "approved" ELSE "rejected"
             r == Decided(report, old.case, decision)
             d == [old EXCEPT !.pc = "reviewed", !.report = r]
  <2>1. /\ process' = [process EXCEPT ![p] = d]
        /\ UNCHANGED <<version, baseline, verified, report, runs, approvals>>
        /\ old.pc = "review" /\ report # None
        /\ old.approve => old.case \in report.passed
    BY <1>8 DEF Together!Review, Together!Becomes, Together!files,
                Together!At, Together!CurrentReport, Decided
  <2>2. /\ report \in RivalReports /\ Given(report, RivalIds, approvals)
        /\ old.case \in RivalIds
    BY <1>1, <1>2, <2>1 DEF Filed, Holds
  <2>3. /\ decision \in {"approved", "rejected"}
        /\ decision = "approved" => old.case \in report.passed
        /\ decision = "approved" => old.approve
    BY <2>1
  <2> HIDE DEF decision
  <2>4. /\ r \in RivalReports /\ r.run = report.run
        /\ \A c \in RivalIds : c # old.case => r.audit[c] = report.audit[c]
        /\ r.audit[old.case] = decision
    BY <2>2, <2>3, ReportReviewed DEF RivalReports
  <2> HIDE DEF r
  <2>5. Given(r, RivalIds, IF old.approve
                           THEN approvals \union {<<old.case, r.run>>}
                           ELSE approvals)
    BY <2>2, <2>3, <2>4 DEF Given
  <2>6. Holds(d, RivalIds, RivalReports, approvals)
    BY <1>1, <2>2, <2>4, <2>5 DEF Holds, Doing
  <2>7. Filed(RivalIds, RivalReports, Together!Versions, RivalRuns)'
    BY <1>2, <2>1 DEF Filed, Given, RivalReports, Passing, Together!Versions
  <2> QED
    BY <2>1, <2>6, <2>7
<1>9. CASE Together!WriteReview(p)
  <2>1. /\ process' = [process EXCEPT ![p] = [old EXCEPT !.pc = "ended"]]
        /\ UNCHANGED <<version, baseline, verified, runs>>
        /\ report' = old.report /\ old.pc = "reviewed"
        /\ approvals' = IF old.approve
                        THEN approvals \union {<<old.case, old.report.run>>}
                        ELSE approvals
    BY <1>9 DEF Together!WriteReview, Together!Goes, Together!Becomes,
                Together!At
  <2>2. old.report \in RivalReports /\ Given(old.report, RivalIds, approvals')
    BY <1>1, <2>1 DEF Holds
  <2>3. approvals \subseteq approvals'
    BY <2>1
  <2>4. Holds([old EXCEPT !.pc = "ended"], RivalIds, RivalReports, approvals')
    BY <1>1 DEF Holds, Doing
  <2>5. Filed(RivalIds, RivalReports, Together!Versions, RivalRuns)'
    BY <1>2, <2>1, <2>2
       DEF Filed, Given, RivalReports, Passing, Together!Versions
  <2> QED
    BY <2>1, <2>3, <2>4, <2>5
<1>10. CASE Together!VerifyLoad(p)
  <2>1. /\ process' = [process EXCEPT ![p] =
               [old EXCEPT !.pc = "require", !.report = report]]
        /\ UNCHANGED <<version, baseline, verified, report, runs, approvals>>
        /\ old.pc = "verify" /\ report # None
    BY <1>10 DEF Together!VerifyLoad, Together!Becomes, Together!files,
                 Together!At, Together!CurrentReport
  <2>2. report \in RivalReports
    BY <1>2, <2>1 DEF Filed
  <2>3. Holds([old EXCEPT !.pc = "require", !.report = report], RivalIds,
              RivalReports, approvals)
    BY <1>1, <2>1, <2>2 DEF Holds, Doing
  <2>4. Filed(RivalIds, RivalReports, Together!Versions, RivalRuns)'
    BY <1>2, <2>1 DEF Filed, Given, RivalReports, Passing, Together!Versions
  <2> QED
    BY <2>1, <2>3, <2>4
<1>11. CASE Together!Require(p) \/ Together!Mark(p)
  <2>1. PICK k \in {"mark", "lines"} :
            /\ process' = [process EXCEPT ![p] = [old EXCEPT !.pc = k]]
            /\ UNCHANGED <<version, baseline, verified, report, runs,
                           approvals>>
            /\ old.pc \in {"require", "mark"}
    BY <1>11 DEF Together!Require, Together!Mark, Together!Goes,
                 Together!Becomes, Together!files, Together!At
  <2>2. Holds([old EXCEPT !.pc = k], RivalIds, RivalReports, approvals)
    BY <1>1, <2>1 DEF Holds, Doing
  <2>3. Filed(RivalIds, RivalReports, Together!Versions, RivalRuns)'
    BY <1>2, <2>1 DEF Filed, Given, RivalReports, Passing, Together!Versions
  <2> QED
    BY <2>1, <2>2, <2>3
<1>12. CASE Together!ReadLines(p) \/ Together!RefreshSuite(p)
  <2>1. PICK k \in {"refresh", "write_lines", "refresh_report"} :
            /\ process' = [process EXCEPT ![p] =
                              [old EXCEPT !.pc = k, !.verified = verified]]
            /\ UNCHANGED <<version, baseline, verified, report, runs,
                           approvals>>
            /\ old.pc \in {"lines", "refresh"}
    BY <1>12 DEF Together!ReadLines, Together!RefreshSuite,
                 Together!Becomes, Together!files, Together!At
  <2>2. verified \subseteq RivalIds
    BY <1>2 DEF Filed
  <2>3. Holds([old EXCEPT !.pc = k, !.verified = verified], RivalIds,
              RivalReports, approvals)
    BY <1>1, <2>1, <2>2 DEF Holds, Doing
  <2>4. Filed(RivalIds, RivalReports, Together!Versions, RivalRuns)'
    BY <1>2, <2>1 DEF Filed, Given, RivalReports, Passing, Together!Versions
  <2> QED
    BY <2>1, <2>3, <2>4
<1>13. CASE Together!WriteLines(p)
  <2>1. /\ process' = [process EXCEPT ![p] = [old EXCEPT !.pc = "refresh"]]
        /\ UNCHANGED <<version, baseline, report, runs, approvals>>
        /\ verified' = old.verified \union {old.case}
        /\ old.pc = "write_lines"
    BY <1>13 DEF Together!WriteLines, Together!Goes, Together!Becomes,
                 Together!At
  <2>2. old.verified \subseteq RivalIds /\ old.case \in RivalIds
    BY <1>1, <2>1 DEF Holds
  <2>3. Holds([old EXCEPT !.pc = "refresh"], RivalIds, RivalReports,
              approvals)
    BY <1>1, <2>1 DEF Holds, Doing
  <2>4. Filed(RivalIds, RivalReports, Together!Versions, RivalRuns)'
    BY <1>2, <2>1, <2>2
       DEF Filed, Given, RivalReports, Passing, Together!Versions
  <2> QED
    BY <2>1, <2>3, <2>4
<1>14. CASE Together!RefreshReport(p)
  <2> DEFINE r == [report EXCEPT !.counted = old.verified]
             d == [old EXCEPT !.pc = "write_report", !.report = r]
  <2>1. /\ process' = [process EXCEPT ![p] = d]
        /\ UNCHANGED <<version, baseline, verified, report, runs, approvals>>
        /\ old.pc = "refresh_report" /\ report # None
    BY <1>14 DEF Together!RefreshReport, Together!Becomes, Together!files,
                 Together!At, Together!CurrentReport
  <2>2. /\ report \in RivalReports /\ Given(report, RivalIds, approvals)
        /\ old.verified \subseteq RivalIds /\ old.case \in RivalIds
    BY <1>1, <1>2, <2>1 DEF Filed, Holds
  <2>3. r \in RivalReports /\ r.run = report.run /\ r.audit = report.audit
    BY <2>2, ReportCounted DEF RivalReports
  <2> HIDE DEF r
  <2>4. Given(r, RivalIds, approvals)
    BY <2>2, <2>3 DEF Given
  <2>5. Holds(d, RivalIds, RivalReports, approvals)
    BY <1>1, <2>2, <2>3, <2>4 DEF Holds, Doing
  <2>6. Filed(RivalIds, RivalReports, Together!Versions, RivalRuns)'
    BY <1>2, <2>1 DEF Filed, Given, RivalReports, Passing, Together!Versions
  <2> QED
    BY <2>1, <2>5, <2>6
<1>15. CASE Together!WriteReport(p)
  <2>1. /\ process' = [process EXCEPT ![p] = [old EXCEPT !.pc = "verified"]]
        /\ UNCHANGED <<version, baseline, verified, runs, approvals>>
        /\ report' = old.report /\ old.pc = "write_report"
    BY <1>15 DEF Together!WriteReport, Together!Goes, Together!Becomes,
                 Together!At
  <2>2. Holds([old EXCEPT !.pc = "verified"], RivalIds, RivalReports,
              approvals)
    BY <1>1, <2>1 DEF Holds, Doing
  <2>3. old.report \in RivalReports /\ Given(old.report, RivalIds, approvals)
    BY <1>1, <2>1 DEF Holds
  <2>4. Filed(RivalIds, RivalReports, Together!Versions, RivalRuns)'
    BY <1>2, <2>1, <2>3
       DEF Filed, Given, RivalReports, Passing, Together!Versions
  <2> QED
    BY <2>1, <2>2, <2>4
<1> QED
  BY <1>3, <1>4, <1>5, <1>6, <1>7, <1>8, <1>9, <1>10, <1>11, <1>12, <1>13,
     <1>14, <1>15

LEMMA RivalsKept ==
    ASSUME Together!AuditAssumption, RivalsInv,
           [Together!Next]_Together!vars
    PROVE  RivalsInv'
<1>1. CASE UNCHANGED Together!vars \/ Together!EditCode
  <2>1. /\ UNCHANGED <<baseline, verified, report, runs, process, approvals>>
        /\ \/ version' = version
           \/ version < RivalVersions /\ version' = version + 1
    BY <1>1 DEF Together!vars, Together!files, Together!EditCode
  <2>2. version' \in Together!Versions
    BY <2>1 DEF RivalsInv, Filed, Together!Versions,
                Together!AuditAssumption
  <2> QED
    BY <2>1, <2>2 DEF RivalsInv, Filed, Given, Holds, RivalReports, Passing,
                      Together!Versions
<1>2. ASSUME NEW p \in Rivals,
             \/ Together!Dies(p) \/ Together!Leaves(p)
             \/ \E copy \in BOOLEAN :
                    \/ Together!FreezeBaseline(p, copy)
                    \/ Together!Evaluate(p, copy)
             \/ Together!WriteEvaluation(p) \/ Together!Begins(p, "review")
             \/ Together!Review(p) \/ Together!WriteReview(p)
             \/ Together!Begins(p, "verify") \/ Together!VerifyLoad(p)
             \/ Together!Require(p) \/ Together!Mark(p)
             \/ Together!ReadLines(p) \/ Together!WriteLines(p)
             \/ Together!RefreshSuite(p) \/ Together!RefreshReport(p)
             \/ Together!WriteReport(p) \/ Together!VerifyLeaves(p)
      PROVE  RivalsInv'
  <2>1. PICK d :
          /\ process' = [process EXCEPT ![p] = d]
          /\ Holds(d, RivalIds, RivalReports, approvals')
          /\ approvals \subseteq approvals'
          /\ Filed(RivalIds, RivalReports, Together!Versions, RivalRuns)'
    BY <1>2, RivalsMove
  <2>2. /\ process' = [q \in Rivals |-> process'[q]]
        /\ \A q \in Rivals :
              Holds(process'[q], RivalIds, RivalReports, approvals')
    <3>1. process = [q \in Rivals |-> process[q]]
      BY DEF RivalsInv
    <3>2. /\ process' = [q \in Rivals |-> process'[q]] /\ process'[p] = d
          /\ \A q \in Rivals : q # p => process'[q] = process[q]
      BY <2>1, <3>1
    <3>3. \A q \in Rivals :
              Holds(process[q], RivalIds, RivalReports, approvals')
      BY <2>1, HoldsMore DEF RivalsInv
    <3> QED
      BY <2>1, <3>2, <3>3
  <2>3. \A q \in Rivals :
            Holds(process[q], RivalIds, RivalReports, approvals)'
    BY <2>2 DEF Holds, Given, RivalReports, Passing, Together!Versions
  <2> QED
    BY <2>1, <2>2, <2>3 DEF RivalsInv
<1> QED
  BY <1>1, <1>2 DEF Together!Next

LEMMA FilesBegin ==
    ASSUME Audit!AuditAssumption, Audit!Init
    PROVE  FilesInv
<1>1. /\ process = [p \in {Command} |-> Audit!Idle]
      /\ version = 1 /\ baseline = None /\ verified = {} /\ report = None
      /\ runs = 0 /\ approvals = {}
  BY DEF Audit!Init
<1>2. Filed(Ids, CaseReports, Audit!Versions, MaxRuns)
  BY <1>1 DEF Filed, Audit!AuditAssumption, Audit!Versions
<1>3. Holds(Audit!Idle, Ids, CaseReports, approvals)
  BY DEF Holds, Doing, Audit!Idle
<1> QED
  BY <1>1, <1>2, <1>3 DEF FilesInv

(* The same for one command at a time.                                     *)
LEMMA FilesMove ==
    ASSUME Audit!AuditAssumption, FilesInv, NEW p \in {Command},
           \/ Audit!Dies(p) \/ Audit!Leaves(p)
           \/ \E copy \in BOOLEAN :
                  \/ Audit!FreezeBaseline(p, copy)
                  \/ Audit!Evaluate(p, copy)
           \/ Audit!WriteEvaluation(p) \/ Audit!Begins(p, "review")
           \/ Audit!Review(p) \/ Audit!WriteReview(p)
           \/ Audit!Begins(p, "verify") \/ Audit!VerifyLoad(p)
           \/ Audit!Require(p) \/ Audit!Mark(p)
           \/ Audit!ReadLines(p) \/ Audit!WriteLines(p)
           \/ Audit!RefreshSuite(p) \/ Audit!RefreshReport(p)
           \/ Audit!WriteReport(p) \/ Audit!VerifyLeaves(p)
    PROVE  \E d :
             /\ process' = [process EXCEPT ![p] = d]
             /\ Holds(d, Ids, CaseReports, approvals')
             /\ approvals \subseteq approvals'
             /\ Filed(Ids, CaseReports, Audit!Versions, MaxRuns)'
<1> DEFINE old == process[p]
<1>1. Holds(old, Ids, CaseReports, approvals)
  BY DEF FilesInv
<1>2. Filed(Ids, CaseReports, Audit!Versions, MaxRuns)
  BY DEF FilesInv
<1>3. CASE Audit!Dies(p) \/ Audit!Leaves(p) \/ Audit!VerifyLeaves(p)
  <2>1. /\ process' = [process EXCEPT ![p] = Audit!Idle]
        /\ UNCHANGED <<version, baseline, verified, report, runs, approvals>>
    BY <1>3 DEF Audit!Dies, Audit!Leaves, Audit!VerifyLeaves,
                Audit!Becomes, Audit!files
  <2>2. Holds(Audit!Idle, Ids, CaseReports, approvals)
    BY DEF Holds, Doing, Audit!Idle
  <2>3. Filed(Ids, CaseReports, Audit!Versions, MaxRuns)'
    BY <1>2, <2>1 DEF Filed, Given, CaseReports, Passing, Audit!Versions
  <2> QED
    BY <2>1, <2>2, <2>3
<1>4. ASSUME NEW copy \in BOOLEAN, Audit!FreezeBaseline(p, copy)
      PROVE  /\ process' = [process EXCEPT ![p] = [old EXCEPT !.pc = "ended"]]
             /\ Holds([old EXCEPT !.pc = "ended"], Ids, CaseReports,
                      approvals')
             /\ approvals' = approvals
             /\ Filed(Ids, CaseReports, Audit!Versions, MaxRuns)'
  <2>1. /\ process' = [process EXCEPT ![p] = [old EXCEPT !.pc = "ended"]]
        /\ UNCHANGED <<version, verified, report, runs, approvals>>
        /\ baseline' = version
    BY <1>4 DEF Audit!FreezeBaseline, Audit!Goes, Audit!Becomes
  <2>2. Holds([old EXCEPT !.pc = "ended"], Ids, CaseReports, approvals)
    BY <1>1 DEF Holds, Doing
  <2>3. Filed(Ids, CaseReports, Audit!Versions, MaxRuns)'
    BY <1>2, <2>1 DEF Filed, Given, CaseReports, Passing, Audit!Versions
  <2> QED
    BY <2>1, <2>2, <2>3
<1>5. ASSUME NEW copy \in BOOLEAN, Audit!Evaluate(p, copy)
      PROVE  \E d :
               /\ process' = [process EXCEPT ![p] = d]
               /\ Holds(d, Ids, CaseReports, approvals')
               /\ approvals' = approvals
               /\ Filed(Ids, CaseReports, Audit!Versions,
                        MaxRuns)'
  <2>1. PICK passed \in SUBSET Ids :
            process' = [process EXCEPT ![p] =
                [old EXCEPT !.pc = "evaluated",
                            !.report = Audit!Report(runs + 1, passed,
                                [c \in Ids |-> "pending"], {})]]
    BY <1>5 DEF Audit!Evaluate, Audit!Becomes
  <2> DEFINE r == Audit!Report(runs + 1, passed,
                                  [c \in Ids |-> "pending"], {})
             d == [old EXCEPT !.pc = "evaluated", !.report = r]
  <2>2. /\ UNCHANGED <<version, baseline, verified, report, approvals>>
        /\ runs' = runs + 1 /\ runs < MaxRuns /\ baseline = version
    BY <1>5 DEF Audit!Evaluate, Audit!files, Audit!Frozen
  <2>3. runs + 1 \in 1..MaxRuns /\ baseline \in Audit!Versions
    BY <1>2, <2>2 DEF Filed, Audit!AuditAssumption
  <2>4. r \in CaseReports /\ \A c \in Ids : r.audit[c] = "pending"
    BY <2>3, ReportBegun DEF Audit!Report, CaseReports
  <2> HIDE DEF r
  <2>5. Holds(d, Ids, CaseReports, approvals)
    BY <1>1, <2>4 DEF Holds, Doing
  <2>6. Filed(Ids, CaseReports, Audit!Versions, MaxRuns)'
    <3>1. runs' \in 0..MaxRuns
      BY <2>2, <2>3 DEF Audit!AuditAssumption
    <3> QED
      BY <1>2, <2>2, <3>1
         DEF Filed, Given, CaseReports, Passing, Audit!Versions
  <2> QED
    BY <2>1, <2>2, <2>5, <2>6 DEF r
<1>6. CASE Audit!WriteEvaluation(p)
  <2>1. /\ process' = [process EXCEPT ![p] = [old EXCEPT !.pc = "ended"]]
        /\ UNCHANGED <<version, baseline, verified, runs, approvals>>
        /\ report' = old.report /\ old.pc = "evaluated"
    BY <1>6 DEF Audit!WriteEvaluation, Audit!Goes, Audit!Becomes,
                Audit!At
  <2>2. Holds([old EXCEPT !.pc = "ended"], Ids, CaseReports, approvals)
    BY <1>1 DEF Holds, Doing
  <2>3. old.report \in CaseReports /\ Given(old.report, Ids, approvals)
    BY <1>1, <2>1 DEF Holds, Given
  <2>4. Filed(Ids, CaseReports, Audit!Versions, MaxRuns)'
    BY <1>2, <2>1, <2>3
       DEF Filed, Given, CaseReports, Passing, Audit!Versions
  <2> QED
    BY <2>1, <2>2, <2>4
<1>7. CASE Audit!Begins(p, "review") \/ Audit!Begins(p, "verify")
  <2>1. PICK k \in {"review", "verify"}, c \in Ids, a \in BOOLEAN :
            /\ process' = [process EXCEPT ![p] =
                   [Audit!Idle EXCEPT !.pc = k, !.case = c, !.approve = a]]
            /\ UNCHANGED <<version, baseline, verified, report, runs,
                           approvals>>
    BY <1>7 DEF Audit!Begins, Audit!Becomes, Audit!files
  <2>2. Holds([Audit!Idle EXCEPT !.pc = k, !.case = c, !.approve = a],
              Ids, CaseReports, approvals)
    BY DEF Holds, Doing, Audit!Idle
  <2>3. Filed(Ids, CaseReports, Audit!Versions, MaxRuns)'
    BY <1>2, <2>1 DEF Filed, Given, CaseReports, Passing, Audit!Versions
  <2> QED
    BY <2>1, <2>2, <2>3
<1>8. CASE Audit!Review(p)
  <2> DEFINE decision == IF old.approve THEN "approved" ELSE "rejected"
             r == Decided(report, old.case, decision)
             d == [old EXCEPT !.pc = "reviewed", !.report = r]
  <2>1. /\ process' = [process EXCEPT ![p] = d]
        /\ UNCHANGED <<version, baseline, verified, report, runs, approvals>>
        /\ old.pc = "review" /\ report # None
        /\ old.approve => old.case \in report.passed
    BY <1>8 DEF Audit!Review, Audit!Becomes, Audit!files,
                Audit!At, Audit!CurrentReport, Decided
  <2>2. /\ report \in CaseReports /\ Given(report, Ids, approvals)
        /\ old.case \in Ids
    BY <1>1, <1>2, <2>1 DEF Filed, Holds
  <2>3. /\ decision \in {"approved", "rejected"}
        /\ decision = "approved" => old.case \in report.passed
        /\ decision = "approved" => old.approve
    BY <2>1
  <2> HIDE DEF decision
  <2>4. /\ r \in CaseReports /\ r.run = report.run
        /\ \A c \in Ids : c # old.case => r.audit[c] = report.audit[c]
        /\ r.audit[old.case] = decision
    BY <2>2, <2>3, ReportReviewed DEF CaseReports
  <2> HIDE DEF r
  <2>5. Given(r, Ids, IF old.approve
                           THEN approvals \union {<<old.case, r.run>>}
                           ELSE approvals)
    BY <2>2, <2>3, <2>4 DEF Given
  <2>6. Holds(d, Ids, CaseReports, approvals)
    BY <1>1, <2>2, <2>4, <2>5 DEF Holds, Doing
  <2>7. Filed(Ids, CaseReports, Audit!Versions, MaxRuns)'
    BY <1>2, <2>1 DEF Filed, Given, CaseReports, Passing, Audit!Versions
  <2> QED
    BY <2>1, <2>6, <2>7
<1>9. CASE Audit!WriteReview(p)
  <2>1. /\ process' = [process EXCEPT ![p] = [old EXCEPT !.pc = "ended"]]
        /\ UNCHANGED <<version, baseline, verified, runs>>
        /\ report' = old.report /\ old.pc = "reviewed"
        /\ approvals' = IF old.approve
                        THEN approvals \union {<<old.case, old.report.run>>}
                        ELSE approvals
    BY <1>9 DEF Audit!WriteReview, Audit!Goes, Audit!Becomes,
                Audit!At
  <2>2. old.report \in CaseReports /\ Given(old.report, Ids, approvals')
    BY <1>1, <2>1 DEF Holds
  <2>3. approvals \subseteq approvals'
    BY <2>1
  <2>4. Holds([old EXCEPT !.pc = "ended"], Ids, CaseReports, approvals')
    BY <1>1 DEF Holds, Doing
  <2>5. Filed(Ids, CaseReports, Audit!Versions, MaxRuns)'
    BY <1>2, <2>1, <2>2
       DEF Filed, Given, CaseReports, Passing, Audit!Versions
  <2> QED
    BY <2>1, <2>3, <2>4, <2>5
<1>10. CASE Audit!VerifyLoad(p)
  <2>1. /\ process' = [process EXCEPT ![p] =
               [old EXCEPT !.pc = "require", !.report = report]]
        /\ UNCHANGED <<version, baseline, verified, report, runs, approvals>>
        /\ old.pc = "verify" /\ report # None
    BY <1>10 DEF Audit!VerifyLoad, Audit!Becomes, Audit!files,
                 Audit!At, Audit!CurrentReport
  <2>2. report \in CaseReports
    BY <1>2, <2>1 DEF Filed
  <2>3. Holds([old EXCEPT !.pc = "require", !.report = report], Ids,
              CaseReports, approvals)
    BY <1>1, <2>1, <2>2 DEF Holds, Doing
  <2>4. Filed(Ids, CaseReports, Audit!Versions, MaxRuns)'
    BY <1>2, <2>1 DEF Filed, Given, CaseReports, Passing, Audit!Versions
  <2> QED
    BY <2>1, <2>3, <2>4
<1>11. CASE Audit!Require(p) \/ Audit!Mark(p)
  <2>1. PICK k \in {"mark", "lines"} :
            /\ process' = [process EXCEPT ![p] = [old EXCEPT !.pc = k]]
            /\ UNCHANGED <<version, baseline, verified, report, runs,
                           approvals>>
            /\ old.pc \in {"require", "mark"}
    BY <1>11 DEF Audit!Require, Audit!Mark, Audit!Goes,
                 Audit!Becomes, Audit!files, Audit!At
  <2>2. Holds([old EXCEPT !.pc = k], Ids, CaseReports, approvals)
    BY <1>1, <2>1 DEF Holds, Doing
  <2>3. Filed(Ids, CaseReports, Audit!Versions, MaxRuns)'
    BY <1>2, <2>1 DEF Filed, Given, CaseReports, Passing, Audit!Versions
  <2> QED
    BY <2>1, <2>2, <2>3
<1>12. CASE Audit!ReadLines(p) \/ Audit!RefreshSuite(p)
  <2>1. PICK k \in {"refresh", "write_lines", "refresh_report"} :
            /\ process' = [process EXCEPT ![p] =
                              [old EXCEPT !.pc = k, !.verified = verified]]
            /\ UNCHANGED <<version, baseline, verified, report, runs,
                           approvals>>
            /\ old.pc \in {"lines", "refresh"}
    BY <1>12 DEF Audit!ReadLines, Audit!RefreshSuite,
                 Audit!Becomes, Audit!files, Audit!At
  <2>2. verified \subseteq Ids
    BY <1>2 DEF Filed
  <2>3. Holds([old EXCEPT !.pc = k, !.verified = verified], Ids,
              CaseReports, approvals)
    BY <1>1, <2>1, <2>2 DEF Holds, Doing
  <2>4. Filed(Ids, CaseReports, Audit!Versions, MaxRuns)'
    BY <1>2, <2>1 DEF Filed, Given, CaseReports, Passing, Audit!Versions
  <2> QED
    BY <2>1, <2>3, <2>4
<1>13. CASE Audit!WriteLines(p)
  <2>1. /\ process' = [process EXCEPT ![p] = [old EXCEPT !.pc = "refresh"]]
        /\ UNCHANGED <<version, baseline, report, runs, approvals>>
        /\ verified' = old.verified \union {old.case}
        /\ old.pc = "write_lines"
    BY <1>13 DEF Audit!WriteLines, Audit!Goes, Audit!Becomes,
                 Audit!At
  <2>2. old.verified \subseteq Ids /\ old.case \in Ids
    BY <1>1, <2>1 DEF Holds
  <2>3. Holds([old EXCEPT !.pc = "refresh"], Ids, CaseReports,
              approvals)
    BY <1>1, <2>1 DEF Holds, Doing
  <2>4. Filed(Ids, CaseReports, Audit!Versions, MaxRuns)'
    BY <1>2, <2>1, <2>2
       DEF Filed, Given, CaseReports, Passing, Audit!Versions
  <2> QED
    BY <2>1, <2>3, <2>4
<1>14. CASE Audit!RefreshReport(p)
  <2> DEFINE r == [report EXCEPT !.counted = old.verified]
             d == [old EXCEPT !.pc = "write_report", !.report = r]
  <2>1. /\ process' = [process EXCEPT ![p] = d]
        /\ UNCHANGED <<version, baseline, verified, report, runs, approvals>>
        /\ old.pc = "refresh_report" /\ report # None
    BY <1>14 DEF Audit!RefreshReport, Audit!Becomes, Audit!files,
                 Audit!At, Audit!CurrentReport
  <2>2. /\ report \in CaseReports /\ Given(report, Ids, approvals)
        /\ old.verified \subseteq Ids /\ old.case \in Ids
    BY <1>1, <1>2, <2>1 DEF Filed, Holds
  <2>3. r \in CaseReports /\ r.run = report.run /\ r.audit = report.audit
    BY <2>2, ReportCounted DEF CaseReports
  <2> HIDE DEF r
  <2>4. Given(r, Ids, approvals)
    BY <2>2, <2>3 DEF Given
  <2>5. Holds(d, Ids, CaseReports, approvals)
    BY <1>1, <2>2, <2>3, <2>4 DEF Holds, Doing
  <2>6. Filed(Ids, CaseReports, Audit!Versions, MaxRuns)'
    BY <1>2, <2>1 DEF Filed, Given, CaseReports, Passing, Audit!Versions
  <2> QED
    BY <2>1, <2>5, <2>6
<1>15. CASE Audit!WriteReport(p)
  <2>1. /\ process' = [process EXCEPT ![p] = [old EXCEPT !.pc = "verified"]]
        /\ UNCHANGED <<version, baseline, verified, runs, approvals>>
        /\ report' = old.report /\ old.pc = "write_report"
    BY <1>15 DEF Audit!WriteReport, Audit!Goes, Audit!Becomes,
                 Audit!At
  <2>2. Holds([old EXCEPT !.pc = "verified"], Ids, CaseReports,
              approvals)
    BY <1>1, <2>1 DEF Holds, Doing
  <2>3. old.report \in CaseReports /\ Given(old.report, Ids, approvals)
    BY <1>1, <2>1 DEF Holds
  <2>4. Filed(Ids, CaseReports, Audit!Versions, MaxRuns)'
    BY <1>2, <2>1, <2>3
       DEF Filed, Given, CaseReports, Passing, Audit!Versions
  <2> QED
    BY <2>1, <2>2, <2>4
<1> QED
  BY <1>3, <1>4, <1>5, <1>6, <1>7, <1>8, <1>9, <1>10, <1>11, <1>12, <1>13,
     <1>14, <1>15

LEMMA FilesKept ==
    ASSUME Audit!AuditAssumption, FilesInv,
           [Audit!Next]_Audit!vars
    PROVE  FilesInv'
<1>1. CASE UNCHANGED Audit!vars \/ Audit!EditCode
  <2>1. /\ UNCHANGED <<baseline, verified, report, runs, process, approvals>>
        /\ \/ version' = version
           \/ version < MaxVersions /\ version' = version + 1
    BY <1>1 DEF Audit!vars, Audit!files, Audit!EditCode
  <2>2. version' \in Audit!Versions
    BY <2>1 DEF FilesInv, Filed, Audit!Versions,
                Audit!AuditAssumption
  <2> QED
    BY <2>1, <2>2 DEF FilesInv, Filed, Given, Holds, CaseReports, Passing,
                      Audit!Versions
<1>2. ASSUME NEW p \in {Command},
             \/ Audit!Dies(p) \/ Audit!Leaves(p)
             \/ \E copy \in BOOLEAN :
                    \/ Audit!FreezeBaseline(p, copy)
                    \/ Audit!Evaluate(p, copy)
             \/ Audit!WriteEvaluation(p) \/ Audit!Begins(p, "review")
             \/ Audit!Review(p) \/ Audit!WriteReview(p)
             \/ Audit!Begins(p, "verify") \/ Audit!VerifyLoad(p)
             \/ Audit!Require(p) \/ Audit!Mark(p)
             \/ Audit!ReadLines(p) \/ Audit!WriteLines(p)
             \/ Audit!RefreshSuite(p) \/ Audit!RefreshReport(p)
             \/ Audit!WriteReport(p) \/ Audit!VerifyLeaves(p)
      PROVE  FilesInv'
  <2>1. PICK d :
          /\ process' = [process EXCEPT ![p] = d]
          /\ Holds(d, Ids, CaseReports, approvals')
          /\ approvals \subseteq approvals'
          /\ Filed(Ids, CaseReports, Audit!Versions, MaxRuns)'
    BY <1>2, FilesMove
  <2>2. /\ process' = [q \in {Command} |-> process'[q]]
        /\ \A q \in {Command} :
              Holds(process'[q], Ids, CaseReports, approvals')
    <3>1. process = [q \in {Command} |-> process[q]]
      BY DEF FilesInv
    <3>2. /\ process' = [q \in {Command} |-> process'[q]] /\ process'[p] = d
          /\ \A q \in {Command} : q # p => process'[q] = process[q]
      BY <2>1, <3>1
    <3>3. \A q \in {Command} :
              Holds(process[q], Ids, CaseReports, approvals')
      BY <2>1, HoldsMore DEF FilesInv
    <3> QED
      BY <2>1, <3>2, <3>3
  <2>3. \A q \in {Command} :
            Holds(process[q], Ids, CaseReports, approvals)'
    BY <2>2 DEF Holds, Given, CaseReports, Passing, Audit!Versions
  <2> QED
    BY <2>1, <2>2, <2>3 DEF FilesInv
<1> QED
  BY <1>1, <1>2 DEF Audit!Next

LEMMA AloneBegins ==
    ASSUME Audit!AuditAssumption, Audit!Init
    PROVE  AloneInv
<1>1. FilesInv
  BY FilesBegin
<1>2. process[Command] = Audit!Idle /\ report = None
  BY DEF Audit!Init
<1> QED
  BY <1>1, <1>2 DEF AloneInv, Alone, Audit!Idle

(* A step that leaves the report, the case file and the version alone.     *)
LEMMA AloneReads ==
    ASSUME FilesInv, Alone(process[Command]), NEW d,
           process' = [process EXCEPT ![Command] = d],
           UNCHANGED <<version, verified, report, runs>>, Alone(d)
    PROVE  /\ Alone(process[Command])'
           /\ Audit!MarkedOnEvidence /\ Audit!DecisionsStay
<1>1. process'[Command] = d
  BY DEF FilesInv
<1>2. Audit!MarkedOnEvidence
  BY DEF Audit!MarkedOnEvidence
<1>3. Audit!DecisionsStay
  <2>1. Audit!Cardinality({}) = 0
    BY FS_EmptySet DEF Audit!Cardinality, Cardinality
  <2>2. {c \in Ids : report.audit[c] # report'.audit[c]} = {}
    OBVIOUS
  <2> QED
    BY <2>1, <2>2 DEF Audit!DecisionsStay
<1> QED
  BY <1>1, <1>2, <1>3 DEF Alone

(* One case differs.                                                       *)
LEMMA OneDecision ==
    ASSUME NEW c \in Ids,
           \A e \in Ids : e # c => report'.audit[e] = report.audit[e]
    PROVE  Audit!DecisionsStay
<1> DEFINE S == {e \in Ids : report.audit[e] # report'.audit[e]}
<1>1. S \subseteq {c}
  OBVIOUS
<1>2. IsFiniteSet({c}) /\ Cardinality({c}) = 1
  BY FS_Singleton
<1>3. Cardinality(S) <= 1
  BY <1>1, <1>2, FS_Subset
<1>4. Audit!Cardinality(S) = Cardinality(S)
  BY DEF Audit!Cardinality, Cardinality
<1> QED
  BY <1>3, <1>4 DEF Audit!DecisionsStay

LEMMA AloneMoves ==
    ASSUME Audit!AuditAssumption, FilesInv, Alone(process[Command]),
           Audit!Next
    PROVE  /\ Alone(process[Command])'
           /\ Audit!MarkedOnEvidence /\ Audit!DecisionsStay
<1> DEFINE p == Command
           old == process[p]
<1>1. /\ Holds(old, Ids, CaseReports, approvals) /\ Alone(old)
      /\ Filed(Ids, CaseReports, Audit!Versions, MaxRuns)
      /\ process = [q \in {p} |-> process[q]]
  BY DEF FilesInv
<1>2. CASE Audit!EditCode
  <2>1. /\ UNCHANGED <<baseline, verified, report, runs, process>>
        /\ old.pc = "idle"
    BY <1>2 DEF Audit!EditCode, Audit!files, Audit!At
  <2>2. Audit!DecisionsStay
    <3>1. Audit!Cardinality({}) = 0
      BY FS_EmptySet DEF Audit!Cardinality, Cardinality
    <3>2. {c \in Ids : report.audit[c] # report'.audit[c]} = {}
      BY <2>1
    <3> QED
      BY <3>1, <3>2 DEF Audit!DecisionsStay
  <2> QED
    BY <1>1, <2>1, <2>2 DEF Alone, Audit!MarkedOnEvidence
<1>3. CASE Audit!Dies(p) \/ Audit!Leaves(p) \/ Audit!VerifyLeaves(p)
  <2>1. /\ process' = [process EXCEPT ![p] = Audit!Idle]
        /\ UNCHANGED <<version, verified, report, runs>>
    BY <1>3 DEF Audit!Dies, Audit!Leaves, Audit!VerifyLeaves, Audit!Becomes,
                Audit!files
  <2>2. Alone(Audit!Idle)
    BY <1>1 DEF Alone, Audit!Idle
  <2> QED
    BY <1>1, <2>1, <2>2, AloneReads
<1>4. CASE \E copy \in BOOLEAN : Audit!FreezeBaseline(p, copy)
  <2>1. /\ process' = [process EXCEPT ![p] = [old EXCEPT !.pc = "ended"]]
        /\ UNCHANGED <<version, verified, report, runs>>
    BY <1>4 DEF Audit!FreezeBaseline, Audit!Goes, Audit!Becomes
  <2>2. Alone([old EXCEPT !.pc = "ended"])
    BY <1>1 DEF Alone, Holds
  <2> QED
    BY <1>1, <2>1, <2>2, AloneReads
<1>5. CASE \E copy \in BOOLEAN : Audit!Evaluate(p, copy)
  <2>1. PICK passed \in SUBSET Ids :
            process' = [process EXCEPT ![p] =
                [old EXCEPT !.pc = "evaluated",
                            !.report = Audit!Report(runs + 1, passed,
                                [c \in Ids |-> "pending"], {})]]
    BY <1>5 DEF Audit!Evaluate, Audit!Becomes
  <2>2. UNCHANGED <<version, verified, report>> /\ runs' = runs + 1
    BY <1>5 DEF Audit!Evaluate, Audit!files
  <2> DEFINE r == Audit!Report(runs + 1, passed, [c \in Ids |-> "pending"],
                               {})
  <2>3. r.run = runs + 1
    BY DEF Audit!Report
  <2> HIDE DEF r
  <2>4. /\ process'[p].pc = "evaluated"
        /\ process'[p].report = r
    BY <1>1, <2>1 DEF Holds, r
  <2>5. runs \in Nat /\ (report # None => report.run \in Nat)
    BY <1>1 DEF Filed, Audit!AuditAssumption, CaseReports, Passing
  <2>6. Alone(process[p])'
    BY <1>1, <2>2, <2>3, <2>4, <2>5 DEF Alone
  <2>7. Audit!DecisionsStay
    <3>1. Audit!Cardinality({}) = 0
      BY FS_EmptySet DEF Audit!Cardinality, Cardinality
    <3>2. {c \in Ids : report.audit[c] # report'.audit[c]} = {}
      BY <2>2
    <3> QED
      BY <3>1, <3>2 DEF Audit!DecisionsStay
  <2> QED
    BY <2>2, <2>6, <2>7 DEF Audit!MarkedOnEvidence
<1>6. CASE Audit!WriteEvaluation(p)
  <2>1. /\ process' = [process EXCEPT ![p] = [old EXCEPT !.pc = "ended"]]
        /\ UNCHANGED <<version, verified, runs>>
        /\ report' = old.report /\ old.pc = "evaluated"
    BY <1>6 DEF Audit!WriteEvaluation, Audit!Goes, Audit!Becomes, Audit!At
  <2>2. process'[p].pc = "ended"
    BY <1>1, <2>1 DEF Holds
  <2>3. /\ report'.run = runs /\ runs \in Nat
        /\ report # None => report.run < runs
    BY <1>1, <2>1 DEF Alone, Filed, Audit!AuditAssumption
  <2>4. Alone(process[p])'
    BY <2>1, <2>2, <2>3 DEF Alone
  <2>5. Audit!DecisionsStay
    BY <2>3 DEF Audit!DecisionsStay
  <2> QED
    BY <2>1, <2>4, <2>5 DEF Audit!MarkedOnEvidence
<1>7. CASE Audit!Begins(p, "review") \/ Audit!Begins(p, "verify")
  <2>1. PICK k \in {"review", "verify"}, c \in Ids, a \in BOOLEAN :
            /\ process' = [process EXCEPT ![p] =
                   [Audit!Idle EXCEPT !.pc = k, !.case = c, !.approve = a]]
            /\ UNCHANGED <<version, verified, report, runs>>
    BY <1>7 DEF Audit!Begins, Audit!Becomes, Audit!files
  <2>2. Alone([Audit!Idle EXCEPT !.pc = k, !.case = c, !.approve = a])
    BY <1>1 DEF Alone, Audit!Idle
  <2> QED
    BY <1>1, <2>1, <2>2, AloneReads
<1>8. CASE Audit!Review(p)
  <2> DEFINE decision == IF old.approve THEN "approved" ELSE "rejected"
             r == Decided(report, old.case, decision)
             d == [old EXCEPT !.pc = "reviewed", !.report = r]
  <2>1. /\ process' = [process EXCEPT ![p] = d]
        /\ UNCHANGED <<version, verified, report, runs>>
        /\ old.pc = "review" /\ report # None
        /\ old.approve => old.case \in report.passed
    BY <1>8 DEF Audit!Review, Audit!Becomes, Audit!files, Audit!At,
                Audit!CurrentReport, Decided
  <2>2. report \in CaseReports /\ old.case \in Ids
    BY <1>1, <2>1 DEF Filed, Holds
  <2>3. /\ decision \in {"approved", "rejected"}
        /\ decision = "approved" => old.case \in report.passed
    BY <2>1
  <2> HIDE DEF decision
  <2>4. /\ r.run = report.run
        /\ \A c \in Ids : c # old.case => r.audit[c] = report.audit[c]
    BY <2>2, <2>3, ReportReviewed DEF CaseReports
  <2> HIDE DEF r
  <2>5. d.pc = "reviewed" /\ d.report = r /\ d.case = old.case
    BY <1>1 DEF Holds
  <2>6. Alone(d)
    BY <1>1, <2>1, <2>4, <2>5 DEF Alone
  <2> HIDE DEF d
  <2> QED
    BY <1>1, <2>1, <2>6, AloneReads
<1>9. CASE Audit!WriteReview(p)
  <2>1. /\ process' = [process EXCEPT ![p] = [old EXCEPT !.pc = "ended"]]
        /\ UNCHANGED <<version, verified, runs>>
        /\ report' = old.report /\ old.pc = "reviewed"
    BY <1>9 DEF Audit!WriteReview, Audit!Goes, Audit!Becomes, Audit!At
  <2>2. process'[p].pc = "ended" /\ old.case \in Ids
    BY <1>1, <2>1 DEF Holds
  <2>3. /\ report # None /\ report'.run = report.run
        /\ \A c \in Ids : c # old.case => report'.audit[c] = report.audit[c]
    BY <1>1, <2>1 DEF Alone
  <2>4. Alone(process[p])'
    BY <1>1, <2>1, <2>2, <2>3 DEF Alone
  <2>5. Audit!DecisionsStay
    BY <2>2, <2>3, OneDecision
  <2> QED
    BY <2>1, <2>4, <2>5 DEF Audit!MarkedOnEvidence
<1>10. CASE Audit!VerifyLoad(p)
  <2>1. /\ process' = [process EXCEPT ![p] =
               [old EXCEPT !.pc = "require", !.report = report]]
        /\ UNCHANGED <<version, verified, report, runs>>
    BY <1>10 DEF Audit!VerifyLoad, Audit!Becomes, Audit!files
  <2>2. Alone([old EXCEPT !.pc = "require", !.report = report])
    BY <1>1 DEF Alone, Holds
  <2> QED
    BY <1>1, <2>1, <2>2, AloneReads
<1>11. CASE Audit!Require(p)
  <2>1. /\ process' = [process EXCEPT ![p] = [old EXCEPT !.pc = "mark"]]
        /\ UNCHANGED <<version, verified, report, runs>>
    BY <1>11 DEF Audit!Require, Audit!Goes, Audit!Becomes, Audit!files
  <2>2. Alone([old EXCEPT !.pc = "mark"])
    BY <1>1 DEF Alone, Holds
  <2> QED
    BY <1>1, <2>1, <2>2, AloneReads
<1>12. CASE Audit!Mark(p)
  <2>1. /\ process' = [process EXCEPT ![p] = [old EXCEPT !.pc = "lines"]]
        /\ UNCHANGED <<version, verified, report, runs>>
        /\ report # None /\ report.baseline = version
        /\ old.case \in report.passed /\ report.audit[old.case] = "approved"
    BY <1>12 DEF Audit!Mark, Audit!Goes, Audit!Becomes, Audit!files,
                 Audit!CurrentReport, Audit!Evidence
  <2>2. Alone([old EXCEPT !.pc = "lines"])
    BY <1>1, <2>1 DEF Alone, Holds
  <2> QED
    BY <1>1, <2>1, <2>2, AloneReads
<1>13. CASE Audit!ReadLines(p)
  <2>1. PICK k \in {"refresh", "write_lines"} :
            /\ process' = [process EXCEPT ![p] =
                              [old EXCEPT !.pc = k, !.verified = verified]]
            /\ UNCHANGED <<version, verified, report, runs>>
            /\ old.pc = "lines" /\ (k = "refresh" => old.case \in verified)
    BY <1>13 DEF Audit!ReadLines, Audit!Becomes, Audit!files, Audit!At
  <2>2. Alone([old EXCEPT !.pc = k, !.verified = verified])
    BY <1>1, <2>1 DEF Alone, Holds
  <2> QED
    BY <1>1, <2>1, <2>2, AloneReads
<1>14. CASE Audit!WriteLines(p)
  <2>1. /\ process' = [process EXCEPT ![p] = [old EXCEPT !.pc = "refresh"]]
        /\ UNCHANGED <<version, report, runs>>
        /\ verified' = old.verified \union {old.case}
        /\ old.pc = "write_lines"
    BY <1>14 DEF Audit!WriteLines, Audit!Goes, Audit!Becomes, Audit!At
  <2>2. /\ process'[p].pc = "refresh" /\ process'[p].case = old.case
        /\ old.case \in Ids
    BY <1>1, <2>1 DEF Holds
  <2>3. Alone(process[p])'
    BY <1>1, <2>1, <2>2 DEF Alone
  <2>4. Audit!MarkedOnEvidence
    <3>1. /\ report # None /\ report.baseline = version
          /\ old.case \in report.passed
          /\ report.audit[old.case] = "approved" /\ old.verified = verified
      BY <1>1, <2>1 DEF Alone
    <3>2. <<old.case, report.run>> \in approvals
      BY <1>1, <2>2, <3>1 DEF Filed, Given
    <3> QED
      BY <2>1, <3>1, <3>2 DEF Audit!MarkedOnEvidence
  <2>5. Audit!DecisionsStay
    BY <2>1, <2>2, OneDecision
  <2> QED
    BY <2>3, <2>4, <2>5
<1>15. CASE Audit!RefreshSuite(p)
  <2>1. /\ process' = [process EXCEPT ![p] = [old EXCEPT
               !.pc = "refresh_report", !.verified = verified]]
        /\ UNCHANGED <<version, verified, report, runs>>
        /\ old.pc = "refresh"
    BY <1>15 DEF Audit!RefreshSuite, Audit!Becomes, Audit!files, Audit!At
  <2>2. Alone([old EXCEPT !.pc = "refresh_report", !.verified = verified])
    BY <1>1, <2>1 DEF Alone, Holds
  <2> QED
    BY <1>1, <2>1, <2>2, AloneReads
<1>16. CASE Audit!RefreshReport(p)
  <2> DEFINE r == [report EXCEPT !.counted = old.verified]
  <2>1. /\ process' = [process EXCEPT ![p] =
               [old EXCEPT !.pc = "write_report", !.report = r]]
        /\ UNCHANGED <<version, verified, report, runs>>
        /\ old.pc = "refresh_report" /\ report # None
    BY <1>16 DEF Audit!RefreshReport, Audit!Becomes, Audit!files, Audit!At,
                 Audit!CurrentReport
  <2>2. r = [report EXCEPT !.counted = verified]
    BY <1>1, <2>1 DEF Alone
  <2> HIDE DEF r
  <2>3. Alone([old EXCEPT !.pc = "write_report", !.report = r])
    BY <1>1, <2>1, <2>2 DEF Alone, Holds
  <2> QED
    BY <1>1, <2>1, <2>3, AloneReads
<1>17. CASE Audit!WriteReport(p)
  <2>1. /\ process' = [process EXCEPT ![p] = [old EXCEPT !.pc = "verified"]]
        /\ UNCHANGED <<version, verified, runs>>
        /\ report' = old.report /\ old.pc = "write_report"
    BY <1>17 DEF Audit!WriteReport, Audit!Goes, Audit!Becomes, Audit!At
  <2>2. /\ process'[p].pc = "verified" /\ process'[p].case = old.case
        /\ old.case \in Ids
    BY <1>1, <2>1 DEF Holds
  <2>3. report # None /\ report' = [report EXCEPT !.counted = verified]
    BY <1>1, <2>1 DEF Alone
  <2>4. /\ report'.run = report.run /\ report'.audit = report.audit
        /\ report'.counted = verified
    <3>1. report \in CaseReports /\ verified \subseteq Ids
      BY <1>1, <2>3 DEF Filed
    <3> QED
      BY <2>3, <3>1, ReportCounted DEF CaseReports
  <2>5. Alone(process[p])'
    BY <1>1, <2>1, <2>2, <2>3, <2>4 DEF Alone
  <2>6. Audit!DecisionsStay
    BY <2>2, <2>4, OneDecision
  <2> QED
    BY <2>1, <2>5, <2>6 DEF Audit!MarkedOnEvidence
<1> QED
  BY <1>2, <1>3, <1>4, <1>5, <1>6, <1>7, <1>8, <1>9, <1>10, <1>11, <1>12,
     <1>13, <1>14, <1>15, <1>16, <1>17 DEF Audit!Next

LEMMA AloneKept ==
    ASSUME Audit!AuditAssumption, AloneInv, [Audit!Next]_Audit!vars
    PROVE  AloneInv'
<1>1. FilesInv'
  BY FilesKept DEF AloneInv
<1>2. CASE Audit!Next
  BY <1>1, <1>2, AloneMoves DEF AloneInv
<1>3. CASE UNCHANGED Audit!vars
  BY <1>1, <1>3 DEF AloneInv, Alone, Audit!vars, Audit!files
<1> QED
  BY <1>2, <1>3

LEMMA AloneAnswers ==
    ASSUME AloneInv
    PROVE  Audit!TypeOK /\ Audit!NoReplay /\ Audit!CountedRight
<1>1. Audit!TypeOK
  BY DEF AloneInv, FilesInv, Filed, CaseReports, Passing, Audit!TypeOK,
         Audit!Reports
<1>2. Audit!NoReplay
  BY DEF AloneInv, FilesInv, Filed, Given, Audit!NoReplay
<1>3. Audit!CountedRight
  BY DEF AloneInv, Alone, Audit!CountedRight, Audit!At
<1> QED
  BY <1>1, <1>2, <1>3

LEMMA RivalsAnswer ==
    ASSUME RivalsInv
    PROVE  Together!TypeOK /\ Together!NoReplay
<1>1. Together!TypeOK
  BY DEF RivalsInv, Filed, RivalReports, Passing, Together!TypeOK,
         Together!Reports
<1>2. Together!NoReplay
  BY DEF RivalsInv, Filed, Given, Together!NoReplay
<1> QED
  BY <1>1, <1>2

\* What the parts of the evaluation keep to.
OnPart ==
    /\ part = "audit" => AloneInv
    /\ part = "audit together" => RivalsInv

LEMMA PartBegins ==
    ASSUME Audit!AuditAssumption, Together!AuditAssumption, MCInit
    PROVE  OnPart
  BY AloneBegins, RivalsBegin DEF MCInit, OnPart

LEMMA PartKept ==
    ASSUME Audit!AuditAssumption, Together!AuditAssumption, OnPart,
           [MCNext]_mcVars
    PROVE  OnPart'
<1>1. CASE part' = "audit"
  <2>1. part = "audit" /\ [Audit!Next]_Audit!vars
    <3>1. CASE UNCHANGED mcVars
      BY <1>1, <3>1 DEF mcVars, Audit!vars, Audit!files
    <3>2. CASE MCNext
      BY <1>1, <3>2 DEF MCNext
    <3> QED
      BY <3>1, <3>2
  <2> QED
    BY <1>1, <2>1, AloneKept DEF OnPart
<1>2. CASE part' = "audit together"
  <2>1. part = "audit together" /\ [Together!Next]_Together!vars
    <3>1. CASE UNCHANGED mcVars
      BY <1>2, <3>1 DEF mcVars, Together!vars, Together!files
    <3>2. CASE MCNext
      BY <1>2, <3>2 DEF MCNext
    <3> QED
      BY <3>1, <3>2
  <2> QED
    BY <1>2, <2>1, RivalsKept DEF OnPart
<1> QED
  BY <1>1, <1>2 DEF OnPart

(* For any number of cases, evaluations, versions of the code and          *)
(* commands that run at the same time (tools/run_pagila_evaluation.py,     *)
(* evaluation/report.py): whichever of them dies and wherever, the report  *)
(* never shows an approval that was not given to that case in that run.    *)
(* With one command at a time a case is marked verified on approved        *)
(* evidence of the frozen and installed code only, a decision touches one  *)
(* case, and a verify-case that ends without an error leaves a report that *)
(* counts the verified cases.                                              *)
THEOREM AuditSound ==
    ASSUME Audit!AuditAssumption, Together!AuditAssumption
    PROVE  MCSpec => AuditRight
<1> DEFINE Counted == part = "audit" => Audit!NoReplay /\ Audit!CountedRight
           Replayed == part = "audit together" => Together!NoReplay
           Steps == part = "audit" =>
                        Audit!MarkedOnEvidence /\ Audit!DecisionsStay
<1>1. OnPart => Counted /\ Replayed
  BY AloneAnswers, RivalsAnswer DEF OnPart
<1>2. OnPart /\ [MCNext]_mcVars => [Steps]_mcVars
  BY AloneMoves DEF OnPart, AloneInv, MCNext
<1> QED
  BY <1>1, <1>2, PartBegins, PartKept, PTL DEF MCSpec, AuditRight
-----------------------------------------------------------------------------
(* The values of all the parts.                                            *)

\* The comparator only knows its codes.
LEMMA CodesKnown ==
    ASSUME NEW c
    PROVE  Comparison!CompareResults(c) \in Comparison!Codes
<1>1. \/ Comparison!Refusal(c) = "none"
      \/ Comparison!Refusal(c) \in Comparison!Codes
  BY DEF Comparison!Refusal, Comparison!Codes
<1>2. Comparison!CompareResults(c)
          \in {"duplicate_key", "match", "rows"} \/
      /\ Comparison!Refusal(c) # "none"
      /\ Comparison!CompareResults(c) = Comparison!Refusal(c)
  BY DEF Comparison!CompareResults
<1> QED
  BY <1>1, <1>2 DEF Comparison!Codes

\* What the parts keep to.
Kept ==
    /\ OnPart
    /\ part = "matching" => IInv
    /\ part = "comparison" => Comparison!TypeOK
    /\ part = "case" => CaseInv

LEMMA KeptBegins ==
    ASSUME MCAssumption, MCInit
    PROVE  Kept
<1>1. OnPart
  BY PartBegins DEF MCAssumption
<1>2. ASSUME part = "matching"  PROVE IInv
  BY <1>2, InvariantBegins DEF MCInit, MCAssumption
<1>3. ASSUME part = "comparison"  PROVE Comparison!TypeOK
  BY <1>3 DEF MCInit, Comparison!Init, Comparison!TypeOK
<1>4. ASSUME part = "case"  PROVE CaseInv
  BY <1>4, CaseInvBegins DEF MCInit, MCAssumption
<1> QED
  BY <1>1, <1>2, <1>3, <1>4 DEF Kept

LEMMA KeptStays ==
    ASSUME MCAssumption, Kept, [MCNext]_mcVars
    PROVE  Kept'
<1>1. OnPart'
  BY PartKept DEF MCAssumption, Kept
<1>2. ASSUME part' = "matching"  PROVE IInv'
  <2>1. part = "matching" /\ [Next]_vars
    <3>1. CASE UNCHANGED mcVars
      BY <1>2, <3>1 DEF mcVars, vars, search
    <3>2. CASE MCNext
      BY <1>2, <3>2 DEF MCNext
    <3> QED
      BY <3>1, <3>2
  <2> QED
    BY <2>1, InvariantKept DEF MCAssumption, Kept
<1>3. ASSUME part' = "comparison"  PROVE Comparison!TypeOK'
  <2>1. part = "comparison" /\ [Comparison!Next]_Comparison!vars
    <3>1. CASE UNCHANGED mcVars
      BY <1>3, <3>1 DEF mcVars, Comparison!vars
    <3>2. CASE MCNext
      BY <1>3, <3>2 DEF MCNext
    <3> QED
      BY <3>1, <3>2
  <2> QED
    BY <2>1, CodesKnown
       DEF Kept, Comparison!Next, Comparison!Compare, Comparison!vars,
           Comparison!TypeOK
<1>4. ASSUME part' = "case"  PROVE CaseInv'
  <2>1. part = "case" /\ [Judgement!Next]_Judgement!vars
    <3>1. CASE UNCHANGED mcVars
      BY <1>4, <3>1 DEF mcVars, Judgement!vars, Judgement!asked,
                        Judgement!work
    <3>2. CASE MCNext
      BY <1>4, <3>2 DEF MCNext
    <3> QED
      BY <3>1, <3>2
  <2> QED
    BY <2>1, CaseInvKept DEF MCAssumption, Kept
<1> QED
  BY <1>1, <1>2, <1>3, <1>4 DEF Kept

(* Type correctness of the comparisons, the cases and the audit, for every *)
(* value of the constants that the assumptions admit.                      *)
THEOREM EvaluationTyped ==
    ASSUME MCAssumption
    PROVE  MCSpec => []MCTypeOK
<1>1. Judgement!CaseAssumption
  BY DEF MCAssumption
<1>2. Kept => MCTypeOK
  BY <1>1, AloneAnswers, RivalsAnswer, CaseInvAnswers
     DEF Kept, OnPart, IInv, MCTypeOK
<1> QED
  BY <1>2, KeptBegins, KeptStays, PTL DEF MCSpec
=============================================================================
