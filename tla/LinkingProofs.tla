---------------------------- MODULE LinkingProofs ----------------------------
(***************************************************************************)
(* link_schema, for every snapshot, scope, score and limit: what           *)
(* SchemaLinking promises of the pool and of the results, read against     *)
(* src/app/schema_linking.                                                 *)
(*                                                                         *)
(* Four kinds of facts build on each other.  Sorting: what sorted() gives  *)
(* for keys that differ lists the set once, in the order of the keys, and  *)
(* is the only list that does (SortedLists, SortedOnce).  Searching: the   *)
(* breadth-first search finds what can be reached and no way is shorter    *)
(* (SearchFinds), so that what it finds is what the keys connect           *)
(* (ConnectedFound).  Ranking: the lexical ranking begins with the tables  *)
(* that have a score, a fusion prefers what has more (FusedFacts), and the *)
(* reranked order begins with the tables that others need (OrderFacts).    *)
(* Selecting: a candidate brings along what joins it to the selection, and *)
(* never more than the budget has room for (ChosenAfterFacts).             *)
(*                                                                         *)
(* With these the invariant LinkInv is inductive.  It knows of the pool    *)
(* what it was made of (Fusing, Reranked), so that both validations accept *)
(* it; that every table is chosen or still to be looked at (Selecting),    *)
(* which is why the budget is used; and, in the second call, that tables   *)
(* which others need come first in what is left, which is why no other     *)
(* table takes their place (ForOthers).                                    *)
(*                                                                         *)
(* The library's induction theorems take an operator and are not cited:    *)
(* what holds of a function defined by recursion (Rounds, Scale) is shown  *)
(* by the least number that would refute it (LeastNumber).                 *)
(***************************************************************************)
EXTENDS SchemaLinking, FiniteSetTheorems, SequenceTheorems,
        WellFoundedInduction, TLAPS

-----------------------------------------------------------------------------
(* Least elements                                                          *)

(* Every nonempty set of natural numbers has a least one.                  *)
LEMMA LeastNumber ==
    ASSUME NEW T \in SUBSET Nat, T # {}
    PROVE  \E n \in T : \A m \in T : n <= m
<1> DEFINE Smaller == OpToRel(<, Nat)
<1>1. IsWellFoundedOn(Smaller, Nat)
  BY NatLessThanWellFounded
<1>2. PICK n \in T : \A m \in T : ~(<<m, n>> \in Smaller)
  BY <1>1, WFMin
<1>3. \A m, k \in Nat : m < k => <<m, k>> \in Smaller
  BY DEF OpToRel
<1>4. \A m \in T : ~(m < n)
  BY <1>2, <1>3
<1>5. n \in Nat /\ T \subseteq Nat
  OBVIOUS
<1>6. \A m \in T : n <= m
  BY <1>4, <1>5
<1> QED
  BY <1>6

-----------------------------------------------------------------------------
(* Sorting by keys                                                         *)

(* Different tuples of one length compare one way or the other, not both.  *)
LEMMA KeysCompare ==
    ASSUME NEW p \in Seq(Int), NEW q \in Seq(Int), Len(p) = Len(q), p # q
    PROVE  /\ KeyBefore(p, q) \/ KeyBefore(q, p)
           /\ ~(KeyBefore(p, q) /\ KeyBefore(q, p))
<1> DEFINE D == {i \in 1..Len(p) : p[i] # q[i]}
<1>1. /\ DOMAIN p = 1..Len(p) /\ DOMAIN q = 1..Len(p) /\ Len(p) \in Nat
      /\ \A i \in 1..Len(p) : p[i] \in Int /\ q[i] \in Int
  OBVIOUS
<1>2. D # {} /\ D \in SUBSET Nat
  BY <1>1
<1>3. PICK i \in D : \A j \in D : i <= j
  BY <1>2, LeastNumber
<1>4. i \in 1..Len(p) /\ p[i] # q[i] /\ p[i] \in Int /\ q[i] \in Int
  BY <1>1
<1>5. \A j \in 1..i - 1 : j \in 1..Len(p) /\ p[j] = q[j] /\ q[j] = p[j]
  <2> SUFFICES ASSUME NEW j \in 1..i - 1
               PROVE  j \in 1..Len(p) /\ p[j] = q[j]
    OBVIOUS
  <2>1. j \in 1..Len(p) /\ ~(i <= j)
    BY <1>1, <1>4
  <2> QED
    BY <1>3, <2>1
<1>6. KeyBefore(p, q) \/ KeyBefore(q, p)
  <2>1. p[i] < q[i] \/ q[i] < p[i]
    BY <1>4
  <2> QED
    BY <1>1, <1>4, <1>5, <2>1 DEF KeyBefore
<1>7. ASSUME KeyBefore(p, q), KeyBefore(q, p)
      PROVE  FALSE
  <2>1. PICK a \in 1..Len(p) : p[a] < q[a] /\ \A j \in 1..a - 1 : p[j] = q[j]
    BY <1>1, <1>7 DEF KeyBefore
  <2>2. PICK b \in 1..Len(p) : q[b] < p[b] /\ \A j \in 1..b - 1 : q[j] = p[j]
    BY <1>1, <1>7 DEF KeyBefore
  <2>3. a = b \/ a \in 1..b - 1 \/ b \in 1..a - 1
    BY <1>1
  <2>4. p[a] \in Int /\ q[a] \in Int /\ p[b] \in Int /\ q[b] \in Int
    BY <1>1
  <2>5. CASE a = b
    BY <2>1, <2>2, <2>4, <2>5
  <2>6. CASE a \in 1..b - 1
    <3>1. q[a] = p[a]
      BY <2>2, <2>6
    <3> QED
      BY <2>1, <2>4, <3>1
  <2>7. CASE b \in 1..a - 1
    <3>1. p[b] = q[b]
      BY <2>1, <2>7
    <3> QED
      BY <2>2, <2>4, <3>1
  <2> QED
    BY <2>3, <2>5, <2>6, <2>7
<1> QED
  BY <1>6, <1>7

LEMMA KeyIrreflexive ==
    ASSUME NEW p \in Seq(Int)
    PROVE  ~KeyBefore(p, p)
  BY DEF KeyBefore

LEMMA KeyTransitive ==
    ASSUME NEW p \in Seq(Int), NEW q \in Seq(Int), NEW r \in Seq(Int),
           Len(p) = Len(q), Len(q) = Len(r),
           KeyBefore(p, q), KeyBefore(q, r)
    PROVE  KeyBefore(p, r)
<1>1. /\ DOMAIN p = 1..Len(p) /\ DOMAIN q = 1..Len(p) /\ Len(p) \in Nat
      /\ \A i \in 1..Len(p) : p[i] \in Int /\ q[i] \in Int /\ r[i] \in Int
  OBVIOUS
<1>2. PICK a \in 1..Len(p) : p[a] < q[a] /\ \A j \in 1..a - 1 : p[j] = q[j]
  BY <1>1 DEF KeyBefore
<1>3. PICK b \in 1..Len(p) : q[b] < r[b] /\ \A j \in 1..b - 1 : q[j] = r[j]
  BY <1>1 DEF KeyBefore
<1> DEFINE c == IF a <= b THEN a ELSE b
<1>4. c \in 1..Len(p) /\ p[c] < r[c]
  <2>1. a = b \/ a \in 1..b - 1 \/ b \in 1..a - 1
    BY <1>1
  <2>2. CASE a = b
    BY <1>1, <1>2, <1>3, <2>2
  <2>3. CASE a \in 1..b - 1
    BY <1>1, <1>2, <1>3, <2>3
  <2>4. CASE b \in 1..a - 1
    BY <1>1, <1>2, <1>3, <2>4
  <2> QED
    BY <2>1, <2>2, <2>3, <2>4
<1>5. \A j \in 1..c - 1 : j \in 1..a - 1 /\ j \in 1..b - 1
  BY <1>1
<1>6. \A j \in 1..c - 1 : p[j] = r[j]
  BY <1>2, <1>3, <1>5
<1> HIDE DEF c
<1> QED
  BY <1>1, <1>4, <1>6 DEF KeyBefore

\* Keys that can be sorted: tuples of one length, different ones.
Keys(S, key) ==
    /\ \A a \in S : key[a] \in Seq(Int)
    /\ \A a, b \in S : Len(key[a]) = Len(key[b])
    /\ \A a, b \in S : key[a] = key[b] => a = b

\* What is before a.
Below(S, key, a) == {b \in S : KeyBefore(key[b], key[a])}

LEMMA KeysOrder ==
    ASSUME NEW S, NEW key, Keys(S, key)
    PROVE  /\ \A a, b \in S : a # b =>
                 KeyBefore(key[a], key[b]) \/ KeyBefore(key[b], key[a])
           /\ \A a, b \in S :
                 ~(KeyBefore(key[a], key[b]) /\ KeyBefore(key[b], key[a]))
           /\ \A a, b, c \in S :
                 KeyBefore(key[a], key[b]) /\ KeyBefore(key[b], key[c])
                    => KeyBefore(key[a], key[c])
<1>1. ASSUME NEW a \in S, NEW b \in S, a # b
      PROVE  KeyBefore(key[a], key[b]) \/ KeyBefore(key[b], key[a])
  BY <1>1, KeysCompare DEF Keys
<1>2. ASSUME NEW a \in S, NEW b \in S,
             KeyBefore(key[a], key[b]), KeyBefore(key[b], key[a])
      PROVE  FALSE
  <2>1. CASE a = b
    BY <1>2, <2>1, KeyIrreflexive DEF Keys
  <2>2. CASE a # b
    BY <1>2, <2>2, KeysCompare DEF Keys
  <2> QED
    BY <2>1, <2>2
<1>3. ASSUME NEW a \in S, NEW b \in S, NEW c \in S,
             KeyBefore(key[a], key[b]), KeyBefore(key[b], key[c])
      PROVE  KeyBefore(key[a], key[c])
  BY <1>3, KeyTransitive DEF Keys
<1> QED
  BY <1>1, <1>2, <1>3

LEMMA BelowCounted ==
    ASSUME NEW S, IsFiniteSet(S), NEW key, Keys(S, key), NEW a \in S
    PROVE  /\ IsFiniteSet(Below(S, key, a))
           /\ Cardinality(Below(S, key, a)) \in 0..Cardinality(S) - 1
           /\ \A b \in S : KeyBefore(key[a], key[b]) =>
                 Cardinality(Below(S, key, a)) < Cardinality(Below(S, key, b))
<1>1. \A b \in S : /\ Below(S, key, b) \in SUBSET S
                   /\ Below(S, key, b) \subseteq S \ {b}
  BY KeysOrder DEF Below
<1>2. \A b \in S : /\ IsFiniteSet(Below(S, key, b))
                   /\ Cardinality(Below(S, key, b)) \in Nat
  BY <1>1, FS_Subset, FS_CardinalityType
<1>3. Cardinality(Below(S, key, a)) \in 0..Cardinality(S) - 1
  <2>1. /\ IsFiniteSet(S \ {a})
        /\ Cardinality(S \ {a}) = Cardinality(S) - 1
        /\ Cardinality(S) \in Nat
    BY FS_RemoveElement, FS_CardinalityType
  <2>2. Cardinality(Below(S, key, a)) <= Cardinality(S \ {a})
    BY <1>1, <2>1, FS_Subset
  <2> QED
    BY <1>2, <2>1, <2>2
<1>4. ASSUME NEW b \in S, KeyBefore(key[a], key[b])
      PROVE  Cardinality(Below(S, key, a)) < Cardinality(Below(S, key, b))
  <2>1. /\ Below(S, key, a) \subseteq Below(S, key, b)
        /\ a \in Below(S, key, b) /\ a \notin Below(S, key, a)
    BY <1>4, KeysOrder DEF Below
  <2>2. /\ Cardinality(Below(S, key, a)) <= Cardinality(Below(S, key, b))
        /\ Cardinality(Below(S, key, a)) # Cardinality(Below(S, key, b))
    BY <1>2, <2>1, FS_Subset
  <2> QED
    BY <1>2, <2>2
<1> QED
  BY <1>2, <1>3, <1>4

(* Sorting lists what there is, once each, in the order of the keys.       *)
LEMMA Sorting ==
    ASSUME NEW S, IsFiniteSet(S), NEW key, Keys(S, key),
           NEW s, s = ByKey(S, key), NEW n, n = Cardinality(S)
    PROVE  /\ s \in [1..n -> S] /\ n \in Nat
           /\ s \in Seq(S) /\ Len(s) = n
           /\ \A a \in S : \E i \in 1..n : s[i] = a
           /\ \A i, j \in 1..n : i < j => KeyBefore(key[s[i]], key[s[j]])
           /\ \A i, j \in 1..n : s[i] = s[j] => i = j
<1> DEFINE rank == [a \in S |-> Cardinality(Below(S, key, a))]
<1>1. n \in Nat
  BY FS_CardinalityType
<1>2. rank \in [S -> 0..n - 1]
  BY BelowCounted
<1>3. \A a, b \in S : KeyBefore(key[a], key[b]) => rank[a] < rank[b]
  BY BelowCounted
<1>4. \A a, b \in S : rank[a] = rank[b] => a = b
  <2> SUFFICES ASSUME NEW a \in S, NEW b \in S, rank[a] = rank[b], a # b
               PROVE  FALSE
    OBVIOUS
  <2>1. rank[a] < rank[b] \/ rank[b] < rank[a]
    BY <1>3, KeysOrder
  <2>2. rank[a] \in Int /\ rank[b] \in Int
    BY <1>2
  <2> HIDE DEF rank
  <2> QED
    BY <2>1, <2>2
<1> HIDE DEF rank
<1>5. \A i \in 1..n : \E a \in S : rank[a] = i - 1
  <2>1. rank \in Injection(S, 0..n - 1)
    BY <1>2, <1>4 DEF Injection, IsInjective
  <2>2. IsFiniteSet(0..n - 1) /\ Cardinality(0..n - 1) = n
    <3>1. 0 \in Int /\ n - 1 \in Int
      BY <1>1
    <3>2. /\ IsFiniteSet(0..n - 1)
          /\ Cardinality(0..n - 1) =
                IF 0 > n - 1 THEN 0 ELSE (n - 1) - 0 + 1
      BY <3>1, FS_Interval
    <3> QED
      BY <1>1, <3>2
  <2>3. rank \in Surjection(S, 0..n - 1)
    BY <2>1, <2>2, FS_Injection
  <2>4. \A m \in 0..n - 1 : \E a \in S : rank[a] = m
    BY <2>3 DEF Surjection
  <2> QED
    BY <1>1, <2>4
<1>6. ASSUME NEW i \in 1..n
      PROVE  s[i] \in S /\ rank[s[i]] = i - 1
  <2>1. s[i] = CHOOSE a \in S :
                  Cardinality({b \in S : KeyBefore(key[b], key[a])}) = i - 1
    BY DEF ByKey
  <2>2. \E a \in S :
           Cardinality({b \in S : KeyBefore(key[b], key[a])}) = i - 1
    BY <1>5 DEF rank, Below
  <2>3. /\ s[i] \in S
        /\ Cardinality({b \in S : KeyBefore(key[b], key[s[i]])}) = i - 1
    BY <2>1, <2>2
  <2> QED
    BY <2>3 DEF rank, Below
<1>7. s \in [1..n -> S]
  <2>1. s = [i \in 1..n |-> CHOOSE a \in S :
               Cardinality({b \in S : KeyBefore(key[b], key[a])}) = i - 1]
    BY DEF ByKey
  <2>2. DOMAIN s = 1..n /\ s = [i \in DOMAIN s |-> s[i]]
    BY <2>1
  <2> QED
    BY <1>6, <2>2
<1>8. s \in Seq(S) /\ Len(s) = n
  BY <1>1, <1>7
<1>9. \A a \in S : \E i \in 1..n : s[i] = a
  <2> SUFFICES ASSUME NEW a \in S
               PROVE  \E i \in 1..n : s[i] = a
    OBVIOUS
  <2>1. rank[a] \in 0..n - 1
    BY <1>2
  <2>2. PICK i \in 1..n : rank[a] = i - 1
    <3>1. rank[a] + 1 \in 1..n /\ rank[a] = (rank[a] + 1) - 1
      BY <1>1, <2>1
    <3> QED
      BY <3>1
  <2>3. s[i] \in S /\ rank[s[i]] = rank[a]
    BY <1>6, <2>2
  <2> QED
    BY <1>4, <2>3
<1>10. ASSUME NEW i \in 1..n, NEW j \in 1..n, i < j
       PROVE  KeyBefore(key[s[i]], key[s[j]])
  <2>1. /\ s[i] \in S /\ s[j] \in S
        /\ rank[s[i]] = i - 1 /\ rank[s[j]] = j - 1
    BY <1>6
  <2>2. s[i] # s[j] /\ ~(rank[s[j]] < rank[s[i]])
    BY <1>10, <2>1
  <2> QED
    BY <1>3, <2>1, <2>2, KeysOrder
<1>11. \A i, j \in 1..n : s[i] = s[j] => i = j
  BY <1>6
<1> QED
  BY <1>1, <1>7, <1>8, <1>9, <1>10, <1>11

-----------------------------------------------------------------------------
(* Breadth-first search                                                    *)

(* The tables are finitely many numbers.                                   *)
LEMMA TablesFinite ==
    ASSUME N \in Nat
    PROVE  /\ IsFiniteSet(Tables) /\ Cardinality(Tables) = N
           /\ Tables \in SUBSET Int
           /\ \A S \in SUBSET Tables :
                 IsFiniteSet(S) /\ Cardinality(S) \in 0..N
<1>1. 1 \in Int /\ N \in Int
  OBVIOUS
<1>2. /\ IsFiniteSet(1..N)
      /\ Cardinality(1..N) = IF 1 > N THEN 0 ELSE N - 1 + 1
  BY <1>1, FS_Interval
<1>3. IsFiniteSet(Tables) /\ Cardinality(Tables) = N
  BY <1>2 DEF Tables
<1>4. ASSUME NEW S \in SUBSET Tables
      PROVE  IsFiniteSet(S) /\ Cardinality(S) \in 0..N
  <2>1. IsFiniteSet(S) /\ Cardinality(S) <= Cardinality(Tables)
    BY <1>3, FS_Subset
  <2>2. Cardinality(S) \in Nat
    BY <2>1, FS_CardinalityType
  <2> QED
    BY <1>3, <2>1, <2>2
<1> QED
  BY <1>3, <1>4 DEF Tables

(* Tables sorted by their numbers.                                         *)
LEMMA SortedTables ==
    ASSUME N \in Nat, NEW S \in SUBSET Tables, NEW s, s = Sorted(S)
    PROVE  /\ s \in Seq(S) /\ Len(s) = Cardinality(S)
           /\ \A a \in S : \E i \in 1..Len(s) : s[i] = a
           /\ \A i, j \in 1..Len(s) : s[i] = s[j] => i = j
<1> DEFINE key == [a \in S |-> <<a>>]
<1>1. IsFiniteSet(S) /\ \A a \in S : a \in Int
  BY TablesFinite
<1>2. \A a \in S : key[a] = <<a>> /\ key[a] \in Seq(Int) /\ Len(key[a]) = 1
  BY <1>1
<1>3. \A a, b \in S : key[a] = key[b] => a = b
  BY <1>2
<1>4. Keys(S, key)
  BY <1>2, <1>3 DEF Keys
<1>5. s = ByKey(S, key)
  BY DEF Sorted
<1> HIDE DEF key
<1> DEFINE n == Cardinality(S)
<1>6. n = Cardinality(S)
  OBVIOUS
<1> HIDE DEF n
<1>7. /\ s \in Seq(S) /\ Len(s) = n
      /\ \A a \in S : \E i \in 1..n : s[i] = a
      /\ \A i, j \in 1..n : s[i] = s[j] => i = j
  BY <1>1, <1>4, <1>5, <1>6, Sorting
<1> QED
  BY <1>6, <1>7

\* A way along the keys through different tables of V.
Way(E, V, p) ==
    /\ p \in Seq(V) /\ p # <<>>
    /\ \A i, j \in 1..Len(p) : p[i] = p[j] => i = j
    /\ \A i \in 1..Len(p) - 1 : {p[i], p[i + 1]} \in E

\* A set that no key inside V leaves.
Closed(E, V, C) == \A a \in C, b \in V : {a, b} \in E => b \in C

\* What has been found: of each table a way from A to it.
Found(E, A, V, path) ==
    /\ A \subseteq DOMAIN path /\ DOMAIN path \subseteq V
    /\ \A b \in DOMAIN path :
          /\ Way(E, DOMAIN path, path[b])
          /\ path[b][1] \in A /\ path[b][Len(path[b])] = b
    /\ \A a \in A : path[a] = <<a>>
    /\ \A C \in SUBSET V :
          A \subseteq C /\ Closed(E, V, C) => DOMAIN path \subseteq C

\* What is pending, the nearest first.
Queue(path, pending) ==
    /\ pending \in Seq(DOMAIN path)
    /\ \A i, j \in 1..Len(pending) : pending[i] = pending[j] => i = j
    /\ \A i, j \in 1..Len(pending) :
          i <= j => Len(path[pending[i]]) <= Len(path[pending[j]])
    /\ pending # <<>> => \A b \in DOMAIN path :
          Len(path[b]) <= Len(path[pending[1]]) + 1

\* The keys of a table that is not pending have been followed.
Followed(E, V, path, pending) ==
    \A d \in DOMAIN path :
        (\A i \in 1..Len(pending) : pending[i] # d) =>
            \A b \in V : {d, b} \in E =>
                b \in DOMAIN path /\ Len(path[b]) <= Len(path[d]) + 1

SearchState(E, A, V, s) ==
    /\ Found(E, A, V, s.path) /\ Queue(s.path, s.pending)
    /\ Followed(E, V, s.path, s.pending)

\* The number of tables found and not pending any more.
Passed(s) == Cardinality(DOMAIN s.path) - Len(s.pending)

(* The search starts with the tables it starts from.                       *)
LEMMA SearchStarts ==
    ASSUME N \in Nat, NEW E, NEW V \in SUBSET Tables, NEW A \in SUBSET V,
           NEW s, s = [pending |-> Sorted(A), path |-> [a \in A |-> <<a>>]]
    PROVE  /\ SearchState(E, A, V, s)
           /\ Passed(s) = 0
<1> DEFINE path == [a \in A |-> <<a>>]
           pending == Sorted(A)
<1>1. s.path = path /\ s.pending = pending /\ DOMAIN path = A
  OBVIOUS
<1>2. /\ pending \in Seq(A) /\ Len(pending) = Cardinality(A)
      /\ \A a \in A : \E i \in 1..Len(pending) : pending[i] = a
      /\ \A i, j \in 1..Len(pending) : pending[i] = pending[j] => i = j
  BY SortedTables
<1>3. \A a \in A : path[a] = <<a>> /\ Len(path[a]) = 1
  OBVIOUS
<1>4. \A a \in A : Way(E, A, <<a>>) /\ <<a>>[1] = a /\ <<a>>[Len(<<a>>)] = a
  BY DEF Way
<1> HIDE DEF path, pending
<1>5. Found(E, A, V, path)
  BY <1>1, <1>3, <1>4 DEF Found
<1>6. \A i \in 1..Len(pending) : pending[i] \in A
  BY <1>2
<1>7. Queue(path, pending)
  <2>1. \A i \in 1..Len(pending) : Len(path[pending[i]]) = 1
    BY <1>3, <1>6
  <2>2. pending # <<>> => Len(path[pending[1]]) = 1
    <3> SUFFICES ASSUME pending # <<>>
                 PROVE  Len(path[pending[1]]) = 1
      OBVIOUS
    <3>1. 1 \in 1..Len(pending)
      BY <1>2
    <3> QED
      BY <2>1, <3>1
  <2> QED
    BY <1>1, <1>2, <1>3, <2>1, <2>2 DEF Queue
<1>8. Followed(E, V, path, pending)
  BY <1>1, <1>2 DEF Followed
<1>9. Cardinality(A) - Len(pending) = 0
  BY <1>2, TablesFinite
<1> QED
  BY <1>1, <1>5, <1>7, <1>8, <1>9 DEF SearchState, Passed

(* A way goes on to a neighbour that it does not visit.                    *)
LEMMA WayExtended ==
    ASSUME NEW E, NEW D, NEW p, Way(E, D, p), NEW b, b \notin D,
           {p[Len(p)], b} \in E, NEW F, D \cup {b} \subseteq F
    PROVE  /\ Way(E, F, Append(p, b))
           /\ Len(Append(p, b)) = Len(p) + 1
           /\ Append(p, b)[1] = p[1]
           /\ Append(p, b)[Len(p) + 1] = b
<1> DEFINE q == Append(p, b)
<1>1. /\ p \in Seq(D) /\ p \in Seq(F) /\ b \in F /\ Len(p) \in Nat \ {0}
      /\ \A i \in 1..Len(p) : p[i] \in D /\ p[i] # b
  <2>1. p \in Seq(D) /\ p # <<>>
    BY DEF Way
  <2>2. p \in Seq(F)
    BY <2>1, SeqMonotonic
  <2> QED
    BY <2>1, <2>2
<1>2. /\ q \in Seq(F) /\ Len(q) = Len(p) + 1
      /\ \A i \in 1..Len(p) : q[i] = p[i]
      /\ q[Len(p) + 1] = b
  BY <1>1, AppendProperties
<1> HIDE DEF q
<1>3. q # <<>>
  BY <1>1, <1>2
<1>4. ASSUME NEW i \in 1..Len(q), NEW j \in 1..Len(q), q[i] = q[j]
      PROVE  i = j
  <2>1. i \in 1..Len(p) \/ i = Len(p) + 1
    BY <1>1, <1>2
  <2>2. j \in 1..Len(p) \/ j = Len(p) + 1
    BY <1>1, <1>2
  <2>3. CASE i \in 1..Len(p) /\ j \in 1..Len(p)
    BY <1>2, <1>4, <2>3 DEF Way
  <2> QED
    BY <1>1, <1>2, <1>4, <2>1, <2>2, <2>3
<1>5. ASSUME NEW i \in 1..Len(q) - 1
      PROVE  {q[i], q[i + 1]} \in E
  <2>1. i \in 1..Len(p) /\ q[i] = p[i]
    BY <1>1, <1>2
  <2>2. CASE i = Len(p)
    BY <1>2, <2>1, <2>2
  <2>3. CASE i \in 1..Len(p) - 1
    <3>1. i + 1 \in 1..Len(p)
      BY <1>1, <2>3
    <3> QED
      BY <1>2, <2>1, <2>3, <3>1 DEF Way
  <2> QED
    BY <1>1, <2>1, <2>2, <2>3
<1>6. q[1] = p[1]
  BY <1>1, <1>2
<1> QED
  BY <1>2, <1>3, <1>4, <1>5, <1>6 DEF Way, q

(* A way inside a set is one inside a larger set.                          *)
LEMMA WayInside ==
    ASSUME NEW E, NEW D, NEW p, Way(E, D, p), NEW F, D \subseteq F
    PROVE  Way(E, F, p)
  BY SeqMonotonic DEF Way

(* One list after another.                                                 *)
LEMMA Joined ==
    ASSUME NEW S, NEW u \in Seq(S), NEW v \in Seq(S)
    PROVE  /\ u \o v \in Seq(S) /\ Len(u \o v) = Len(u) + Len(v)
           /\ \A i \in 1..Len(u) : (u \o v)[i] = u[i]
           /\ \A i \in 1..Len(v) : (u \o v)[Len(u) + i] = v[i]
<1> DEFINE w == u \o v
<1>1. /\ w \in Seq(S) /\ Len(w) = Len(u) + Len(v)
      /\ Len(u) \in Nat /\ Len(v) \in Nat
      /\ \A i \in 1..Len(u) + Len(v) :
            w[i] = IF i <= Len(u) THEN u[i] ELSE v[i - Len(u)]
  BY ConcatProperties, LenProperties
<1> HIDE DEF w
<1>2. \A i \in 1..Len(u) : w[i] = u[i]
  BY <1>1
<1>3. ASSUME NEW i \in 1..Len(v)
      PROVE  w[Len(u) + i] = v[i]
  <2> DEFINE j == Len(u) + i
  <2>1. j \in 1..Len(u) + Len(v) /\ ~(j <= Len(u)) /\ j - Len(u) = i
    BY <1>1
  <2> HIDE DEF j
  <2>2. w[j] = v[j - Len(u)]
    BY <1>1, <2>1
  <2>3. w[j] = v[i]
    BY <2>1, <2>2, Zenon
  <2> QED
    BY <2>3 DEF j
<1> QED
  BY <1>1, <1>2, <1>3 DEF w

(* A round follows the keys of the first pending table: one table less is  *)
(* still to be followed.                                                   *)
LEMMA SearchStep ==
    ASSUME N \in Nat, NEW E, NEW V \in SUBSET Tables, NEW A \in SUBSET V,
           NEW s, SearchState(E, A, V, s), s.pending # <<>>,
           NEW t, t = Follow(E, V, s)
    PROVE  /\ SearchState(E, A, V, t)
           /\ Passed(t) = Passed(s) + 1
<1> DEFINE path == s.path
           pending == s.pending
           D == DOMAIN path
           a == Head(pending)
           new == (Neighbours(E, a) \cap V) \ D
           more == Sorted(new)
           todo == Tail(pending) \o more
           q == [b \in D \cup new |->
                   IF b \in new THEN Append(path[a], b) ELSE path[b]]
           m == Len(pending)
           l == Len(path[a])
<1>1. t.path = q /\ t.pending = todo
  BY DEF Follow
<1>2. /\ Found(E, A, V, path) /\ Queue(path, pending)
      /\ Followed(E, V, path, pending) /\ pending # <<>>
  BY DEF SearchState
<1>3. /\ new \in SUBSET Tables
      /\ \A b \in new : b \in V /\ b \notin D /\ {a, b} \in E
      /\ \A b \in V : {a, b} \in E => b \in D \/ b \in new
  BY DEF Neighbours
<1>4. /\ DOMAIN q = D \cup new
      /\ \A b \in D : q[b] = path[b]
      /\ \A b \in new : q[b] = Append(path[a], b)
  BY <1>3
<1>5. /\ more \in Seq(new) /\ Len(more) = Cardinality(new)
      /\ \A b \in new : \E i \in 1..Len(more) : more[i] = b
      /\ \A i, j \in 1..Len(more) : more[i] = more[j] => i = j
  <2>1. more = Sorted(new)
    OBVIOUS
  <2> HIDE DEF new, more
  <2> QED
    BY <1>3, <2>1, SortedTables
<1>6. /\ pending \in Seq(D) /\ m \in Nat \ {0} /\ a = pending[1] /\ a \in D
      /\ Tail(pending) \in Seq(D) /\ Len(Tail(pending)) = m - 1
      /\ \A i \in 1..m - 1 : Tail(pending)[i] = pending[i + 1]
      /\ \A i \in 1..m : pending[i] \in D
  <2>1. pending \in Seq(D) /\ pending # <<>>
    BY <1>2 DEF Queue
  <2> HIDE DEF pending, D
  <2>2. m \in Nat \ {0} /\ \A i \in 1..m : pending[i] \in D
    BY <2>1
  <2> QED
    BY <2>1, <2>2, HeadTailProperties
<1>7. \A b \in D : /\ Way(E, D, path[b]) /\ Len(path[b]) \in Nat \ {0}
                   /\ path[b][1] \in A /\ path[b][Len(path[b])] = b
  <2> SUFFICES ASSUME NEW b \in D
               PROVE  /\ Way(E, D, path[b]) /\ Len(path[b]) \in Nat \ {0}
                      /\ path[b][1] \in A /\ path[b][Len(path[b])] = b
    OBVIOUS
  <2>1. /\ Way(E, D, path[b])
        /\ path[b][1] \in A /\ path[b][Len(path[b])] = b
    BY <1>2 DEF Found
  <2>2. path[b] \in Seq(D) /\ path[b] # <<>>
    BY <2>1 DEF Way
  <2> HIDE DEF path, D
  <2>3. Len(path[b]) \in Nat \ {0}
    BY <2>2
  <2> QED
    BY <2>1, <2>3
<1>8. l \in Nat \ {0} /\ \A b \in D : Len(path[b]) <= l + 1
  BY <1>2, <1>6, <1>7 DEF Queue
<1>d. D = DOMAIN path /\ m = Len(pending) /\ l = Len(path[a])
  OBVIOUS
<1>e. s.path = path /\ s.pending = pending
  OBVIOUS
<1> HIDE DEF q, new, more, a, m, l
<1>9. \A b \in new : /\ Way(E, D \cup new, q[b]) /\ Len(q[b]) = l + 1
                     /\ q[b][1] \in A /\ q[b][l + 1] = b
  <2> SUFFICES ASSUME NEW b \in new
               PROVE  /\ Way(E, D \cup new, q[b]) /\ Len(q[b]) = l + 1
                      /\ q[b][1] \in A /\ q[b][l + 1] = b
    OBVIOUS
  <2>1. /\ Way(E, D, path[a]) /\ b \notin D /\ {path[a][Len(path[a])], b} \in E
        /\ D \cup {b} \subseteq D \cup new
    BY <1>3, <1>6, <1>7
  <2>2. /\ Way(E, D \cup new, Append(path[a], b))
        /\ Len(Append(path[a], b)) = l + 1
        /\ Append(path[a], b)[1] = path[a][1]
        /\ Append(path[a], b)[l + 1] = b
    <3> DEFINE p == path[a]
               F == D \cup new
    <3>1. l = Len(p)
      BY <1>d
    <3> HIDE DEF p, F, D
    <3>2. Way(E, D, p) /\ {p[Len(p)], b} \in E /\ D \cup {b} \subseteq F
      BY <2>1 DEF p, F
    <3>3. /\ Way(E, F, Append(p, b))
          /\ Len(Append(p, b)) = Len(p) + 1
          /\ Append(p, b)[1] = p[1]
          /\ Append(p, b)[Len(p) + 1] = b
      BY <2>1, <3>2, WayExtended
    <3> QED
      BY <3>1, <3>3 DEF p, F
  <2> QED
    BY <1>4, <1>6, <1>7, <2>2
<1>10. Found(E, A, V, q)
  <2>1. A \subseteq D \cup new /\ D \cup new \subseteq V
    BY <1>2, <1>3 DEF Found
  <2>2. ASSUME NEW b \in D \cup new
        PROVE  /\ Way(E, D \cup new, q[b])
               /\ q[b][1] \in A /\ q[b][Len(q[b])] = b
    <3>1. CASE b \in new
      BY <1>9, <3>1
    <3>2. CASE b \in D
      BY <1>4, <1>7, <3>2, WayInside
    <3> QED
      BY <3>1, <3>2
  <2>3. \A c \in A : q[c] = <<c>>
    BY <1>2, <1>4 DEF Found
  <2>4. ASSUME NEW C \in SUBSET V, A \subseteq C, Closed(E, V, C)
        PROVE  D \cup new \subseteq C
    <3>1. D \subseteq C
      BY <1>2, <2>4 DEF Found
    <3>2. a \in C
      BY <1>6, <3>1
    <3> QED
      BY <1>3, <2>4, <3>1, <3>2 DEF Closed
  <2> QED
    BY <1>4, <2>1, <2>2, <2>3, <2>4 DEF Found
<1>11. /\ todo \in Seq(D \cup new) /\ Len(todo) = m - 1 + Len(more)
       /\ \A i \in 1..m - 1 : todo[i] = pending[i + 1]
       /\ \A i \in 1..Len(more) : todo[m - 1 + i] = more[i]
  <2>1. Tail(pending) \in Seq(D \cup new) /\ more \in Seq(D \cup new)
    BY <1>5, <1>6, SeqMonotonic
  <2>2. /\ todo \in Seq(D \cup new)
        /\ Len(todo) = Len(Tail(pending)) + Len(more)
        /\ \A i \in 1..Len(Tail(pending)) : todo[i] = Tail(pending)[i]
        /\ \A i \in 1..Len(more) : todo[Len(Tail(pending)) + i] = more[i]
    BY <2>1, Joined
  <2> HIDE DEF todo
  <2> QED
    BY <1>6, <2>2
<1> HIDE DEF todo, path, pending, D
<1>12. Len(more) \in Nat /\ \A i \in 1..Len(more) : more[i] \in new
  BY <1>5
<1>13. \A i \in 1..Len(todo) :
          \/ i \in 1..m - 1 /\ i + 1 \in 1..m /\ todo[i] = pending[i + 1]
             /\ todo[i] \in D
          \/ \E j \in 1..Len(more) : i = m - 1 + j /\ todo[i] = more[j]
             /\ todo[i] \in new
  <2> SUFFICES ASSUME NEW i \in 1..Len(todo)
               PROVE  \/ i \in 1..m - 1 /\ i + 1 \in 1..m
                         /\ todo[i] = pending[i + 1] /\ todo[i] \in D
                      \/ \E j \in 1..Len(more) : i = m - 1 + j
                            /\ todo[i] = more[j] /\ todo[i] \in new
    OBVIOUS
  <2>1. CASE i <= m - 1
    <3>1. i \in 1..m - 1 /\ i + 1 \in 1..m
      BY <1>6, <1>11, <1>12, <2>1
    <3> QED
      BY <1>6, <1>11, <3>1
  <2>2. CASE ~(i <= m - 1)
    <3>1. PICK j \in 1..Len(more) : i = m - 1 + j
      <4>1. /\ i - (m - 1) \in 1..Len(more)
            /\ i = m - 1 + (i - (m - 1))
        BY <1>6, <1>11, <1>12, <2>2
      <4> QED
        BY <4>1
    <3> QED
      BY <1>11, <1>12, <3>1
  <2> QED
    BY <2>1, <2>2
<1>14. \A i, j \in 1..Len(todo) : todo[i] = todo[j] => i = j
  <2> SUFFICES ASSUME NEW i \in 1..Len(todo), NEW j \in 1..Len(todo),
                      todo[i] = todo[j]
               PROVE  i = j
    OBVIOUS
  <2>1. CASE todo[i] \in D
    <3>1. /\ i + 1 \in 1..m /\ todo[i] = pending[i + 1]
          /\ j + 1 \in 1..m /\ todo[j] = pending[j + 1]
      BY <1>3, <1>13, <2>1
    <3>2. i + 1 = j + 1
      BY <1>2, <1>d, <3>1 DEF Queue
    <3> QED
      BY <3>2
  <2>2. CASE todo[i] \notin D
    <3>1. /\ \E k \in 1..Len(more) : i = m - 1 + k /\ todo[i] = more[k]
          /\ \E k \in 1..Len(more) : j = m - 1 + k /\ todo[j] = more[k]
      BY <1>13, <2>2
    <3> QED
      BY <1>5, <3>1
  <2> QED
    BY <2>1, <2>2
<1>15. \A b \in D \cup new : Len(q[b]) \in Nat /\ Len(q[b]) <= l + 1
  BY <1>4, <1>7, <1>8, <1>9
<1>16. \A i \in 1..Len(todo) : Len(q[todo[i]]) >= l
  <2> SUFFICES ASSUME NEW i \in 1..Len(todo)
               PROVE  Len(q[todo[i]]) >= l
    OBVIOUS
  <2>1. CASE todo[i] \in new
    BY <1>8, <1>9, <2>1
  <2>2. CASE i + 1 \in 1..m /\ todo[i] = pending[i + 1] /\ todo[i] \in D
    <3>1. 1 \in 1..m /\ 1 <= i + 1
      BY <1>6, <2>2
    <3>2. l <= Len(path[pending[i + 1]])
      BY <1>2, <1>6, <1>d, <2>2, <3>1 DEF Queue
    <3> QED
      BY <1>4, <1>7, <1>8, <2>2, <3>2
  <2> QED
    BY <1>13, <2>1, <2>2
<1>17. \A i, j \in 1..Len(todo) : i <= j =>
          Len(q[todo[i]]) <= Len(q[todo[j]])
  <2> SUFFICES ASSUME NEW i \in 1..Len(todo), NEW j \in 1..Len(todo), i <= j
               PROVE  Len(q[todo[i]]) <= Len(q[todo[j]])
    OBVIOUS
  <2>1. todo[i] \in D \cup new
    BY <1>13
  <2>2. CASE todo[j] \in new
    BY <1>8, <1>9, <1>15, <2>1, <2>2
  <2>3. CASE todo[j] \in D
    <3>1. j \in 1..m - 1 /\ j + 1 \in 1..m /\ todo[j] = pending[j + 1]
      BY <1>3, <1>13, <2>3
    <3>2. i \in 1..m - 1 /\ i + 1 \in 1..m /\ i + 1 <= j + 1
      BY <1>6, <1>11, <1>12, <3>1
    <3>3. todo[i] = pending[i + 1] /\ todo[i] \in D
      BY <1>6, <1>11, <3>2
    <3>4. Len(path[pending[i + 1]]) <= Len(path[pending[j + 1]])
      BY <1>2, <1>d, <3>1, <3>2 DEF Queue
    <3> QED
      BY <1>4, <2>3, <3>1, <3>3, <3>4
  <2> QED
    BY <1>13, <2>2, <2>3
<1>18. Queue(q, todo)
  <2>1. todo # <<>> => \A b \in D \cup new : Len(q[b]) <= Len(q[todo[1]]) + 1
    <3> SUFFICES ASSUME todo # <<>>, NEW b \in D \cup new
                 PROVE  Len(q[b]) <= Len(q[todo[1]]) + 1
      OBVIOUS
    <3>1. 1 \in 1..Len(todo)
      BY <1>11
    <3>2. todo[1] \in D \cup new /\ Len(q[todo[1]]) >= l
      BY <1>13, <1>16, <3>1
    <3>3. Len(q[b]) <= l + 1 /\ Len(q[b]) \in Nat
          /\ Len(q[todo[1]]) \in Nat
      BY <1>15, <3>2
    <3> QED
      BY <1>8, <3>2, <3>3
  <2> QED
    BY <1>4, <1>11, <1>14, <1>17, <2>1 DEF Queue
<1>19. Followed(E, V, q, todo)
  <2> SUFFICES ASSUME NEW d \in D \cup new,
                      \A i \in 1..Len(todo) : todo[i] # d,
                      NEW b \in V, {d, b} \in E
               PROVE  b \in D \cup new /\ Len(q[b]) <= Len(q[d]) + 1
    BY <1>4 DEF Followed
  <2>1. d \notin new
    <3> SUFFICES ASSUME d \in new
                 PROVE  FALSE
      OBVIOUS
    <3>1. PICK i \in 1..Len(more) : more[i] = d
      BY <1>5
    <3>2. m - 1 + i \in 1..Len(todo)
      BY <1>6, <1>11, <1>12
    <3> QED
      BY <1>11, <3>1, <3>2
  <2>2. d \in D /\ q[d] = path[d]
    BY <1>4, <2>1
  <2>3. CASE d = a
    <3>1. b \in D \cup new /\ Len(q[b]) <= l + 1
      BY <1>3, <1>15, <2>3
    <3> QED
      BY <1>d, <2>2, <2>3, <3>1
  <2>4. CASE d # a
    <3>1. ASSUME NEW i \in 1..m
          PROVE  pending[i] # d
      <4>1. CASE i = 1
        BY <1>6, <2>4, <4>1
      <4>2. CASE i # 1
        <5>1. i - 1 \in 1..m - 1 /\ i - 1 + 1 = i
          BY <1>6, <4>2
        <5>2. i - 1 \in 1..Len(todo) /\ todo[i - 1] = pending[i]
          BY <1>6, <1>11, <1>12, <5>1
        <5> QED
          BY <5>2
      <4> QED
        BY <4>1, <4>2
    <3>2. b \in D /\ Len(path[b]) <= Len(path[d]) + 1
      BY <1>2, <1>d, <2>2, <3>1 DEF Followed
    <3> QED
      BY <1>4, <2>2, <3>2
  <2> QED
    BY <2>3, <2>4
<1>20. Cardinality(D \cup new) - Len(todo) = Cardinality(D) - m + 1
  <2>1. D \in SUBSET Tables
    BY <1>2, <1>d DEF Found
  <2>2. /\ IsFiniteSet(D) /\ Cardinality(D) \in Nat
        /\ IsFiniteSet(new) /\ Cardinality(new) \in Nat
    BY <1>3, <2>1, TablesFinite
  <2>3. D \cap new = {}
    BY <1>3
  <2>4. Cardinality(D \cup new) = Cardinality(D) + Cardinality(new)
    <3>1. Cardinality(D \cap new) = 0
      BY <2>3, FS_EmptySet
    <3>2. Cardinality(D \cup new)
             = Cardinality(D) + Cardinality(new) - Cardinality(D \cap new)
      BY <2>2, FS_Union
    <3> QED
      BY <2>2, <3>1, <3>2
  <2> QED
    BY <1>5, <1>6, <1>11, <2>2, <2>4
<1> QED
  BY <1>1, <1>4, <1>d, <1>e, <1>10, <1>18, <1>19, <1>20
  DEF SearchState, Passed

(* The rounds are what their definition says: such a function exists.      *)
LEMMA RoundsDefined ==
    ASSUME N \in Nat, NEW E, NEW A, NEW V, NEW r, r = Rounds(E, A, V)
    PROVE  /\ r[0] = [pending |-> Sorted(A), path |-> [a \in A |-> <<a>>]]
           /\ \A i \in 1..N : r[i] = Follow(E, V, r[i - 1])
<1> DEFINE start == [pending |-> Sorted(A), path |-> [a \in A |-> <<a>>]]
           Next1(s) == Follow(E, V, s)
           Is(g, n) == g = [i \in 0..n |-> IF i = 0 THEN start
                                           ELSE Next1(g[i - 1])]
           Bad == {n \in Nat : ~\E g : Is(g, n)}
<1>1. r = CHOOSE g : Is(g, N)
  BY DEF Rounds
<1> HIDE DEF start, Next1
<1>2. Bad = {}
  <2> SUFFICES ASSUME Bad # {}
               PROVE  FALSE
    OBVIOUS
  <2>1. PICK n \in Bad : \A m \in Bad : n <= m
    BY LeastNumber
  <2>2. CASE n = 0
    <3> DEFINE h == [i \in 0..0 |-> start]
    <3>1. Is(h, 0)
      OBVIOUS
    <3> QED
      BY <2>1, <2>2, <3>1
  <2>3. CASE n # 0
    <3>1. n \in Nat /\ n - 1 \in Nat /\ n - 1 < n
      BY <2>3
    <3>2. PICK g : Is(g, n - 1)
      BY <2>1, <3>1
    <3> DEFINE h == [i \in 0..n |-> IF i = n THEN Next1(g[n - 1]) ELSE g[i]]
    <3>3. ASSUME NEW i \in 0..n
          PROVE  h[i] = IF i = 0 THEN start ELSE Next1(h[i - 1])
      <4>1. CASE i = 0
        <5>1. g[0] = start
          BY <3>1, <3>2
        <5> QED
          BY <2>3, <3>1, <4>1, <5>1
      <4>2. CASE i # 0 /\ i # n
        <5>1. i \in 0..n - 1 /\ i - 1 \in 0..n /\ i - 1 # n
          BY <3>1, <4>2
        <5>2. g[i] = Next1(g[i - 1])
          BY <3>2, <4>2, <5>1
        <5>3. h[i] = g[i] /\ h[i - 1] = g[i - 1]
          BY <4>2, <5>1
        <5> QED
          BY <4>2, <5>2, <5>3
      <4>3. CASE i # 0 /\ i = n
        <5>1. n - 1 \in 0..n /\ n - 1 # n
          BY <3>1
        <5>2. h[i] = Next1(g[n - 1]) /\ h[n - 1] = g[n - 1]
          BY <4>3, <5>1
        <5> QED
          BY <4>3, <5>2
      <4> QED
        BY <4>1, <4>2, <4>3
    <3>4. Is(h, n)
      <4>1. h = [i \in 0..n |-> h[i]]
        OBVIOUS
      <4> HIDE DEF h
      <4> QED
        BY <3>3, <4>1
    <3> QED
      BY <2>1, <3>1, <3>4
  <2> QED
    BY <2>2, <2>3
<1>3. Is(r, N)
  <2>1. \E g : Is(g, N)
    BY <1>2
  <2> HIDE DEF Is
  <2> QED
    BY <1>1, <2>1
<1>4. r[0] = start
  BY <1>3
<1>5. ASSUME NEW i \in 1..N
      PROVE  r[i] = Next1(r[i - 1])
  <2>1. i \in 0..N /\ i # 0
    OBVIOUS
  <2> QED
    BY <1>3, <2>1
<1> QED
  BY <1>4, <1>5 DEF start, Next1

\* What is found is closed under the keys, a neighbour at most one farther.
Near(E, V, path) ==
    \A a \in DOMAIN path, b \in V : {a, b} \in E =>
        b \in DOMAIN path /\ Len(path[b]) <= Len(path[a]) + 1

(* The breadth-first search finds exactly what can be reached: its paths   *)
(* are ways from a table it starts from, what is found is closed under the *)
(* keys and inside every set that is, and a neighbour is at most one key   *)
(* farther (_shortest_path, _distances).                                   *)
LEMMA SearchFinds ==
    ASSUME N \in Nat, NEW E, NEW V \in SUBSET Tables, NEW A \in SUBSET V,
           NEW path, path = Search(E, A, V)
    PROVE  /\ Found(E, A, V, path)
           /\ Near(E, V, path)
<1> DEFINE r == Rounds(E, A, V)
           Ok(i) == /\ SearchState(E, A, V, r[i])
                    /\ r[i].pending = <<>> \/ Passed(r[i]) = i
           Bad == {i \in 0..N : ~Ok(i)}
<1>1. /\ r[0] = [pending |-> Sorted(A), path |-> [a \in A |-> <<a>>]]
      /\ \A i \in 1..N : r[i] = Follow(E, V, r[i - 1])
  BY RoundsDefined
<1>r. r = Rounds(E, A, V)
  OBVIOUS
<1> HIDE DEF r
<1>2. Bad = {}
  <2> SUFFICES ASSUME Bad # {}
               PROVE  FALSE
    OBVIOUS
  <2>1. PICK i \in Bad : \A j \in Bad : i <= j
    <3>1. Bad \in SUBSET Nat
      OBVIOUS
    <3> QED
      BY <3>1, LeastNumber
  <2>2. CASE i = 0
    <3>1. SearchState(E, A, V, r[0]) /\ Passed(r[0]) = 0
      BY <1>1, SearchStarts
    <3> QED
      BY <2>1, <2>2, <3>1
  <2>3. CASE i # 0
    <3>1. i \in 1..N /\ i - 1 \in 0..N /\ i - 1 < i
      BY <2>3
    <3>2. Ok(i - 1)
      BY <2>1, <3>1
    <3>3. r[i] = Follow(E, V, r[i - 1])
      BY <1>1, <3>1
    <3>4. CASE r[i - 1].pending = <<>>
      <4>1. r[i] = r[i - 1]
        BY <3>3, <3>4 DEF Follow
      <4> QED
        BY <2>1, <3>2, <3>4, <4>1
    <3>5. CASE r[i - 1].pending # <<>>
      <4>1. SearchState(E, A, V, r[i]) /\ Passed(r[i]) = Passed(r[i - 1]) + 1
        <5> DEFINE s == r[i - 1]
                   t == r[i]
        <5>1. /\ SearchState(E, A, V, s) /\ s.pending # <<>>
              /\ t = Follow(E, V, s)
          BY <3>2, <3>3, <3>5
        <5> HIDE DEF s, t
        <5>2. SearchState(E, A, V, t) /\ Passed(t) = Passed(s) + 1
          BY <5>1, SearchStep
        <5> QED
          BY <5>2 DEF s, t
      <4>2. Passed(r[i]) = i
        BY <3>1, <3>2, <3>5, <4>1
      <4> QED
        BY <2>1, <4>1, <4>2
    <3> QED
      BY <3>4, <3>5
  <2> QED
    BY <2>2, <2>3
<1>3. Ok(N) /\ path = r[N].path
  BY <1>2, <1>r DEF Search
<1>4. r[N].pending = <<>>
  <2> SUFFICES ASSUME r[N].pending # <<>>
               PROVE  FALSE
    OBVIOUS
  <2>1. /\ DOMAIN path \in SUBSET Tables
        /\ r[N].pending \in Seq(DOMAIN path)
    BY <1>3 DEF SearchState, Found, Queue
  <2>a. Passed(r[N]) = N
    BY <1>3
  <2>2. Len(r[N].pending) \in Nat \ {0}
    BY <2>1
  <2>3. Cardinality(DOMAIN path) \in 0..N
    BY <2>1, TablesFinite
  <2> QED
    BY <1>3, <2>a, <2>2, <2>3 DEF Passed
<1>5. Found(E, A, V, path) /\ Followed(E, V, path, <<>>)
  BY <1>3, <1>4 DEF SearchState
<1>6. \A d \in DOMAIN path, b \in V : {d, b} \in E =>
         b \in DOMAIN path /\ Len(path[b]) <= Len(path[d]) + 1
  <2>1. Len(<<>>) = 0
    OBVIOUS
  <2> QED
    BY <1>5, <2>1 DEF Followed
<1> QED
  BY <1>5, <1>6 DEF Near

-----------------------------------------------------------------------------
(* Lists without repetition                                                *)

\* A list of elements of S, each at most once.
Once(s, S) ==
    /\ s \in Seq(S)
    /\ \A i, j \in 1..Len(s) : s[i] = s[j] => i = j

\* A list of all of S.
Lists(s, S) == Once(s, S) /\ \A a \in S : \E i \in 1..Len(s) : s[i] = a

\* In the order of the keys.
InOrder(s, key) ==
    \A i, j \in 1..Len(s) : i < j => KeyBefore(key[s[i]], key[s[j]])

(* What a list without repetition has.                                     *)
LEMMA OnceFacts ==
    ASSUME NEW S, NEW s, Once(s, S)
    PROVE  /\ Len(s) \in Nat /\ DOMAIN s = 1..Len(s)
           /\ \A i \in 1..Len(s) : s[i] \in S
           /\ ToSet(s) = {s[i] : i \in 1..Len(s)} /\ ToSet(s) \subseteq S
           /\ IsInjective(s) /\ Lists(s, ToSet(s))
           /\ \A i \in 1..Len(s) : RankIn(s, s[i]) = i
           /\ \A a \in ToSet(s) :
                 RankIn(s, a) \in 1..Len(s) /\ s[RankIn(s, a)] = a
           /\ IsFiniteSet(ToSet(s)) /\ Cardinality(ToSet(s)) = Len(s)
<1>1. /\ Len(s) \in Nat /\ DOMAIN s = 1..Len(s)
      /\ \A i \in 1..Len(s) : s[i] \in S
      /\ \A i, j \in 1..Len(s) : s[i] = s[j] => i = j
      /\ s \in Seq(S)
  <2>1. s \in Seq(S)
    BY DEF Once
  <2> QED
    BY <2>1 DEF Once
<1>2. ToSet(s) = {s[i] : i \in 1..Len(s)} /\ ToSet(s) \subseteq S
  BY <1>1 DEF ToSet
<1>3. IsInjective(s)
  BY <1>1 DEF IsInjective
<1>4. Lists(s, ToSet(s))
  <2>1. s \in [1..Len(s) -> ToSet(s)]
    <3>1. s = [i \in 1..Len(s) |-> s[i]]
      BY <1>1
    <3> QED
      BY <1>2, <3>1
  <2>2. s \in Seq(ToSet(s))
    BY <1>1, <2>1
  <2> QED
    BY <1>1, <1>2, <2>2 DEF Lists, Once
<1>5. ASSUME NEW i \in 1..Len(s)
      PROVE  RankIn(s, s[i]) = i
  BY <1>1 DEF RankIn
<1>6. \A a \in ToSet(s) : RankIn(s, a) \in 1..Len(s) /\ s[RankIn(s, a)] = a
  BY <1>2, <1>5
<1>7. IsFiniteSet(ToSet(s)) /\ Cardinality(ToSet(s)) = Len(s)
  <2>1. s \in Bijection(1..Len(s), ToSet(s))
    <3>1. s \in [1..Len(s) -> ToSet(s)]
      <4>1. s = [i \in 1..Len(s) |-> s[i]]
        BY <1>1
      <4> QED
        BY <1>2, <4>1
    <3> QED
      BY <1>1, <1>2, <3>1
      DEF Bijection, Injection, Surjection, IsInjective
  <2>2. ExistsBijection(1..Len(s), ToSet(s))
    BY <2>1 DEF ExistsBijection
  <2> QED
    BY <1>1, <2>2, FS_NatBijection, FS_CountingElements
<1> QED
  BY <1>1, <1>2, <1>3, <1>4, <1>5, <1>6, <1>7

(* A list of all of S.                                                     *)
LEMMA ListsFacts ==
    ASSUME NEW S, NEW s, Lists(s, S)
    PROVE  /\ Once(s, S) /\ ToSet(s) = S
           /\ IsFiniteSet(S) /\ Cardinality(S) = Len(s)
<1>1. Once(s, S)
  BY DEF Lists
<1>2. ToSet(s) = S
  BY <1>1, OnceFacts DEF Lists
<1> QED
  BY <1>1, <1>2, OnceFacts

(* Elements of a smaller set.                                              *)
LEMMA OnceInside ==
    ASSUME NEW S, NEW s, Once(s, S), NEW T, ToSet(s) \subseteq T
    PROVE  Once(s, T)
<1>1. Once(s, ToSet(s)) /\ s \in Seq(ToSet(s))
  BY OnceFacts DEF Lists, Once
<1>2. s \in Seq(T)
  BY <1>1, SeqMonotonic
<1> QED
  BY <1>1, <1>2 DEF Once

(* A sorted list.                                                          *)
LEMMA SortedLists ==
    ASSUME NEW S, IsFiniteSet(S), NEW key, Keys(S, key),
           NEW s, s = ByKey(S, key)
    PROVE  Lists(s, S) /\ InOrder(s, key)
<1> DEFINE n == Cardinality(S)
<1>1. n = Cardinality(S)
  OBVIOUS
<1> HIDE DEF n
<1>2. /\ s \in Seq(S) /\ Len(s) = n
      /\ \A a \in S : \E i \in 1..n : s[i] = a
      /\ \A i, j \in 1..n : i < j => KeyBefore(key[s[i]], key[s[j]])
      /\ \A i, j \in 1..n : s[i] = s[j] => i = j
  BY <1>1, Sorting
<1> QED
  BY <1>2 DEF Lists, Once, InOrder

(* There is only one list of a set in the order of the keys.               *)
LEMMA SortedOnce ==
    ASSUME NEW S, NEW key, Keys(S, key), NEW s, Lists(s, S), InOrder(s, key)
    PROVE  s = ByKey(S, key)
<1> DEFINE t == ByKey(S, key)
<1>1. IsFiniteSet(S) /\ Once(s, S) /\ ToSet(s) = S /\ Len(s) = Cardinality(S)
  BY ListsFacts
<1>2. Lists(t, S) /\ InOrder(t, key)
  BY <1>1, SortedLists
<1>3. ASSUME NEW u, Lists(u, S), InOrder(u, key), NEW i \in 1..Len(u)
      PROVE  u[i] \in S /\ Cardinality(Below(S, key, u[i])) = i - 1
  <2>1. /\ Once(u, S) /\ Len(u) \in Nat
        /\ \A j \in 1..Len(u) : u[j] \in S
        /\ \A a \in S : \E j \in 1..Len(u) : u[j] = a
        /\ \A j, l \in 1..Len(u) : u[j] = u[l] => j = l
    BY <1>3, ListsFacts, OnceFacts DEF Lists, Once
  <2> DEFINE f == [j \in 1..i - 1 |-> u[j]]
  <2>2. f \in Bijection(1..i - 1, Below(S, key, u[i]))
    <3>1. \A j \in 1..i - 1 : j \in 1..Len(u) /\ j < i
      BY <2>1
    <3>2. \A j \in 1..i - 1 : f[j] \in Below(S, key, u[i])
      BY <1>3, <2>1, <3>1 DEF InOrder, Below
    <3>3. \A j, l \in 1..i - 1 : f[j] = f[l] => j = l
      BY <2>1, <3>1
    <3>4. ASSUME NEW a \in Below(S, key, u[i])
          PROVE  \E j \in 1..i - 1 : f[j] = a
      <4>1. a \in S /\ KeyBefore(key[a], key[u[i]])
        BY DEF Below
      <4>2. PICK j \in 1..Len(u) : u[j] = a
        BY <2>1, <4>1
      <4>3. ~(i < j)
        BY <1>3, <2>1, <4>1, <4>2, KeysOrder DEF InOrder
      <4>4. j # i
        BY <2>1, <4>1, <4>2, KeysOrder
      <4>5. j \in 1..i - 1
        BY <2>1, <4>3, <4>4
      <4> QED
        BY <4>2, <4>5
    <3>5. f \in [1..i - 1 -> Below(S, key, u[i])]
      BY <3>2
    <3> HIDE DEF f
    <3> QED
      BY <3>3, <3>4, <3>5
      DEF Bijection, Injection, Surjection, IsInjective
  <2>3. ExistsBijection(1..i - 1, Below(S, key, u[i])) /\ i - 1 \in Nat
    BY <2>1, <2>2 DEF ExistsBijection
  <2>4. Cardinality(Below(S, key, u[i])) = i - 1
    BY <2>3, FS_CountingElements
  <2> QED
    BY <2>1, <2>4
<1>4. \A a, b \in S : a # b =>
         Cardinality(Below(S, key, a)) # Cardinality(Below(S, key, b))
  <2> SUFFICES ASSUME NEW a \in S, NEW b \in S, a # b
               PROVE  Cardinality(Below(S, key, a))
                         # Cardinality(Below(S, key, b))
    OBVIOUS
  <2>1. KeyBefore(key[a], key[b]) \/ KeyBefore(key[b], key[a])
    BY KeysOrder
  <2>2. /\ Cardinality(Below(S, key, a)) \in Int
        /\ Cardinality(Below(S, key, b)) \in Int
    BY <1>1, BelowCounted
  <2>3. \/ Cardinality(Below(S, key, a)) < Cardinality(Below(S, key, b))
        \/ Cardinality(Below(S, key, b)) < Cardinality(Below(S, key, a))
    BY <1>1, <2>1, BelowCounted
  <2> QED
    BY <2>2, <2>3
<1>5. Len(t) = Len(s)
  BY <1>1, <1>2, ListsFacts
<1> HIDE DEF t
<1>6. \A i \in 1..Len(s) : s[i] = t[i]
  BY <1>2, <1>3, <1>4, <1>5
<1>7. s \in Seq(S) /\ t \in Seq(S)
  BY <1>1, <1>2 DEF Lists, Once
<1>8. s = t
  BY <1>5, <1>6, <1>7, SeqEqual
<1> QED
  BY <1>8 DEF t

(* Keys of one number compare as the numbers.                              *)
LEMMA OneKey ==
    ASSUME NEW a \in Int, NEW b \in Int
    PROVE  /\ <<a>> \in Seq(Int) /\ Len(<<a>>) = 1 /\ <<a>>[1] = a
           /\ KeyBefore(<<a>>, <<b>>) <=> a < b
<1> DEFINE p == <<a>>
           q == <<b>>
<1>1. /\ DOMAIN p = {1} /\ p[1] = a /\ q[1] = b
      /\ p \in Seq(Int) /\ Len(p) = 1
  OBVIOUS
<1> HIDE DEF p, q
<1>2. \A j \in 1..1 - 1 : p[j] = q[j]
  OBVIOUS
<1>3. KeyBefore(p, q) <=> a < b
  BY <1>1, <1>2 DEF KeyBefore
<1> QED
  BY <1>1, <1>3 DEF p, q

(* The first of a list.                                                    *)
LEMMA FirstFacts ==
    ASSUME NEW S, NEW s, Once(s, S), NEW n \in Nat, NEW f, f = First(s, n)
    PROVE  /\ Once(f, S) /\ Len(f) = Least(n, Len(s))
           /\ Len(f) \in Nat /\ Len(f) <= Len(s) /\ Len(f) <= n
           /\ \A i \in 1..Len(f) : i \in 1..Len(s) /\ f[i] = s[i]
           /\ ToSet(f) \subseteq ToSet(s)
<1> DEFINE m == Least(n, Len(s))
<1>1. /\ Len(s) \in Nat /\ \A i \in 1..Len(s) : s[i] \in S
      /\ \A i, j \in 1..Len(s) : s[i] = s[j] => i = j
  BY OnceFacts DEF Once
<1>2. m \in Nat /\ m <= Len(s) /\ m <= n
  BY <1>1 DEF Least
<1>3. f = SubSeq(s, 1, m)
  BY DEF First
<1> HIDE DEF m
<1>4. /\ f \in Seq(S) /\ Len(f) = IF 1 <= m THEN m - 1 + 1 ELSE 0
      /\ \A i \in 1..m - 1 + 1 : f[i] = s[1 + i - 1]
  <2>1. 1 \in Int /\ m \in Int /\ \A i \in 1..m : s[i] \in S
    BY <1>1, <1>2
  <2> QED
    BY <1>3, <2>1, SubSeqProperties
<1>5. Len(f) = m
  BY <1>2, <1>4
<1>6. \A i \in 1..Len(f) : i \in 1..Len(s) /\ f[i] = s[i]
  <2> SUFFICES ASSUME NEW i \in 1..m
               PROVE  i \in 1..Len(s) /\ f[i] = s[i]
    BY <1>5
  <2>1. i \in 1..m - 1 + 1 /\ 1 + i - 1 = i /\ i \in 1..Len(s)
    BY <1>1, <1>2
  <2>2. f[i] = s[1 + i - 1]
    BY <1>4, <2>1
  <2> QED
    BY <2>1, <2>2, Zenon
<1>7. Once(f, S)
  BY <1>1, <1>4, <1>6 DEF Once
<1>8. ToSet(f) \subseteq ToSet(s)
  BY <1>6, <1>7, OnceFacts
<1> QED
  BY <1>2, <1>5, <1>6, <1>7, <1>8 DEF m

\* What r lists comes in the order of s.
Rising(s, r) ==
    \A i, j \in 1..Len(r) : i < j => RankIn(s, r[i]) < RankIn(s, r[j])

(* What a ranking has of a set.                                            *)
LEMMA KeptFacts ==
    ASSUME NEW U, NEW s, Once(s, U), NEW S, NEW k, k = Kept(s, S)
    PROVE  /\ Lists(k, ToSet(s) \cap S) /\ Rising(s, k)
           /\ \A r : Lists(r, ToSet(s) \cap S) /\ Rising(s, r) => r = k
<1> DEFINE T == ToSet(s) \cap S
           key == [t \in T |-> <<RankIn(s, t)>>]
<1>1. \A t \in T : RankIn(s, t) \in 1..Len(s) /\ s[RankIn(s, t)] = t
  BY OnceFacts
<1>2. Len(s) \in Nat /\ IsFiniteSet(ToSet(s)) /\ T \in SUBSET ToSet(s)
  BY OnceFacts
<1>3. IsFiniteSet(T)
  BY <1>2, FS_Subset
<1>4. k = ByKey(T, key)
  BY DEF Kept
<1>5. \A t \in T : key[t] = <<RankIn(s, t)>> /\ RankIn(s, t) \in Int
  BY <1>1, <1>2
<1>6. \A t \in T : key[t] \in Seq(Int) /\ Len(key[t]) = 1
                   /\ key[t][1] = RankIn(s, t)
  BY <1>5, OneKey
<1> HIDE DEF T, key
<1>7. Keys(T, key)
  <2>1. ASSUME NEW a \in T, NEW b \in T, key[a] = key[b]
        PROVE  a = b
    <3>1. RankIn(s, a) = RankIn(s, b)
      BY <1>6, <2>1
    <3> QED
      BY <1>1, <3>1
  <2> QED
    BY <1>6, <2>1 DEF Keys
<1>8. Lists(k, T) /\ InOrder(k, key)
  BY <1>3, <1>4, <1>7, SortedLists
<1>9. \A a, b \in T : KeyBefore(key[a], key[b]) <=>
                         RankIn(s, a) < RankIn(s, b)
  BY <1>5, OneKey
<1>10. \A r : Lists(r, T) => \A i \in 1..Len(r) : r[i] \in T
  BY ListsFacts, OnceFacts
<1>11. ASSUME NEW i \in 1..Len(k), NEW j \in 1..Len(k), i < j
       PROVE  RankIn(s, k[i]) < RankIn(s, k[j])
  BY <1>8, <1>9, <1>10, <1>11 DEF InOrder
<1>12. ASSUME NEW r, Lists(r, T), Rising(s, r)
       PROVE  r = k
  <2>1. InOrder(r, key)
    BY <1>9, <1>10, <1>12 DEF InOrder, Rising
  <2> QED
    BY <1>4, <1>7, <1>12, <2>1, SortedOnce
<1>13. Rising(s, k)
  BY <1>11 DEF Rising
<1> QED
  BY <1>8, <1>12, <1>13 DEF T

(* A list followed by what another has besides.                            *)
LEMMA WithRemainderFacts ==
    ASSUME NEW U, NEW s, Once(s, U), NEW all, Lists(all, U),
           NEW w, w = WithRemainder(s, all)
    PROVE  /\ Lists(w, U) /\ Len(s) <= Len(w)
           /\ \A i \in 1..Len(s) : i \in 1..Len(w) /\ w[i] = s[i]
           /\ First(w, Len(s)) = s
           /\ \A a \in ToSet(s) : RankIn(w, a) = RankIn(s, a)
<1> DEFINE k == Kept(all, ToSet(all) \ ToSet(s))
<1>1. Once(all, U) /\ ToSet(all) = U
  BY ListsFacts
<1>2. Lists(k, U \ ToSet(s))
  <2>1. Lists(k, ToSet(all) \cap (ToSet(all) \ ToSet(s)))
    BY <1>1, KeptFacts
  <2>2. ToSet(all) \cap (ToSet(all) \ ToSet(s)) = U \ ToSet(s)
    BY <1>1
  <2> QED
    BY <2>1, <2>2
<1>3. w = s \o k
  BY DEF WithRemainder
<1> HIDE DEF k
<1>4. /\ Len(s) \in Nat /\ \A i \in 1..Len(s) : s[i] \in U
      /\ \A i, j \in 1..Len(s) : s[i] = s[j] => i = j
      /\ s \in Seq(U) /\ ToSet(s) \subseteq U
      /\ \A i \in 1..Len(s) : s[i] \in ToSet(s)
      /\ \A a \in ToSet(s) : \E i \in 1..Len(s) : s[i] = a
  BY OnceFacts DEF Once, Lists
<1>5. /\ Len(k) \in Nat /\ \A i \in 1..Len(k) : k[i] \in U \ ToSet(s)
      /\ \A i, j \in 1..Len(k) : k[i] = k[j] => i = j
      /\ \A a \in U \ ToSet(s) : \E i \in 1..Len(k) : k[i] = a
      /\ Once(k, U)
  <2>1. /\ Once(k, U \ ToSet(s)) /\ Len(k) \in Nat
        /\ \A i \in 1..Len(k) : k[i] \in U \ ToSet(s)
    BY <1>2, ListsFacts, OnceFacts
  <2>2. Once(k, U)
    <3>1. ToSet(k) \subseteq U
      BY <2>1, OnceFacts
    <3> QED
      BY <2>1, <3>1, OnceInside
  <2> QED
    BY <1>2, <2>1, <2>2 DEF Lists, Once
<1>6. /\ w \in Seq(U) /\ Len(w) = Len(s) + Len(k)
      /\ \A i \in 1..Len(s) : w[i] = s[i]
      /\ \A i \in 1..Len(k) : w[Len(s) + i] = k[i]
  BY <1>3, <1>4, <1>5, Joined DEF Once
<1>7. \A i \in 1..Len(w) :
         \/ i \in 1..Len(s) /\ w[i] = s[i] /\ w[i] \in ToSet(s)
         \/ \E j \in 1..Len(k) : i = Len(s) + j /\ w[i] = k[j]
                                 /\ w[i] \notin ToSet(s)
  <2> SUFFICES ASSUME NEW i \in 1..Len(w), i \notin 1..Len(s)
               PROVE  \E j \in 1..Len(k) : i = Len(s) + j /\ w[i] = k[j]
                                           /\ w[i] \notin ToSet(s)
    BY <1>4, <1>6
  <2>1. PICK j \in 1..Len(k) : i = Len(s) + j
    <3>1. i - Len(s) \in 1..Len(k) /\ i = Len(s) + (i - Len(s))
      BY <1>4, <1>5, <1>6
    <3> QED
      BY <3>1
  <2> QED
    BY <1>5, <1>6, <2>1
<1>8. ASSUME NEW i \in 1..Len(w), NEW j \in 1..Len(w), w[i] = w[j]
      PROVE  i = j
  <2>1. CASE w[i] \in ToSet(s)
    <3>1. i \in 1..Len(s) /\ w[i] = s[i] /\ j \in 1..Len(s) /\ w[j] = s[j]
      BY <1>7, <1>8, <2>1
    <3> QED
      BY <1>4, <1>8, <3>1
  <2>2. CASE w[i] \notin ToSet(s)
    <3>1. PICK l \in 1..Len(k) : i = Len(s) + l /\ w[i] = k[l]
      BY <1>7, <2>2
    <3>2. PICK m \in 1..Len(k) : j = Len(s) + m /\ w[j] = k[m]
      BY <1>7, <1>8, <2>2
    <3> QED
      BY <1>5, <1>8, <3>1, <3>2
  <2> QED
    BY <2>1, <2>2
<1>9. \A i \in 1..Len(s) : i \in 1..Len(w)
  BY <1>4, <1>5, <1>6
<1>10. ASSUME NEW a \in U
       PROVE  \E i \in 1..Len(w) : w[i] = a
  <2>1. CASE a \in ToSet(s)
    BY <1>4, <1>6, <1>9, <2>1
  <2>2. CASE a \notin ToSet(s)
    <3>1. PICK j \in 1..Len(k) : k[j] = a
      BY <1>5, <2>2
    <3>2. Len(s) + j \in 1..Len(w)
      BY <1>4, <1>5, <1>6
    <3> QED
      BY <1>6, <3>1, <3>2
  <2> QED
    BY <2>1, <2>2
<1>11. Lists(w, U) /\ Once(w, U)
  BY <1>6, <1>8, <1>10 DEF Lists, Once
<1>12. Len(s) <= Len(w)
  BY <1>4, <1>5, <1>6
<1>13. First(w, Len(s)) = s
  <2> DEFINE f == First(w, Len(s))
  <2>1. f = First(w, Len(s))
    OBVIOUS
  <2> HIDE DEF f
  <2>2. /\ Once(f, U) /\ Len(f) = Least(Len(s), Len(w))
        /\ \A i \in 1..Len(f) : f[i] = w[i]
    BY <1>4, <1>11, <2>1, FirstFacts
  <2>3. Len(f) = Len(s)
    BY <1>12, <2>2 DEF Least
  <2>4. f \in Seq(U) /\ \A i \in 1..Len(f) : f[i] = s[i]
    BY <1>6, <2>2, <2>3 DEF Once
  <2>5. f = s
    BY <1>4, <2>3, <2>4, SeqEqual
  <2> QED
    BY <2>1, <2>5
<1>14. ASSUME NEW a \in ToSet(s)
       PROVE  RankIn(w, a) = RankIn(s, a)
  <2>1. PICK i \in 1..Len(s) : s[i] = a
    BY <1>4
  <2>2. i \in 1..Len(w) /\ w[i] = a
    BY <1>6, <1>9, <2>1
  <2>3. RankIn(s, s[i]) = i /\ RankIn(w, w[i]) = i
    BY <1>11, <2>2, OnceFacts
  <2> QED
    BY <2>1, <2>2, <2>3
<1> QED
  BY <1>6, <1>9, <1>11, <1>12, <1>13, <1>14

-----------------------------------------------------------------------------
(* Reached and connected tables                                            *)

(* A pair is determined by its two members.                                *)
LEMMA PairOf ==
    ASSUME N \in Nat, NEW e \in Pairs, NEW x \in e, NEW y \in e, x # y
    PROVE  e = {x, y}
<1>1. e \in SUBSET Tables /\ Cardinality(e) = 2
  BY DEF Pairs
<1>2. IsFiniteSet(e)
  BY <1>1, TablesFinite
<1>3. IsFiniteSet({x}) /\ Cardinality({x}) = 1
  BY FS_Singleton
<1>4. Cardinality({x} \cup {y}) = 2
  BY <1>3, FS_AddElement
<1>5. {x, y} = {x} \cup {y} /\ {x, y} \in SUBSET e
  OBVIOUS
<1> QED
  BY <1>1, <1>2, <1>4, <1>5, FS_Subset

\* The keys inside V that stay in S.
Stays(E, V, S) == \A e \in E : e \subseteq V => e \subseteq S

\* What the search from a finds: ways inside S, closed under the keys, a
\* neighbour at most one key farther.
Reaches(E, V, S, a, path) ==
    /\ DOMAIN path \subseteq S /\ a \in DOMAIN path
    /\ \A b \in DOMAIN path :
          Way(E, S, path[b]) /\ path[b][1] = a /\ path[b][Len(path[b])] = b
    /\ Near(E, V, path)

(* The search from a table finds ways inside every set it cannot leave.    *)
LEMMA PathsFound ==
    ASSUME N \in Nat, NEW E, NEW V \in SUBSET Tables, NEW S \in SUBSET V,
           Stays(E, V, S), NEW a \in S
    PROVE  Reaches(E, V, S, a, Paths(E, a, V))
<1> DEFINE path == Paths(E, a, V)
<1>1. path = Search(E, {a}, V) /\ {a} \in SUBSET V
  BY DEF Paths
<1> HIDE DEF path
<1>2. Found(E, {a}, V, path) /\ Near(E, V, path)
  BY <1>1, SearchFinds
<1>3. Closed(E, V, S)
  <2> SUFFICES ASSUME NEW b \in S, NEW c \in V, {b, c} \in E
               PROVE  c \in S
    BY DEF Closed
  <2>1. {b, c} \subseteq V
    OBVIOUS
  <2>2. {b, c} \subseteq S
    BY <2>1 DEF Stays
  <2> QED
    BY <2>2
<1>4. DOMAIN path \subseteq S /\ a \in DOMAIN path
  BY <1>2, <1>3 DEF Found
<1>5. ASSUME NEW b \in DOMAIN path
      PROVE  /\ Way(E, S, path[b])
             /\ path[b][1] = a /\ path[b][Len(path[b])] = b
  BY <1>2, <1>4, WayInside DEF Found
<1> QED
  BY <1>2, <1>4, <1>5 DEF Reaches, path

\* The parts of a set of tables that no key inside it leaves.
Parts(tables) ==
    {K \in SUBSET tables :
       \A e \in keys : e \subseteq tables /\ e \cap K # {} => e \subseteq K}

(* The tables connected to one are those the search from it finds.         *)
LEMMA ConnectedFound ==
    ASSUME N \in Nat, keys \in SUBSET Pairs,
           NEW E, NEW V \in SUBSET Tables, NEW S \in SUBSET V,
           \A e : e \in E /\ e \subseteq V <=> e \in keys /\ e \subseteq S,
           NEW a \in S, NEW b \in S
    PROVE  <<a, b>> \in Connected(S) <=> b \in DOMAIN Paths(E, a, V)
<1> DEFINE path == Paths(E, a, V)
           D == DOMAIN path
<1>1. /\ D \subseteq S /\ a \in D
      /\ \A x \in D, y \in V : {x, y} \in E => y \in D
  <2>1. Stays(E, V, S)
    BY DEF Stays
  <2>2. Reaches(E, V, S, a, path)
    BY <2>1, PathsFound
  <2> HIDE DEF path
  <2> QED
    BY <2>2 DEF Reaches, Near
<1>2. \A C \in SUBSET V : {a} \subseteq C /\ Closed(E, V, C) => D \subseteq C
  <2>1. path = Search(E, {a}, V) /\ {a} \in SUBSET V
    BY DEF Paths
  <2> HIDE DEF path
  <2>2. Found(E, {a}, V, path)
    BY <2>1, SearchFinds
  <2> QED
    BY <2>2 DEF Found
<1> HIDE DEF path
<1>3. <<a, b>> \in Connected(S) <=>
         \A K \in Parts(S) : a \in K => b \in K
  BY DEF Connected, Parts
<1>4. D \in Parts(S)
  <2> SUFFICES ASSUME NEW e \in keys, e \subseteq S, NEW x \in e \cap D,
                      NEW y \in e
               PROVE  y \in D
    BY <1>1 DEF Parts
  <2>1. CASE x = y
    BY <2>1
  <2>2. CASE x # y
    <3>1. e = {x, y} /\ e \in E /\ y \in V
      BY <2>2, PairOf
    <3> QED
      BY <1>1, <3>1
  <2> QED
    BY <2>1, <2>2
<1>5. ASSUME NEW K \in Parts(S), a \in K
      PROVE  D \subseteq K
  <2>1. K \in SUBSET V
    BY DEF Parts
  <2>2. Closed(E, V, K)
    <3> SUFFICES ASSUME NEW c \in K, NEW d \in V, {c, d} \in E
                 PROVE  d \in K
      BY DEF Closed
    <3>1. {c, d} \subseteq V
      BY <2>1
    <3>2. {c, d} \in keys /\ {c, d} \subseteq S
      BY <3>1
    <3>3. {c, d} \cap K # {}
      OBVIOUS
    <3> QED
      BY <3>2, <3>3 DEF Parts
  <2> QED
    BY <1>2, <1>5, <2>1, <2>2
<1> QED
  BY <1>1, <1>3, <1>4, <1>5 DEF path

(* Connection goes both ways, and every table is connected to itself.      *)
LEMMA ConnectedBoth ==
    ASSUME NEW S, NEW a \in S, NEW b \in S
    PROVE  /\ <<a, b>> \in Connected(S) => <<b, a>> \in Connected(S)
           /\ <<a, a>> \in Connected(S)
<1>1. \A x, y \in S : <<x, y>> \in Connected(S) <=>
                         \A K \in Parts(S) : x \in K => y \in K
  BY DEF Connected, Parts
<1>2. ASSUME NEW K \in Parts(S)
      PROVE  S \ K \in Parts(S)
  <2> SUFFICES ASSUME NEW e \in keys, e \subseteq S, e \cap (S \ K) # {},
                      NEW x \in e, x \in K
               PROVE  FALSE
    BY DEF Parts
  <2>1. e \subseteq K
    BY DEF Parts
  <2> QED
    BY <2>1
<1>3. ASSUME <<a, b>> \in Connected(S), NEW K \in Parts(S), b \in K
      PROVE  a \in K
  <2>1. a \in S \ K => b \in S \ K
    BY <1>1, <1>2, <1>3
  <2> QED
    BY <1>3, <2>1
<1> QED
  BY <1>1, <1>3

-----------------------------------------------------------------------------
(* Selection and join paths                                                *)

(* The tables of a way.                                                    *)
LEMMA WayTables ==
    ASSUME NEW E, NEW S, NEW p, Way(E, S, p)
    PROVE  /\ Once(p, S) /\ Len(p) \in Nat \ {0} /\ ToSet(p) \subseteq S
           /\ IsInjective(p) /\ p[1] \in ToSet(p) /\ p[Len(p)] \in ToSet(p)
           /\ \A i \in 1..Len(p) - 1 : {p[i], p[i + 1]} \in E
<1>1. p \in Seq(S) /\ p # <<>> /\ Once(p, S)
  BY DEF Way, Once
<1>2. Len(p) \in Nat \ {0}
  BY <1>1
<1>3. 1 \in 1..Len(p) /\ Len(p) \in 1..Len(p)
  BY <1>2
<1> QED
  BY <1>1, <1>2, <1>3, OnceFacts DEF Way

\* Ways to each of some tables, and the best of these.
WaysTo(E, S, T, path) ==
    \A b \in T : Way(E, S, path[b]) /\ path[b][Len(path[b])] = b
Best(T, path, b) ==
    b \in T /\ \A o \in T \ {b} : PathBefore(path[b], path[o])

(* Of several ways to different ends one is the best (_path_order).        *)
LEMMA BestWay ==
    ASSUME N \in Nat, NEW E, NEW S \in SUBSET Tables,
           NEW T \in SUBSET Tables, T # {}, NEW path,
           WaysTo(E, S, T, path)
    PROVE  \E b : Best(T, path, b)
<1> USE DEF WaysTo
<1>1. \A b \in T : path[b] \in Seq(Int) /\ Len(path[b]) \in Nat
  <2> SUFFICES ASSUME NEW b \in T
               PROVE  path[b] \in Seq(Int) /\ Len(path[b]) \in Nat
    OBVIOUS
  <2>1. path[b] \in Seq(S) /\ S \subseteq Int
    BY TablesFinite DEF Way
  <2> QED
    BY <2>1, SeqMonotonic, LenProperties
<1> DEFINE lens == {Len(path[b]) : b \in T}
<1>2. PICK l \in lens : \A m \in lens : l <= m
  <2>1. lens \in SUBSET Nat /\ lens # {}
    BY <1>1
  <2> QED
    BY <2>1, LeastNumber
<1> DEFINE U == {b \in T : Len(path[b]) = l}
           key == [b \in U |-> path[b]]
           s == ByKey(U, key)
<1>3. U # {} /\ U \in SUBSET Tables /\ \A b \in U : key[b] = path[b]
  BY <1>2
<1>4. Keys(U, key)
  <2>1. \A a, b \in U : path[a] = path[b] => a = b
    OBVIOUS
  <2> QED
    BY <1>1, <1>3, <2>1 DEF Keys
<1>5. IsFiniteSet(U)
  BY <1>3, TablesFinite
<1>6. Lists(s, U) /\ InOrder(s, key)
  BY <1>4, <1>5, SortedLists
<1> HIDE DEF s
<1>7. /\ Len(s) \in Nat /\ \A i \in 1..Len(s) : s[i] \in U
      /\ \A a \in U : \E i \in 1..Len(s) : s[i] = a
  BY <1>6, OnceFacts DEF Lists
<1>8. 1 \in 1..Len(s) /\ s[1] \in U
  BY <1>3, <1>7
<1>9. ASSUME NEW o \in T \ {s[1]}
      PROVE  PathBefore(path[s[1]], path[o])
  <2>1. CASE Len(path[o]) = l
    <3>1. PICK i \in 1..Len(s) : s[i] = o
      BY <1>7, <2>1
    <3>2. 1 < i
      BY <1>7, <1>8, <3>1
    <3>3. KeyBefore(key[s[1]], key[o])
      BY <1>6, <1>8, <3>1, <3>2 DEF InOrder
    <3> QED
      BY <1>3, <1>8, <2>1, <3>3 DEF PathBefore
  <2>2. CASE Len(path[o]) # l
    <3>1. l <= Len(path[o]) /\ Len(path[o]) \in Nat /\ l \in Nat
      BY <1>1, <1>2
    <3>2. l < Len(path[o])
      BY <2>2, <3>1
    <3>3. Len(path[s[1]]) = l
      BY <1>8
    <3> QED
      BY <3>2, <3>3 DEF PathBefore
  <2> QED
    BY <2>1, <2>2
<1> QED
  BY <1>8, <1>9 DEF Best

(* What a candidate brings along: tables of a way from it to the           *)
(* selection, that are not selected yet (_select_table_ids).               *)
LEMMA AdditionsFacts ==
    ASSUME N \in Nat, NEW E, NEW S \in SUBSET Tables, Stays(E, Tables, S),
           NEW K \in SUBSET S, NEW c \in S \ K,
           NEW more, more = Additions(E, K, c),
           NEW path, path = Paths(E, c, Tables)
    PROVE  /\ more \in SUBSET (S \ K) /\ c \in more
           /\ \A t \in more \ {c} :
                 \E b \in (K \cap DOMAIN path) \ {t} : t \in ToSet(path[b])
<1> DEFINE ends == K \cap DOMAIN path
           best == CHOOSE b \in ends : \A o \in ends \ {b} :
                      PathBefore(path[b], path[o])
<1>1. more = IF K = {} \/ ends = {} THEN {c} ELSE ToSet(path[best]) \ K
  BY DEF Additions
<1>2. CASE K = {} \/ ends = {}
  BY <1>1, <1>2
<1>3. CASE K # {} /\ ends # {}
  <2>1. Reaches(E, Tables, S, c, path)
    BY PathsFound
  <2>2. \A b \in ends : /\ Way(E, S, path[b]) /\ path[b][1] = c
                        /\ path[b][Len(path[b])] = b
    BY <2>1 DEF Reaches
  <2>3. ends \in SUBSET Tables
    OBVIOUS
  <2> HIDE DEF ends
  <2>a. WaysTo(E, S, ends, path)
    BY <2>2 DEF WaysTo
  <2>b. \E b : Best(ends, path, b)
    BY <1>3, <2>3, <2>a, BestWay
  <2>4. \E b \in ends : \A o \in ends \ {b} : PathBefore(path[b], path[o])
    BY <2>b DEF Best
  <2>5. best \in ends
    BY <2>4
  <2> HIDE DEF best
  <2>6. /\ ToSet(path[best]) \subseteq S /\ c \in ToSet(path[best])
        /\ more = ToSet(path[best]) \ K
    BY <1>1, <1>3, <2>2, <2>5, WayTables
  <2>7. best \in K \cap DOMAIN path
    BY <2>5 DEF ends
  <2> QED
    BY <2>6, <2>7
<1> QED
  BY <1>2, <1>3

(* A round of the selection selects its candidate and does not exceed the  *)
(* budget.                                                                 *)
LEMMA ChosenAfterFacts ==
    ASSUME N \in Nat, NEW E, NEW S \in SUBSET Tables, Stays(E, Tables, S),
           NEW K \in SUBSET S, NEW c \in S, NEW k \in Nat,
           Cardinality(K) <= k, Cardinality(K) # k,
           NEW L, L = ChosenAfter(E, K, c, k),
           NEW path, path = Paths(E, c, Tables)
    PROVE  /\ L \in SUBSET S /\ K \subseteq L /\ c \in L
           /\ Cardinality(L) <= k
           /\ \A t \in L \ K : t = c \/
                 \E b \in (K \cap DOMAIN path) \ {t} : t \in ToSet(path[b])
<1> DEFINE more == Additions(E, K, c)
<1>1. IsFiniteSet(K) /\ Cardinality(K) \in Nat
  BY TablesFinite
<1>2. CASE c \in K
  BY <1>2 DEF ChosenAfter
<1>3. CASE c \notin K
  <2>1. /\ more \in SUBSET (S \ K) /\ c \in more
        /\ \A t \in more \ {c} :
              \E b \in (K \cap DOMAIN path) \ {t} : t \in ToSet(path[b])
    BY <1>3, AdditionsFacts
  <2>2. IsFiniteSet(more) /\ Cardinality(more) \in Nat
    BY <2>1, TablesFinite
  <2>3. L = IF Cardinality(K) + Cardinality(more) <= k THEN K \cup more
            ELSE IF Cardinality(K) < k THEN K \cup {c} ELSE K
    BY <1>3 DEF ChosenAfter
  <2> HIDE DEF more
  <2>4. CASE Cardinality(K) + Cardinality(more) <= k
    <3>1. L = K \cup more
      BY <2>3, <2>4
    <3>2. Cardinality(K \cup more) <= Cardinality(K) + Cardinality(more)
      <4>1. K \cap more = {}
        BY <2>1
      <4>2. Cardinality(K \cap more) = 0
        BY <4>1, FS_EmptySet
      <4>3. Cardinality(K \cup more) = Cardinality(K) + Cardinality(more)
                                          - Cardinality(K \cap more)
        BY <1>1, <2>2, FS_Union
      <4> QED
        BY <1>1, <2>2, <4>2, <4>3
    <3>3. L \in SUBSET S
      BY <2>1, <3>1
    <3>4. Cardinality(L) \in Nat
      BY <3>3, TablesFinite
    <3>5. Cardinality(L) <= k
      BY <1>1, <2>2, <2>4, <3>1, <3>2, <3>4
    <3> QED
      BY <2>1, <3>1, <3>3, <3>5
  <2>5. CASE ~(Cardinality(K) + Cardinality(more) <= k)
    <3>1. L = K \cup {c}
      BY <1>1, <2>3, <2>5
    <3>2. Cardinality(L) = Cardinality(K) + 1
      BY <1>1, <1>3, <3>1, FS_AddElement
    <3>3. Cardinality(L) <= k
      BY <1>1, <3>2
    <3> QED
      BY <3>1, <3>3
  <2> QED
    BY <2>4, <2>5
<1> QED
  BY <1>2, <1>3

(* Distances are natural numbers.                                          *)
LEMMA DistancesFacts ==
    ASSUME N \in Nat, NEW E, NEW A \in SUBSET Tables,
           NEW far, far = Distances(E, A)
    PROVE  /\ DOMAIN far \subseteq Tables
           /\ \A b \in DOMAIN far : far[b] \in Nat
<1> DEFINE path == Search(E, A, Tables)
<1>1. Found(E, A, Tables, path)
  BY SearchFinds
<1>2. far = [b \in DOMAIN path |-> Len(path[b]) - 1]
  BY DEF Distances
<1> HIDE DEF path
<1>3. ASSUME NEW b \in DOMAIN path
      PROVE  far[b] \in Nat
  <2>1. Way(E, DOMAIN path, path[b])
    BY <1>1 DEF Found
  <2>2. Len(path[b]) \in Nat \ {0}
    BY <2>1, WayTables
  <2> QED
    BY <1>2, <2>2
<1> QED
  BY <1>1, <1>2, <1>3 DEF Found

(* And so is the length of the shortest way through a table.               *)
LEMMA PathEdgesFacts ==
    ASSUME N \in Nat, NEW E, NEW D, NEW c \in Tables
    PROVE  PathEdges(E, D, c) \in Int
<1> DEFINE far == Distances(E, {c})
           through == {far[p[1]] + far[p[2]] : p \in
                         {q \in (D \cap DOMAIN far) \X (D \cap DOMAIN far) :
                            q[1] < q[2]}}
<1>1. PathEdges(E, D, c) = IF through = {} THEN 2 * N ELSE Min(through)
  BY DEF PathEdges
<1>2. \A b \in DOMAIN far : far[b] \in Nat
  <2>1. {c} \in SUBSET Tables
    OBVIOUS
  <2> HIDE DEF far
  <2>2. far = Distances(E, {c})
    BY DEF far
  <2> QED
    BY <2>1, <2>2, DistancesFacts
<1> HIDE DEF far
<1>3. through \in SUBSET Nat
  BY <1>2
<1> HIDE DEF through
<1>4. through # {} => Min(through) \in through
  <2> SUFFICES ASSUME through # {}
               PROVE  Min(through) \in through
    OBVIOUS
  <2>1. \E n \in through : \A m \in through : n <= m
    BY <1>3, LeastNumber
  <2> QED
    BY <2>1 DEF Min
<1>5. CASE through = {}
  BY <1>1, <1>5
<1>6. CASE through # {}
  <2>1. Min(through) \in Nat
    BY <1>3, <1>4, <1>6
  <2> QED
    BY <1>1, <1>6, <2>1
<1> QED
  BY <1>5, <1>6

(* The paths of the selected tables join what the keys between them join   *)
(* (_join_paths).                                                          *)
LEMMA JoinPathsFacts ==
    ASSUME N \in Nat, keys \in SUBSET Pairs, allowed \in SUBSET Tables,
           NEW T \in SUBSET allowed, NEW paths, paths = JoinPaths(Visible, T)
    PROVE  WellJoined(T, paths) /\ \A p \in paths : ToSet(p) \subseteq allowed
<1> DEFINE E == Visible
           path(a) == Paths(E, a, T)
<1>1. T \in SUBSET Tables /\ Stays(E, T, T)
  BY DEF Stays
<1>2. \A a \in T : Reaches(E, T, T, a, path(a))
  BY <1>1, PathsFound
<1>3. \A e : e \in E /\ e \subseteq T <=> e \in keys /\ e \subseteq T
  BY DEF Visible
<1>4. ASSUME NEW a \in T, NEW b \in T
      PROVE  <<a, b>> \in Connected(T) <=> b \in DOMAIN path(a)
  <2> HIDE DEF E
  <2> QED
    BY <1>1, <1>3, ConnectedFound
<1>5. paths = UNION {{path(a)[b] : b \in {d \in DOMAIN path(a) : a < d}} :
                     a \in T}
  BY DEF JoinPaths
<1> HIDE DEF E, path
<1>6. ASSUME NEW a \in T, NEW b \in DOMAIN path(a)
      PROVE  /\ b \in T /\ Way(E, T, path(a)[b])
             /\ path(a)[b][1] = a /\ path(a)[b][Len(path(a)[b])] = b
  BY <1>2 DEF Reaches
<1>7. \A p : p \in paths <=>
         \E a \in T : \E b \in DOMAIN path(a) : a < b /\ p = path(a)[b]
  BY <1>5
<1>8. ASSUME NEW p \in paths
      PROVE  /\ ToSet(p) \subseteq T /\ IsInjective(p)
             /\ \A j \in 1 .. Len(p) - 1 : {p[j], p[j + 1]} \in keys
             /\ ToSet(p) \subseteq allowed
  <2>1w. PICK a \in T : \E b \in DOMAIN path(a) : p = path(a)[b]
    BY <1>7
  <2>1. PICK b \in DOMAIN path(a) : p = path(a)[b]
    BY <2>1w
  <2>2. Way(E, T, p)
    BY <1>6, <2>1
  <2>3. /\ ToSet(p) \subseteq T /\ IsInjective(p)
        /\ \A j \in 1 .. Len(p) - 1 : {p[j], p[j + 1]} \in E
    BY <2>2, WayTables
  <2> QED
    BY <2>3 DEF E, Visible
<1>9. ASSUME NEW p \in paths, NEW q \in paths, p[1] = q[1],
             {q[Len(q)], p[Len(p)]} \in keys
      PROVE  Len(p) <= Len(q) + 1
  <2>1w. PICK a \in T : \E b \in DOMAIN path(a) : p = path(a)[b]
    BY <1>7
  <2>1. PICK b \in DOMAIN path(a) : p = path(a)[b]
    BY <2>1w
  <2>2w. PICK c \in T : \E d \in DOMAIN path(c) : q = path(c)[d]
    BY <1>7
  <2>2. PICK d \in DOMAIN path(c) : q = path(c)[d]
    BY <2>2w
  <2>3. /\ b \in T /\ p[1] = a /\ p[Len(p)] = b
        /\ d \in T /\ q[1] = c /\ q[Len(q)] = d
    BY <1>6, <2>1, <2>2
  <2>4. a = c /\ {d, b} \in keys
    BY <1>9, <2>3
  <2>5. {d, b} \in E
    BY <2>3, <2>4 DEF E, Visible
  <2>6. Near(E, T, path(a))
    BY <1>2 DEF Reaches
  <2>7. d \in DOMAIN path(a) /\ q = path(a)[d]
    BY <2>2, <2>4
  <2> QED
    BY <2>1, <2>3, <2>5, <2>6, <2>7 DEF Near
<1>10. ASSUME NEW a \in T, NEW b \in T, a < b
       PROVE  <<a, b>> \in Connected(T) <=>
                 Cardinality({p \in paths : p[1] = a /\ p[Len(p)] = b}) = 1
  <2> DEFINE these == {p \in paths : p[1] = a /\ p[Len(p)] = b}
  <2>1. CASE b \in DOMAIN path(a)
    <3>1. path(a)[b] \in these
      BY <1>6, <1>7, <1>10, <2>1
    <3>2. ASSUME NEW p \in these
          PROVE  p = path(a)[b]
      <4>1w. PICK c \in T : \E d \in DOMAIN path(c) : p = path(c)[d]
        BY <1>7
      <4>1. PICK d \in DOMAIN path(c) : p = path(c)[d]
        BY <4>1w
      <4>2. p[1] = c /\ p[Len(p)] = d
        BY <1>6, <4>1
      <4> QED
        BY <4>1, <4>2
    <3>3. these = {path(a)[b]}
      BY <3>1, <3>2
    <3>4. Cardinality(these) = 1
      BY <3>3, FS_Singleton
    <3> QED
      BY <1>4, <2>1, <3>4
  <2>2. CASE b \notin DOMAIN path(a)
    <3>1. these = {}
      <4> SUFFICES ASSUME NEW p \in these
                   PROVE  FALSE
        OBVIOUS
      <4>1w. PICK c \in T : \E d \in DOMAIN path(c) : p = path(c)[d]
        BY <1>7
      <4>1. PICK d \in DOMAIN path(c) : p = path(c)[d]
        BY <4>1w
      <4>2. p[1] = c /\ p[Len(p)] = d
        BY <1>6, <4>1
      <4> QED
        BY <2>2, <4>1, <4>2
    <3>2. Cardinality(these) = 0
      BY <3>1, FS_EmptySet
    <3> QED
      BY <1>4, <2>2, <3>2
  <2> QED
    BY <2>1, <2>2
<1> QED
  BY <1>8, <1>9, <1>10 DEF WellJoined

-----------------------------------------------------------------------------
(* Contributions and fusion                                                *)

(* The common denominator of the contributions exists, is positive and is  *)
(* a multiple of each of their denominators.                               *)
LEMMA ScaleDivides ==
    ASSUME N \in Nat, RRF_K \in Nat \ {0}
    PROVE  \A m \in 1..N : \E q \in Nat \ {0} : Scale = q * (RRF_K + m)
<1> DEFINE Is(g, n) == g = [i \in 0..n |-> IF i = 0 THEN 1
                                           ELSE g[i - 1] * (RRF_K + i)]
           Right(n, v) == /\ v \in Nat \ {0}
                         /\ \A m \in 1..n : \E q \in Nat \ {0} :
                               v = q * (RRF_K + m)
           Bad == {n \in Nat : ~\E g : Is(g, n)}
<1>1. Scale = (CHOOSE g : Is(g, N))[N]
  BY DEF Scale
<1>2. Bad = {}
  <2> SUFFICES ASSUME Bad # {}
               PROVE  FALSE
    OBVIOUS
  <2>1. PICK n \in Bad : \A m \in Bad : n <= m
    BY LeastNumber
  <2>2. CASE n = 0
    <3> DEFINE h == [i \in 0..0 |-> 1]
    <3>1. Is(h, 0)
      OBVIOUS
    <3> QED
      BY <2>1, <2>2, <3>1
  <2>3. CASE n # 0
    <3>1. n \in Nat /\ n - 1 \in Nat /\ n - 1 < n
      BY <2>3
    <3>2. PICK g : Is(g, n - 1)
      <4>1. n - 1 \notin Bad
        <5>1. ~(n <= n - 1)
          BY <3>1
        <5> HIDE DEF Bad
        <5> QED
          BY <2>1, <5>1
      <4> HIDE DEF Is
      <4> QED
        BY <3>1, <4>1
    <3> DEFINE h == [i \in 0..n |-> IF i = n THEN g[n - 1] * (RRF_K + n)
                                    ELSE g[i]]
    <3>3. ASSUME NEW i \in 0..n
          PROVE  h[i] = IF i = 0 THEN 1 ELSE h[i - 1] * (RRF_K + i)
      <4>1. CASE i = 0
        <5>1. g[0] = 1
          BY <3>1, <3>2
        <5> QED
          BY <2>3, <3>1, <4>1, <5>1
      <4>2. CASE i # 0 /\ i # n
        <5>1. i \in 0..n - 1 /\ i - 1 \in 0..n /\ i - 1 # n
          BY <3>1, <4>2
        <5>2. g[i] = g[i - 1] * (RRF_K + i)
          BY <3>2, <4>2, <5>1
        <5>3. h[i] = g[i] /\ h[i - 1] = g[i - 1]
          BY <4>2, <5>1
        <5> QED
          BY <4>2, <5>2, <5>3
      <4>3. CASE i # 0 /\ i = n
        <5>1. n - 1 \in 0..n /\ n - 1 # n
          BY <3>1
        <5>2. h[i] = g[n - 1] * (RRF_K + n) /\ h[n - 1] = g[n - 1]
          BY <4>3, <5>1
        <5> QED
          BY <4>3, <5>2
      <4> QED
        BY <4>1, <4>2, <4>3
    <3>4. Is(h, n)
      <4>1. h = [i \in 0..n |-> h[i]]
        OBVIOUS
      <4> HIDE DEF h
      <4> QED
        BY <3>3, <4>1
    <3> QED
      BY <2>1, <3>1, <3>4
  <2> QED
    BY <2>2, <2>3
<1> DEFINE p == CHOOSE g : Is(g, N)
<1>3. Is(p, N)
  <2>1. \E g : Is(g, N)
    BY <1>2
  <2> HIDE DEF Is
  <2> QED
    BY <2>1
<1>4. p[0] = 1 /\ \A i \in 1..N : p[i] = p[i - 1] * (RRF_K + i)
  <2> HIDE DEF p
  <2>1. p[0] = 1
    BY <1>3
  <2>2. ASSUME NEW i \in 1..N
        PROVE  p[i] = p[i - 1] * (RRF_K + i)
    <3>1. i \in 0..N /\ i # 0
      OBVIOUS
    <3> QED
      BY <1>3, <3>1
  <2> QED
    BY <2>1, <2>2
<1> HIDE DEF p
<1> DEFINE Off == {n \in 0..N : ~Right(n, p[n])}
<1>5. Off = {}
  <2> SUFFICES ASSUME Off # {}
               PROVE  FALSE
    OBVIOUS
  <2>1. PICK n \in Off : \A m \in Off : n <= m
    <3>1. Off \in SUBSET Nat
      OBVIOUS
    <3> HIDE DEF Off
    <3> QED
      BY <3>1, LeastNumber
  <2>2. n \in 0..N /\ ~Right(n, p[n])
    BY <2>1
  <2>3. n # 0
    BY <1>4, <2>2
  <2>4. n - 1 \in 0..N /\ n \in 1..N /\ n \in Nat
    BY <2>2, <2>3
  <2>5. Right(n - 1, p[n - 1])
    <3>1. ~(n <= n - 1)
      BY <2>4
    <3>2. n - 1 \notin Off
      BY <2>1, <3>1
    <3> QED
      BY <2>4, <3>2
  <2> DEFINE v == p[n - 1]
             k == RRF_K + n
  <2>6. p[n] = v * k /\ v \in Nat \ {0} /\ k \in Nat \ {0}
    BY <1>4, <2>4, <2>5
  <2>7. v * k \in Nat \ {0}
    <3> HIDE DEF v, k
    <3>1. \A x, y \in Nat \ {0} : x * y \in Nat \ {0}
      OBVIOUS
    <3> QED
      BY <2>6, <3>1
  <2>8. ASSUME NEW m \in 1..n
        PROVE  \E q \in Nat \ {0} : p[n] = q * (RRF_K + m)
    <3>1. CASE m = n
      BY <2>6, <3>1
    <3>2. CASE m # n
      <4>1. m \in 1..n - 1
        BY <2>4, <3>2
      <4>2. PICK q \in Nat \ {0} : v = q * (RRF_K + m)
        BY <2>5, <4>1
      <4> DEFINE l == RRF_K + m
      <4>3. l \in Nat
        BY <2>4
      <4>4. v = q * l
        BY <4>2
      <4> HIDE DEF v, k, l
      <4>5. (q * l) * k = (q * k) * l /\ q * k \in Nat \ {0}
        <5>1. \A x, y \in Nat \ {0} : x * y \in Nat \ {0}
          OBVIOUS
        <5>2. \A x, y, z \in Nat : (x * y) * z = (x * z) * y
          OBVIOUS
        <5> QED
          BY <2>6, <4>3, <5>1, <5>2
      <4>6. p[n] = (q * k) * l
        BY <2>6, <4>4, <4>5
      <4> QED
        BY <4>5, <4>6 DEF l
    <3> QED
      BY <3>1, <3>2
  <2>9. Right(n, p[n])
    BY <2>6, <2>7, <2>8
  <2> QED
    BY <2>2, <2>9
<1>6. Right(N, p[N])
  <2>1. N \in 0..N
    OBVIOUS
  <2> HIDE DEF Right
  <2> QED
    BY <1>5, <2>1
<1>7. Scale = p[N]
  BY <1>1 DEF p
<1> QED
  BY <1>6, <1>7

(* A table of a list contributes a positive number, more the earlier it    *)
(* comes; the others contribute nothing.                                   *)
LEMMA ContributionFacts ==
    ASSUME N \in Nat, RRF_K \in Nat \ {0}, NEW s, Once(s, Tables)
    PROVE  /\ \A t : Contribution(s, t) \in Nat
           /\ \A t : t \notin ToSet(s) => Contribution(s, t) = 0
           /\ \A a, b \in ToSet(s) : RankIn(s, a) < RankIn(s, b) =>
                 Contribution(s, a) > Contribution(s, b)
<1>1. Len(s) \in 0..N
  <2>1. /\ IsFiniteSet(ToSet(s)) /\ Cardinality(ToSet(s)) = Len(s)
        /\ ToSet(s) \in SUBSET Tables
    BY OnceFacts
  <2> QED
    BY <2>1, TablesFinite
<1>2. \A t \in ToSet(s) : RankIn(s, t) \in 1..N
  BY <1>1, OnceFacts
<1>3. ASSUME NEW t, t \in ToSet(s)
      PROVE  \E q \in Nat \ {0} : /\ Contribution(s, t) = q
                                  /\ Scale = q * (RRF_K + RankIn(s, t))
  <2> DEFINE m == RankIn(s, t)
  <2>1. m \in 1..N
    BY <1>2, <1>3
  <2>2. PICK q \in Nat \ {0} : Scale = q * (RRF_K + m)
    BY <2>1, ScaleDivides
  <2>3. Contribution(s, t) = Scale \div (RRF_K + m)
    BY <1>3 DEF Contribution
  <2> DEFINE d == RRF_K + m
  <2>4. d \in Nat \ {0}
    BY <2>1
  <2> HIDE DEF d
  <2>5. \A x, y \in Nat \ {0} : (x * y) \div y = x
    OBVIOUS
  <2>6. (q * d) \div d = q
    BY <2>4, <2>5
  <2> QED
    BY <2>2, <2>3, <2>6 DEF d
<1>4. ASSUME NEW a \in ToSet(s), NEW b \in ToSet(s),
             RankIn(s, a) < RankIn(s, b)
      PROVE  Contribution(s, a) > Contribution(s, b)
  <2>1. PICK q \in Nat \ {0} : /\ Contribution(s, a) = q
                               /\ Scale = q * (RRF_K + RankIn(s, a))
    BY <1>3
  <2>2. PICK r \in Nat \ {0} : /\ Contribution(s, b) = r
                               /\ Scale = r * (RRF_K + RankIn(s, b))
    BY <1>3
  <2>3. \A x, y, m, n \in Nat \ {0} : x * m = y * n /\ m < n => x > y
    OBVIOUS
  <2> DEFINE m == RRF_K + RankIn(s, a)
             n == RRF_K + RankIn(s, b)
  <2>4. m \in Nat \ {0} /\ n \in Nat \ {0} /\ m < n
    BY <1>2, <1>4
  <2>5. q * m = r * n
    BY <2>1, <2>2
  <2> HIDE DEF m, n
  <2>6. q > r
    BY <2>3, <2>4, <2>5
  <2> QED
    BY <2>1, <2>2, <2>6
<1>5. \A t : t \notin ToSet(s) => Contribution(s, t) = 0
  BY DEF Contribution
<1>6. ASSUME NEW t
      PROVE  Contribution(s, t) \in Nat
  BY <1>3, <1>5
<1> QED
  BY <1>4, <1>5, <1>6

\* The constants, and the snapshot, the scope and the scores of a request.
Given ==
    /\ LinkingAssumption /\ GraphAssumption
    /\ keys \in SUBSET Pairs /\ allowed \in SUBSET Tables
    /\ score \in [Tables -> 0 .. MaxScore]

(* A list of allowed tables is one of tables, and there are finitely many. *)
LEMMA ScopeFacts ==
    ASSUME Given
    PROVE  /\ N \in Nat /\ RRF_K \in Nat \ {0} /\ CandidateLimit \in Nat \ {0}
           /\ IsFiniteSet(allowed) /\ Cardinality(allowed) \in Nat
           /\ \A S \in SUBSET allowed :
                 IsFiniteSet(S) /\ Cardinality(S) \in Nat
           /\ \A s : Once(s, allowed) => Once(s, Tables)
           /\ \A t \in allowed : t \in Int /\ t \in Tables
           /\ keys \in SUBSET Pairs /\ allowed \in SUBSET Tables
           /\ Stays(Visible, Tables, allowed)
<1>1. N \in Nat /\ allowed \in SUBSET Tables
  BY DEF Given, GraphAssumption
<1>2. /\ \A S \in SUBSET allowed :
            IsFiniteSet(S) /\ Cardinality(S) \in Nat
      /\ \A t \in allowed : t \in Int
  BY <1>1, TablesFinite
<1>3. ASSUME NEW s, Once(s, allowed)
      PROVE  Once(s, Tables)
  <2>1. ToSet(s) \subseteq allowed
    BY <1>3, OnceFacts
  <2> QED
    BY <1>1, <1>3, <2>1, OnceInside
<1>4. Stays(Visible, Tables, allowed)
  BY DEF Stays, Visible
<1> QED
  BY <1>1, <1>2, <1>3, <1>4 DEF Given, LinkingAssumption

(* In a sorted list what has the smaller key has the smaller rank.         *)
LEMMA RanksFollow ==
    ASSUME NEW S, NEW key, Keys(S, key), NEW f, Lists(f, S), InOrder(f, key),
           NEW a \in S, NEW b \in S, KeyBefore(key[a], key[b])
    PROVE  RankIn(f, a) < RankIn(f, b)
<1> DEFINE i == RankIn(f, a)
           j == RankIn(f, b)
<1>1. Once(f, S) /\ ToSet(f) = S
  BY ListsFacts
<1>2. i \in 1..Len(f) /\ f[i] = a /\ j \in 1..Len(f) /\ f[j] = b
      /\ Len(f) \in Nat
  BY <1>1, OnceFacts
<1> HIDE DEF i, j
<1>3. a # b
  BY KeyIrreflexive DEF Keys
<1>4. ~(j < i)
  <2> SUFFICES ASSUME j < i
               PROVE  FALSE
    OBVIOUS
  <2>1. KeyBefore(key[b], key[a])
    BY <1>2 DEF InOrder
  <2> QED
    BY <2>1, KeysOrder
<1> QED
  BY <1>2, <1>3, <1>4 DEF i, j

\* What r lists has smaller and smaller scores.
Falling(u, v, r) ==
    \A i, j \in 1..Len(r) : i < j =>
        FusionScore(u, v, r[i]) > FusionScore(u, v, r[j])

(* The fused ranking lists what the two channels found; a table with a     *)
(* larger score is earlier (reciprocal_rank_fusion).                       *)
LEMMA FusedFacts ==
    ASSUME Given, NEW u, Once(u, allowed), NEW v, Once(v, allowed),
           NEW f, f = Fused(u, v)
    PROVE  /\ Lists(f, ToSet(u) \cup ToSet(v)) /\ Once(f, allowed)
           /\ \A a, b \in ToSet(f) :
                 FusionScore(u, v, a) > FusionScore(u, v, b)
                    => RankIn(f, a) < RankIn(f, b)
           /\ \A r : Lists(r, ToSet(u) \cup ToSet(v)) /\ Falling(u, v, r)
                        => r = f
<1> DEFINE both == ToSet(u) \cup ToSet(v)
           key == [t \in both |-> <<-FusionScore(u, v, t), t>>]
<1>1. \A t : FusionScore(u, v, t) \in Int
  <2>1. /\ \A t : Contribution(u, t) \in Nat
        /\ \A t : Contribution(v, t) \in Nat
    BY ScopeFacts, ContributionFacts
  <2> QED
    BY <2>1 DEF FusionScore
<1>2. both \in SUBSET allowed
  BY OnceFacts
<1>3. f = ByKey(both, key)
  BY DEF Fused
<1> DEFINE sc(t) == FusionScore(u, v, t)
<1>4. ASSUME NEW t \in both
      PROVE  /\ key[t] \in Seq(Int) /\ Len(key[t]) = 2
             /\ key[t][1] = -sc(t) /\ key[t][2] = t
  <2>1. t \in Int /\ -sc(t) \in Int
    BY <1>1, <1>2, ScopeFacts
  <2> HIDE DEF sc, both
  <2>2. key[t] = <<-sc(t), t>>
    BY DEF sc
  <2> QED
    BY <2>1, <2>2
<1>5. ASSUME NEW a \in both, NEW b \in both, sc(a) > sc(b)
      PROVE  KeyBefore(key[a], key[b])
  <2>1. 1 \in DOMAIN key[a] /\ key[a][1] < key[b][1]
    BY <1>1, <1>4, <1>5
  <2>2. \A j \in 1..1 - 1 : key[a][j] = key[b][j]
    OBVIOUS
  <2> HIDE DEF key
  <2> QED
    BY <2>1, <2>2 DEF KeyBefore
<1> HIDE DEF both, key, sc
<1>6. Keys(both, key)
  BY <1>4 DEF Keys
<1>7. IsFiniteSet(both)
  BY <1>2, ScopeFacts
<1>8. Lists(f, both) /\ InOrder(f, key)
  BY <1>3, <1>6, <1>7, SortedLists
<1>9. Once(f, both) /\ ToSet(f) = both
  BY <1>8, ListsFacts
<1>10. Once(f, allowed)
  BY <1>2, <1>9, OnceInside
<1>11. ASSUME NEW a \in both, NEW b \in both, sc(a) > sc(b)
       PROVE  RankIn(f, a) < RankIn(f, b)
  <2>1. KeyBefore(key[a], key[b])
    BY <1>5, <1>11
  <2> QED
    BY <1>6, <1>8, <2>1, RanksFollow
<1>12. ASSUME NEW r, Lists(r, both), Falling(u, v, r)
       PROVE  r = f
  <2>1. \A i \in 1..Len(r) : r[i] \in both
    BY <1>12, ListsFacts, OnceFacts
  <2>2. InOrder(r, key)
    BY <1>5, <1>12, <2>1 DEF InOrder, Falling, sc
  <2> QED
    BY <1>3, <1>6, <1>12, <2>2, SortedOnce
<1> QED
  BY <1>8, <1>9, <1>10, <1>11, <1>12 DEF both, sc

(* The lexical ranking lists the allowed tables, those with a score first  *)
(* (lexical_ranked_table_ids).                                             *)
LEMMA RankedFacts ==
    ASSUME Given, NEW s, \A t \in allowed : s[t] \in Nat,
           NEW r, r = RankedBy(s)
    PROVE  /\ Lists(r, allowed)
           /\ \A a \in PositiveIn(s), b \in allowed \ PositiveIn(s) :
                 RankIn(r, a) < RankIn(r, b)
<1> DEFINE found == PositiveIn(s)
           far == Distances(Visible, found)
           key == [t \in allowed |->
                     IF t \in found THEN <<0, -s[t], t>>
                     ELSE IF t \in DOMAIN far THEN <<1, far[t], t>>
                     ELSE <<2, 0, t>>]
<1>1. r = ByKey(allowed, key)
  BY DEF RankedBy
<1>2. \A t \in DOMAIN far : far[t] \in Int
  <2>1. N \in Nat /\ found \in SUBSET Tables
    BY ScopeFacts DEF PositiveIn
  <2> HIDE DEF found
  <2>2. \A t \in DOMAIN far : far[t] \in Nat
    BY <2>1, DistancesFacts
  <2> QED
    BY <2>2
<1>3. \A t \in allowed : t \in Int /\ -s[t] \in Int
  BY ScopeFacts
<1> HIDE DEF found, far
<1>4. ASSUME NEW t \in allowed
      PROVE  /\ key[t] \in Seq(Int) /\ Len(key[t]) = 3 /\ key[t][3] = t
             /\ key[t][1] \in {0, 1, 2} /\ (key[t][1] = 0 <=> t \in found)
  <2>1. t \in Int /\ -s[t] \in Int /\ (t \in DOMAIN far => far[t] \in Int)
    BY <1>2, <1>3
  <2>2. CASE t \in found
    <3>1. key[t] = <<0, -s[t], t>>
      BY <2>2
    <3> QED
      BY <2>1, <2>2, <3>1
  <2>3. CASE t \notin found /\ t \in DOMAIN far
    <3>1. key[t] = <<1, far[t], t>>
      BY <2>3
    <3> QED
      BY <2>1, <2>3, <3>1
  <2>4. CASE t \notin found /\ t \notin DOMAIN far
    <3>1. key[t] = <<2, 0, t>>
      BY <2>4
    <3> QED
      BY <2>1, <2>4, <3>1
  <2> QED
    BY <2>2, <2>3, <2>4
<1> HIDE DEF key
<1>5. Keys(allowed, key)
  BY <1>4 DEF Keys
<1>6. Lists(r, allowed) /\ InOrder(r, key)
  BY <1>1, <1>5, ScopeFacts, SortedLists
<1>7. ASSUME NEW a \in found, NEW b \in allowed \ found
      PROVE  RankIn(r, a) < RankIn(r, b)
  <2>1. a \in allowed
    BY DEF found, PositiveIn
  <2>2. 1 \in DOMAIN key[a] /\ key[a][1] < key[b][1]
    BY <1>4, <2>1
  <2>3. \A j \in 1..1 - 1 : key[a][j] = key[b][j]
    OBVIOUS
  <2>4. KeyBefore(key[a], key[b])
    BY <2>2, <2>3 DEF KeyBefore
  <2> QED
    BY <1>5, <1>6, <2>1, <2>4, RanksFollow
<1> QED
  BY <1>6, <1>7 DEF found

\* What s lists comes before the rest of U.
Leads(all, s, U) ==
    \A a \in ToSet(s), b \in U \ ToSet(s) : RankIn(all, a) < RankIn(all, b)

(* A list that another begins with is completed to it.                     *)
LEMMA RemainderOfPrefix ==
    ASSUME NEW U, NEW all, Lists(all, U), NEW s, Once(s, U),
           Rising(all, s), Leads(all, s, U)
    PROVE  WithRemainder(s, all) = all
<1> DEFINE w == WithRemainder(s, all)
           k == Kept(all, ToSet(all) \ ToSet(s))
<1>1. Once(all, U) /\ ToSet(all) = U
  BY ListsFacts
<1>2. Lists(w, U)
  BY WithRemainderFacts
<1>3. /\ Lists(k, ToSet(all) \cap (ToSet(all) \ ToSet(s)))
      /\ Rising(all, k)
  BY <1>1, KeptFacts
<1>4. w = s \o k
  BY DEF WithRemainder
<1> HIDE DEF w, k
<1>5. /\ Len(s) \in Nat /\ s \in Seq(U)
      /\ \A i \in 1..Len(s) : s[i] \in ToSet(s)
  BY OnceFacts DEF Once
<1>6. /\ Len(k) \in Nat /\ k \in Seq(U)
      /\ \A i \in 1..Len(k) : k[i] \in U \ ToSet(s)
  <2>1. Once(k, U \ ToSet(s)) /\ ToSet(k) = U \ ToSet(s)
    BY <1>1, <1>3, ListsFacts
  <2>2. Once(k, U)
    BY <2>1, OnceInside
  <2> QED
    BY <2>1, <2>2, OnceFacts DEF Once
<1>7. /\ Len(w) = Len(s) + Len(k)
      /\ \A i \in 1..Len(s) : w[i] = s[i]
      /\ \A i \in 1..Len(k) : w[Len(s) + i] = k[i]
  BY <1>4, <1>5, <1>6, Joined
<1>8. ASSUME NEW i \in 1..Len(w), NEW j \in 1..Len(w), i < j
      PROVE  RankIn(all, w[i]) < RankIn(all, w[j])
  <2>1. CASE j \in 1..Len(s)
    <3>1. i \in 1..Len(s)
      BY <1>5, <1>8, <2>1
    <3> QED
      BY <1>7, <1>8, <2>1, <3>1 DEF Rising
  <2>2. CASE j \notin 1..Len(s)
    <3> DEFINE m == j - Len(s)
    <3>1. m \in 1..Len(k) /\ j = Len(s) + m
      BY <1>5, <1>6, <1>7, <2>2
    <3> HIDE DEF m
    <3>2. w[j] = k[m]
      BY <1>7, <3>1
    <3>3. CASE i \in 1..Len(s)
      <4>1. w[i] \in ToSet(s) /\ w[j] \in U \ ToSet(s)
        BY <1>5, <1>6, <1>7, <3>1, <3>2, <3>3
      <4> QED
        BY <4>1 DEF Leads
    <3>4. CASE i \notin 1..Len(s)
      <4> DEFINE l == i - Len(s)
      <4>1. l \in 1..Len(k) /\ i = Len(s) + l
        BY <1>5, <1>6, <1>7, <3>4
      <4> HIDE DEF l
      <4>2. w[i] = k[l] /\ l < m
        BY <1>5, <1>7, <1>8, <3>1, <4>1
      <4> QED
        BY <1>3, <3>1, <3>2, <4>1, <4>2 DEF Rising
    <3> QED
      BY <3>3, <3>4
  <2> QED
    BY <2>1, <2>2
<1>9. ASSUME NEW i \in 1..Len(all), NEW j \in 1..Len(all), i < j
      PROVE  RankIn(all, all[i]) < RankIn(all, all[j])
  <2>1. RankIn(all, all[i]) = i /\ RankIn(all, all[j]) = j
    BY <1>1, OnceFacts
  <2> QED
    BY <1>9, <2>1
<1> DEFINE same == Kept(all, U)
<1>10. ToSet(all) \cap U = U
  BY <1>1
<1>11. Rising(all, w) /\ Rising(all, all)
  BY <1>8, <1>9 DEF Rising
<1> HIDE DEF same
<1>12. w = same /\ all = same
  <2>1. \A r : Lists(r, ToSet(all) \cap U) /\ Rising(all, r) => r = same
    BY <1>1, KeptFacts DEF same
  <2> QED
    BY <1>2, <1>10, <1>11, <2>1
<1> QED
  BY <1>12 DEF w

(* The lexical channel begins its ranking, and the fusion with nothing     *)
(* leaves it as it is.                                                     *)
LEMMA LexicalFacts ==
    ASSUME Given
    PROVE  /\ Lists(LexicalRanked, allowed) /\ Once(Lexical, allowed)
           /\ WithRemainder(Lexical, LexicalRanked) = LexicalRanked
           /\ Fused(Lexical, <<>>) = Lexical
<1> DEFINE all == LexicalRanked
           k == Kept(LexicalRanked, Positive)
           s == Lexical
<1>1. /\ Lists(all, allowed)
      /\ \A a \in Positive, b \in allowed \ Positive :
            RankIn(all, a) < RankIn(all, b)
  <2>1. \A t \in allowed : score[t] \in Nat
    <3>1. MaxScore \in Nat
      BY DEF Given, LinkingAssumption
    <3> QED
      BY <3>1 DEF Given
  <2>2. all = RankedBy(score)
    BY DEF LexicalRanked
  <2> HIDE DEF all
  <2>3. /\ Lists(all, allowed)
        /\ \A a \in PositiveIn(score), b \in allowed \ PositiveIn(score) :
              RankIn(all, a) < RankIn(all, b)
    BY <2>1, <2>2, RankedFacts
  <2> QED
    BY <2>3 DEF Positive
<1>2. Once(all, allowed) /\ ToSet(all) = allowed
  BY <1>1, ListsFacts
<1>3. Positive \subseteq allowed
  BY DEF Positive, PositiveIn
<1>4. Lists(k, Positive) /\ Rising(all, k)
  <2>1. Lists(k, ToSet(all) \cap Positive) /\ Rising(all, k)
    BY <1>2, KeptFacts
  <2>2. ToSet(all) \cap Positive = Positive
    BY <1>2, <1>3
  <2> QED
    BY <2>1, <2>2
<1>5. Once(k, Positive) /\ ToSet(k) = Positive /\ Len(k) \in Nat
  BY <1>4, ListsFacts, OnceFacts
<1>6. /\ Once(s, Positive)
      /\ Len(s) \in Nat /\ Len(s) <= Len(k)
      /\ Len(s) = Least(CandidateLimit, Len(k))
      /\ \A i \in 1..Len(s) : i \in 1..Len(k) /\ s[i] = k[i]
  <2>1. CandidateLimit \in Nat
    BY ScopeFacts
  <2>2. s = First(k, CandidateLimit)
    BY DEF Lexical
  <2> HIDE DEF s, k
  <2> QED
    BY <1>5, <2>1, <2>2, FirstFacts
<1> HIDE DEF s, k, all
<1>7. Once(s, allowed) /\ ToSet(s) \subseteq Positive
  <2>1. ToSet(s) \subseteq Positive
    BY <1>6, OnceFacts
  <2> QED
    BY <1>3, <1>6, <2>1, OnceInside
<1>8. Rising(all, s)
  BY <1>4, <1>6 DEF Rising
<1>9. Leads(all, s, allowed)
  <2> SUFFICES ASSUME NEW a \in ToSet(s), NEW b \in allowed \ ToSet(s)
               PROVE  RankIn(all, a) < RankIn(all, b)
    BY DEF Leads
  <2>1. CASE b \notin Positive
    BY <1>1, <1>7, <2>1
  <2>2. CASE b \in Positive
    <3>1. PICK i \in 1..Len(s) : s[i] = a
      BY <1>6, OnceFacts DEF Lists
    <3>2. PICK j \in 1..Len(k) : k[j] = b
      BY <1>4, <2>2 DEF Lists
    <3>3. j \notin 1..Len(s)
      <4>1. j \in 1..Len(s) => s[j] = b /\ s[j] \in ToSet(s)
        BY <1>6, <3>2, OnceFacts
      <4> QED
        BY <4>1
    <3>4. i \in 1..Len(k) /\ k[i] = a /\ i < j
      BY <1>5, <1>6, <3>1, <3>2, <3>3
    <3> QED
      BY <1>4, <3>2, <3>4 DEF Rising
  <2> QED
    BY <2>1, <2>2
<1>10. WithRemainder(s, all) = all
  BY <1>1, <1>7, <1>8, <1>9, RemainderOfPrefix
<1>11. Fused(s, <<>>) = s
  <2> DEFINE none == <<>>
             f == Fused(s, none)
  <2>1. Once(none, allowed) /\ Once(none, Tables) /\ ToSet(none) = {}
    BY DEF Once, ToSet
  <2> HIDE DEF none
  <2>2. \A r : Lists(r, ToSet(s) \cup ToSet(none)) /\ Falling(s, none, r)
                  => r = f
    BY <1>7, <2>1, FusedFacts
  <2>3. ToSet(s) \cup ToSet(none) = ToSet(s) /\ Lists(s, ToSet(s))
    BY <1>7, <2>1, OnceFacts
  <2>4. Falling(s, none, s)
    <3> SUFFICES ASSUME NEW i \in 1..Len(s), NEW j \in 1..Len(s), i < j
                 PROVE  FusionScore(s, none, s[i]) > FusionScore(s, none, s[j])
      BY DEF Falling
    <3>1. /\ RankIn(s, s[i]) = i /\ RankIn(s, s[j]) = j
          /\ s[i] \in ToSet(s) /\ s[j] \in ToSet(s)
      BY <1>7, OnceFacts
    <3>2. Once(s, Tables)
      BY <1>7, ScopeFacts
    <3>3. Contribution(s, s[i]) > Contribution(s, s[j])
      BY <3>1, <3>2, ScopeFacts, ContributionFacts
    <3>4. /\ Contribution(none, s[i]) = 0 /\ Contribution(none, s[j]) = 0
          /\ Contribution(s, s[i]) \in Nat /\ Contribution(s, s[j]) \in Nat
      BY <2>1, <3>2, ScopeFacts, ContributionFacts
    <3> QED
      BY <3>3, <3>4 DEF FusionScore
  <2>5. s = f
    BY <2>2, <2>3, <2>4
  <2> QED
    BY <2>5 DEF none
<1> QED
  BY <1>1, <1>7, <1>10, <1>11 DEF s, all

(* The embedding channel ranks allowed tables (rank_embedding_index).      *)
LEMMA EmbeddedFacts ==
    ASSUME Given, NEW s, \A t \in allowed : s[t] \in Nat,
           NEW r, r = Embedded(s)
    PROVE  Once(r, allowed)
<1> DEFINE S == PositiveIn(s)
           key == [t \in S |-> <<-s[t], t>>]
           all == ByKey(S, key)
<1>1. S \subseteq allowed /\ IsFiniteSet(S)
  BY ScopeFacts DEF PositiveIn
<1>2. r = First(all, CandidateLimit) /\ CandidateLimit \in Nat
  BY ScopeFacts DEF Embedded
<1> HIDE DEF S
<1>3. ASSUME NEW t \in S
      PROVE  key[t] \in Seq(Int) /\ Len(key[t]) = 2 /\ key[t][2] = t
  <2>1. t \in Int /\ -s[t] \in Int
    BY <1>1, ScopeFacts
  <2>2. key[t] = <<-s[t], t>>
    OBVIOUS
  <2> QED
    BY <2>1, <2>2
<1> HIDE DEF key
<1>4. Keys(S, key)
  BY <1>3 DEF Keys
<1>5. Once(all, S)
  BY <1>1, <1>4, SortedLists, ListsFacts
<1> HIDE DEF all
<1>6. Once(r, S)
  BY <1>2, <1>5, FirstFacts
<1> QED
  <2>1. ToSet(r) \subseteq allowed
    BY <1>1, <1>6, OnceFacts
  <2> QED
    BY <1>6, <2>1, OnceInside

-----------------------------------------------------------------------------
(* The pool                                                                *)

\* A pool before and after reranking.
Fusing(p) ==
    /\ p \in Pool
    /\ p.mode = "bm25_only" => p.embedding = <<>> /\ Lexical # <<>>
    /\ Once(p.embedding, allowed)
    /\ p.fused = Fused(Lexical, p.embedding)
    /\ p.ranked = WithRemainder(p.fused, LexicalRanked)

\* In s no table comes before one that others cannot be joined without,
\* unless it is such a table too.
BridgesFirst(s) ==
    \A i, j \in 1..Len(s) : i < j /\ s[j] \in Needed => s[i] \in Needed

Reranked(p) ==
    /\ Fusing(p) /\ Lists(p.reranked, allowed)
    /\ ~p.degraded => BridgesFirst(p.reranked)

(* What fusing gives: lists of allowed tables.                             *)
LEMMA FusingFacts ==
    ASSUME Given, NEW p, Fusing(p)
    PROVE  /\ Once(p.fused, allowed) /\ Lists(p.ranked, allowed)
           /\ ToSet(p.fused) = ToSet(Lexical) \cup ToSet(p.embedding)
           /\ p.mode = "bm25_only" => p.ranked = LexicalRanked
           /\ \A a \in ToSet(p.fused) : RankIn(p.ranked, a) = RankIn(p.fused, a)
<1>1. Once(Lexical, allowed) /\ Lists(LexicalRanked, allowed)
  BY LexicalFacts
<1>2. /\ Once(p.embedding, allowed) /\ p.fused = Fused(Lexical, p.embedding)
      /\ p.ranked = WithRemainder(p.fused, LexicalRanked)
  BY DEF Fusing
<1> DEFINE f == p.fused
           e == p.embedding
<1>3. Once(e, allowed) /\ f = Fused(Lexical, e)
  BY <1>2
<1> HIDE DEF f, e
<1>4. Lists(f, ToSet(Lexical) \cup ToSet(e)) /\ Once(f, allowed)
  BY <1>1, <1>3, FusedFacts
<1>5. ToSet(f) = ToSet(Lexical) \cup ToSet(e)
  BY <1>4, ListsFacts
<1> DEFINE w == p.ranked
<1>6. w = WithRemainder(f, LexicalRanked)
  BY <1>2 DEF f
<1> HIDE DEF w
<1>7. /\ Lists(w, allowed)
      /\ \A a \in ToSet(f) : RankIn(w, a) = RankIn(f, a)
  BY <1>1, <1>4, <1>6, WithRemainderFacts
<1>8. p.mode = "bm25_only" => w = LexicalRanked
  <2> SUFFICES ASSUME p.mode = "bm25_only"
               PROVE  w = LexicalRanked
    OBVIOUS
  <2>1. e = <<>>
    BY DEF Fusing, e
  <2>2. f = Lexical
    BY <1>3, <2>1, LexicalFacts
  <2> QED
    BY <1>6, <2>2, LexicalFacts
<1> QED
  BY <1>4, <1>5, <1>7, <1>8 DEF f, e, w

(* A new pool is one.                                                      *)
LEMMA FreshFacts ==
    ASSUME Given, NEW mode \in {"hybrid", "bm25_only"},
           NEW e, Once(e, allowed),
           mode = "bm25_only" => e = <<>> /\ Lexical # <<>>
    PROVE  Fusing(Fresh(mode, e))
<1> DEFINE f == Fused(Lexical, e)
           w == WithRemainder(f, LexicalRanked)
<1>1. Once(Lexical, allowed) /\ Lists(LexicalRanked, allowed)
  BY LexicalFacts
<1>2. Once(f, allowed)
  BY <1>1, FusedFacts
<1>3. Once(w, allowed)
  <2> HIDE DEF f
  <2>1. Lists(w, allowed)
    BY <1>1, <1>2, WithRemainderFacts
  <2> QED
    BY <2>1 DEF Lists
<1>4. Fresh(mode, e) = [mode |-> mode, embedding |-> e, fused |-> f,
                        ranked |-> w, degraded |-> FALSE,
                        evidence |-> <<>>, reranked |-> <<>>]
  BY DEF Fresh
<1> HIDE DEF f, w
<1>5. /\ e \in Seq(Tables) /\ f \in Seq(Tables) /\ w \in Seq(Tables)
      /\ <<>> \in Seq(Tables)
  <2>1. Once(e, Tables) /\ Once(f, Tables) /\ Once(w, Tables)
    BY <1>2, <1>3, ScopeFacts
  <2> QED
    BY <2>1 DEF Once
<1>6. Fresh(mode, e) \in Pool
  BY <1>4, <1>5 DEF Pool
<1> QED
  BY <1>4, <1>6 DEF Fusing, f, w

(* The bridges of the code (RequiredBridge) are the tables that two tables *)
(* with evidence cannot be joined without.                                 *)
LEMMA BridgesNeeded ==
    ASSUME Given, Direct \subseteq allowed, NEW c \in allowed
    PROVE  IsBridge(c) <=> c \in Needed
<1> DEFINE E == Visible
           V == Tables \ {c}
           S == allowed \ {c}
<1>1. N \in Nat /\ keys \in SUBSET Pairs /\ allowed \in SUBSET Tables
  BY ScopeFacts
<1>2. \A e : e \in E /\ e \subseteq Tables <=> e \in keys /\ e \subseteq allowed
  BY <1>1 DEF Visible
<1>3. \A e : e \in E /\ e \subseteq V <=> e \in keys /\ e \subseteq S
  BY <1>1 DEF Visible
<1>4. V \in SUBSET Tables /\ S \in SUBSET V
  BY <1>1
<1> HIDE DEF E, V, S
<1>5. ASSUME NEW a \in allowed, NEW b \in allowed
      PROVE  <<a, b>> \in Connected(allowed)
             <=> b \in DOMAIN Paths(E, a, Tables)
  BY <1>1, <1>2, ConnectedFound
<1>6. ASSUME NEW a \in S, NEW b \in S
      PROVE  <<a, b>> \in Connected(S) <=> b \in DOMAIN Paths(E, a, V)
  BY <1>1, <1>3, <1>4, ConnectedFound
<1>7. \A a \in Direct \ {c} : a \in S /\ a \in allowed /\ a \in Int
  BY ScopeFacts DEF S
<1>8. ASSUME IsBridge(c)
      PROVE  c \in Needed
  <2>1. PICK a \in Direct \ {c}, b \in Direct \ {c} :
           /\ a < b /\ b \in DOMAIN Paths(E, a, Tables)
           /\ b \notin DOMAIN Paths(E, a, V)
    BY <1>8 DEF IsBridge, RequiredBridge, E, V
  <2>2. /\ <<a, b>> \in Connected(allowed)
        /\ <<a, b>> \notin Connected(allowed \ {c})
    BY <1>5, <1>6, <1>7, <2>1 DEF S
  <2> QED
    BY <2>2 DEF Needed
<1>9. ASSUME c \in Needed
      PROVE  IsBridge(c)
  <2>1. PICK a \in Direct \ {c}, b \in Direct \ {c} :
           /\ <<a, b>> \in Connected(allowed)
           /\ <<a, b>> \notin Connected(S)
    BY <1>9 DEF Needed, S
  <2>2. a \in S /\ b \in S /\ a \in Int /\ b \in Int
        /\ a \in allowed /\ b \in allowed
    BY <1>7
  <2>3. a # b
    BY <2>1, <2>2, ConnectedBoth
  <2>4. /\ <<b, a>> \in Connected(allowed)
        /\ <<b, a>> \notin Connected(S)
    BY <2>1, <2>2, ConnectedBoth
  <2>5. CASE a < b
    <3>1. b \in DOMAIN Paths(E, a, Tables) /\ b \notin DOMAIN Paths(E, a, V)
      BY <1>5, <1>6, <2>1, <2>2
    <3> QED
      BY <2>5, <3>1 DEF IsBridge, RequiredBridge, E, V
  <2>6. CASE b < a
    <3>1. a \in DOMAIN Paths(E, b, Tables) /\ a \notin DOMAIN Paths(E, b, V)
      BY <1>5, <1>6, <2>2, <2>4
    <3> QED
      BY <2>6, <3>1 DEF IsBridge, RequiredBridge, E, V
  <2> QED
    BY <2>2, <2>3, <2>5, <2>6
<1> QED
  BY <1>8, <1>9

(* What is reranked are allowed tables, all that others need among them.   *)
LEMMA RerankInputFacts ==
    ASSUME Given, Fusing(pool)
    PROVE  /\ Direct \subseteq ToSet(pool.fused)
           /\ ToSet(pool.fused) \subseteq RerankInput
           /\ RerankInput \subseteq allowed /\ Direct \subseteq allowed
           /\ Needed \subseteq RerankInput
<1>1. ToSet(pool.fused) \subseteq allowed
  BY FusingFacts, OnceFacts
<1>2. Direct \subseteq ToSet(pool.fused)
  BY DEF Direct
<1>3. /\ ToSet(pool.fused) \subseteq RerankInput
      /\ RerankInput \subseteq allowed
  BY <1>1 DEF RerankInput, Bridges, RequiredBridges
<1>4. ASSUME NEW c \in Needed
      PROVE  c \in RerankInput
  <2>1. c \in allowed
    BY DEF Needed
  <2>2. IsBridge(c)
    BY <1>1, <1>2, <2>1, BridgesNeeded
  <2>3. CASE c \in Direct
    BY <1>2, <1>3, <2>3
  <2>4. CASE c \notin Direct
    BY <2>1, <2>2, <2>4
       DEF RerankInput, Bridges, RequiredBridges, IsBridge
  <2> QED
    BY <2>3, <2>4
<1> QED
  BY <1>1, <1>2, <1>3, <1>4

(* A tuple of six numbers.                                                 *)
LEMMA SixNumbers ==
    ASSUME NEW a \in Int, NEW b \in Int, NEW c \in Int, NEW d \in Int,
           NEW e \in Int, NEW f \in Int
    PROVE  /\ <<a, b, c, d, e, f>> \in Seq(Int)
           /\ Len(<<a, b, c, d, e, f>>) = 6
           /\ <<a, b, c, d, e, f>>[1] = a /\ <<a, b, c, d, e, f>>[6] = f
  OBVIOUS

(* The reranked order lists its input, what others need first              *)
(* (_Features.sort_key).                                                   *)
LEMMA OrderFacts ==
    ASSUME Given, Fusing(pool), NEW matched, NEW grain, NEW key,
           key = [t \in RerankInput |-> SortKey(t, matched, grain)],
           NEW order, order = ByKey(RerankInput, key)
    PROVE  Lists(order, RerankInput) /\ BridgesFirst(order)
<1>1. RerankInput \subseteq allowed
  BY RerankInputFacts
<1>2. ASSUME NEW t \in RerankInput
      PROVE  /\ key[t] \in Seq(Int) /\ Len(key[t]) = 6 /\ key[t][6] = t
             /\ key[t][1] = IF IsBridge(t) THEN 0 ELSE 1
  <2> DEFINE x1 == IF IsBridge(t) THEN 0 ELSE 1
             x2 == IF t \in matched THEN 0 ELSE 1
             x3 == PathEdges(Visible, Direct, t)
             x4 == IF t \in grain THEN 0 ELSE 1
             x5 == -FusionScore(Lexical, pool.embedding, t)
  <2>1. x1 \in Int /\ x2 \in Int /\ x4 \in Int
    OBVIOUS
  <2>2. t \in Int /\ t \in Tables
    BY <1>1, ScopeFacts
  <2>3. x3 \in Int
    BY <2>2, ScopeFacts, PathEdgesFacts
  <2>4. x5 \in Int
    <3>1. Once(Lexical, Tables) /\ Once(pool.embedding, Tables)
      BY LexicalFacts, ScopeFacts DEF Fusing
    <3>2. /\ Contribution(Lexical, t) \in Nat
          /\ Contribution(pool.embedding, t) \in Nat
      BY <3>1, ScopeFacts, ContributionFacts
    <3> QED
      BY <3>2 DEF FusionScore
  <2>5. key[t] = <<x1, x2, x3, x4, x5, t>>
    BY DEF SortKey
  <2> HIDE DEF x1, x2, x3, x4, x5
  <2>6. /\ key[t] \in Seq(Int) /\ Len(key[t]) = 6 /\ key[t][6] = t
        /\ key[t][1] = x1
    <3> DEFINE six == <<x1, x2, x3, x4, x5, t>>
    <3>1. six \in Seq(Int) /\ Len(six) = 6 /\ six[1] = x1 /\ six[6] = t
      BY <2>1, <2>2, <2>3, <2>4, SixNumbers, Zenon
    <3> HIDE DEF six
    <3>2. key[t] = six
      BY <2>5 DEF six
    <3> QED
      BY <3>1, <3>2
  <2> QED
    BY <2>6 DEF x1
<1>3. Keys(RerankInput, key)
  BY <1>2 DEF Keys
<1>4. Lists(order, RerankInput) /\ InOrder(order, key)
  BY <1>1, <1>3, ScopeFacts, SortedLists
<1>5. ASSUME NEW i \in 1..Len(order), NEW j \in 1..Len(order), i < j,
             order[j] \in Needed
      PROVE  order[i] \in Needed
  <2> DEFINE a == order[i]
             b == order[j]
  <2>1. a \in RerankInput /\ b \in RerankInput
    BY <1>4, ListsFacts, OnceFacts
  <2>2. Direct \subseteq allowed
    BY RerankInputFacts
  <2>3. KeyBefore(key[a], key[b])
    BY <1>4, <1>5 DEF InOrder
  <2>4. b \in Needed
    BY <1>5
  <2> HIDE DEF a, b
  <2>5. key[b][1] = 0
    BY <1>1, <1>2, <2>1, <2>2, <2>4, BridgesNeeded
  <2>6. key[a][1] = 0
    <3> SUFFICES ASSUME key[a][1] # 0
                 PROVE  FALSE
      OBVIOUS
    <3>1. key[b][1] < key[a][1]
      BY <1>2, <2>1, <2>5
    <3>2. 1 \in DOMAIN key[b] /\ \A l \in 1..1 - 1 : key[b][l] = key[a][l]
      BY <1>2, <2>1
    <3>3. KeyBefore(key[b], key[a])
      BY <3>1, <3>2 DEF KeyBefore
    <3> QED
      BY <1>3, <2>1, <2>3, <3>3, KeysOrder
  <2>7. IsBridge(a)
    BY <1>2, <2>1, <2>6
  <2>8. a \in Needed
    BY <1>1, <2>1, <2>2, <2>7, BridgesNeeded
  <2> QED
    BY <2>8 DEF a
<1> QED
  BY <1>4, <1>5 DEF BridgesFirst

(* The pool that is built is valid, whether reranked or fallen back on,    *)
(* and the remainder does not come before what others need                 *)
(* (SchemaRetrievalPool.__post_init__).                                    *)
LEMMA PoolBuilt ==
    ASSUME Given, Fusing(pool), NEW order, Once(order, allowed),
           ToSet(pool.fused) \subseteq ToSet(order),
           NEW degraded \in BOOLEAN,
           ~degraded => BridgesFirst(order) /\ Needed \subseteq ToSet(order),
           NEW p, p = [pool EXCEPT !.evidence = order, !.degraded = degraded,
                               !.reranked = WithRemainder(order, pool.ranked)]
    PROVE  /\ PoolValid(p) /\ Reranked(p)
           /\ p.embedding = pool.embedding /\ p.fused = pool.fused
           /\ p.ranked = pool.ranked
<1> DEFINE w == WithRemainder(order, pool.ranked)
           all == pool.ranked
<1>1. Lists(all, allowed) /\ Once(pool.fused, allowed)
  BY FusingFacts
<1>2. /\ Lists(w, allowed) /\ Len(order) <= Len(w)
      /\ First(w, Len(order)) = order
      /\ \A i \in 1..Len(order) : i \in 1..Len(w) /\ w[i] = order[i]
  <2> HIDE DEF all
  <2>1. w = WithRemainder(order, all)
    BY DEF all
  <2> HIDE DEF w
  <2> QED
    BY <1>1, <2>1, WithRemainderFacts
<1>3. /\ p.evidence = order /\ p.degraded = degraded /\ p.reranked = w
      /\ p.mode = pool.mode /\ p.embedding = pool.embedding
      /\ p.fused = pool.fused /\ p.ranked = pool.ranked
  BY DEF Fusing, Pool
<1>4. p \in Pool
  <2>1. Once(order, Tables) /\ Once(w, Tables)
    BY <1>2, ScopeFacts DEF Lists
  <2>2. order \in Seq(Tables) /\ w \in Seq(Tables)
    BY <2>1 DEF Once
  <2>3. pool \in Pool /\ p = [pool EXCEPT !.evidence = order,
                                         !.degraded = degraded, !.reranked = w]
    BY DEF Fusing
  <2> HIDE DEF w
  <2> QED
    BY <2>2, <2>3 DEF Pool
<1> HIDE DEF w, all
<1>5. Fusing(p)
  BY <1>3, <1>4 DEF Fusing
<1>6. PoolValid(p)
  <2>1. /\ IsInjective(all) /\ ToSet(all) = allowed
        /\ IsInjective(w) /\ ToSet(w) = allowed
    BY <1>1, <1>2, ListsFacts, OnceFacts
  <2>2. ToSet(order) \subseteq allowed
    BY OnceFacts
  <2>3. p.mode = "bm25_only" => p.embedding = <<>>
    BY <1>5 DEF Fusing
  <2> QED
    BY <1>2, <1>3, <2>1, <2>2, <2>3 DEF PoolValid, all
<1>7. ASSUME ~degraded
      PROVE  BridgesFirst(w)
  <2> SUFFICES ASSUME NEW i \in 1..Len(w), NEW j \in 1..Len(w), i < j,
                      w[j] \in Needed
               PROVE  w[i] \in Needed
    BY DEF BridgesFirst
  <2>1. PICK k \in 1..Len(order) : order[k] = w[j]
    <3>1. w[j] \in ToSet(order)
      BY <1>7
    <3> QED
      BY <3>1, OnceFacts DEF Lists
  <2>2. k = j
    <3>1. k \in 1..Len(w) /\ w[k] = w[j]
      BY <1>2, <2>1
    <3>2. Once(w, allowed)
      BY <1>2 DEF Lists
    <3> QED
      BY <3>1, <3>2 DEF Once
  <2>3. Len(order) \in Nat
    BY OnceFacts
  <2>4. i \in 1..Len(order) /\ j \in 1..Len(order)
    BY <2>1, <2>2, <2>3
  <2>5. w[i] = order[i] /\ w[j] = order[j]
    BY <1>2, <2>4
  <2> QED
    BY <1>7, <2>4, <2>5 DEF BridgesFirst
<1>8. Reranked(p)
  BY <1>2, <1>3, <1>5, <1>7 DEF Reranked
<1> QED
  BY <1>3, <1>6, <1>8

-----------------------------------------------------------------------------
(* The inductive invariant                                                 *)

\* A result: inside the scope, as large as it may be, with its join paths.
Good(r) ==
    /\ r.tables \subseteq allowed /\ r.paths = JoinPaths(Visible, r.tables)
    /\ Cardinality(r.tables) = Least(r.top_k, Cardinality(allowed))

\* The results so far.
NoResult == results = <<>>
OneResult == results = <<results[1]>> /\ Good(results[1])
TwoResults == /\ results = <<results[1], results[2]>>
              /\ Good(results[1]) /\ Good(results[2])

\* Nothing is selected before the ranking is there.
Early ==
    phase \in {"start", "scored", "fused", "failed"} =>
        NoResult /\ chosen = {} /\ call = 1

\* A pool is there from the fusion on, when there is a retrieval runtime.
Pooled ==
    /\ ~hybrid \/ phase \in {"start", "scored", "failed"} => pool = None
    /\ phase \in {"scored", "fused"} => hybrid
    /\ phase = "fused" => Fusing(pool)
    /\ hybrid /\ phase \in {"select", "route", "again", "done"}
          => Reranked(pool)

\* While a call selects, every table is chosen or still to be looked at.
Selecting ==
    phase = "select" =>
        /\ Once(rest, allowed) /\ Cardinality(chosen) <= top_k
        /\ HasEvidence => allowed \subseteq chosen \cup ToSet(rest)
        /\ ~HasEvidence => Lists(rest, allowed) /\ chosen = {}
        /\ call = 1 => NoResult
        /\ call = 2 => OneResult
        /\ call = 2 /\ hybrid /\ ~pool.degraded
              => BridgesFirst(rest) /\ ForOthers(chosen)

\* Between the calls nothing is selected.
Between ==
    /\ phase = "route" => call = 1
    /\ phase = "again" => call = 2
    /\ phase \in {"route", "again"} => OneResult /\ chosen = {}

Finished ==
    phase = "done" =>
        TwoResults /\ (hybrid /\ ~pool.degraded => ForOthers(results[2].tables))

LinkInv ==
    /\ LinkingAssumption /\ GraphAssumption /\ TypeOK
    /\ phase # "raised" /\ Early /\ Pooled /\ Selecting /\ Between /\ Finished

(* In every state the inputs are as the lemmas take them.                  *)
LEMMA InputsGiven ==
    ASSUME LinkInv
    PROVE  /\ Given
           /\ MaxScore \in Nat /\ MaxSimilarity \in Nat
           /\ ProbeTopK \in Nat \ {0} /\ MediumTopK \in Nat \ {0}
           /\ SimpleTopK \in Nat \ {0} /\ top_k \in Nat \ {0}
           /\ None \notin Pool
  BY DEF LinkInv, Given, TypeOK, LinkingAssumption

(* What depends on the snapshot, the scope and the scores stays with them. *)
LEMMA InputsStay ==
    ASSUME UNCHANGED <<keys, allowed, score>>
    PROVE  /\ Visible' = Visible /\ LexicalRanked' = LexicalRanked
           /\ Lexical' = Lexical /\ Positive' = Positive
           /\ \A p : Fusing(p)' <=> Fusing(p)
           /\ \A r : Good(r)' <=> Good(r)
<1>1. Visible' = Visible
  BY DEF Visible
<1>2. LexicalRanked' = LexicalRanked
  BY <1>1 DEF LexicalRanked, RankedBy, PositiveIn
<1>3. Lexical' = Lexical /\ Positive' = Positive
  BY <1>2 DEF Lexical, Positive, PositiveIn
<1>4. \A p : Fusing(p)' <=> Fusing(p)
  BY <1>2, <1>3 DEF Fusing
<1>5. \A r : Good(r)' <=> Good(r)
  BY <1>1 DEF Good
<1> QED
  BY <1>1, <1>2, <1>3, <1>4, <1>5

(* And what depends on what the pool has fused stays with that.            *)
LEMMA PoolStays ==
    ASSUME UNCHANGED <<keys, allowed, score>>,
           pool'.embedding = pool.embedding, pool'.fused = pool.fused
    PROVE  /\ Needed' = Needed
           /\ \A s : BridgesFirst(s)' <=> BridgesFirst(s)
           /\ \A S : ForOthers(S)' <=> ForOthers(S)
           /\ \A p : Reranked(p)' <=> Reranked(p)
<1>1. Visible' = Visible /\ Positive' = Positive
  BY InputsStay
<1>2. Needed' = Needed
  BY <1>1 DEF Needed, Direct, Connected
<1>3. \A s : BridgesFirst(s)' <=> BridgesFirst(s)
  BY <1>2 DEF BridgesFirst
<1>4. \A S : ForOthers(S)' <=> ForOthers(S)
  BY <1>1, <1>2 DEF ForOthers
<1>5. \A p : Reranked(p)' <=> Reranked(p)
  BY <1>3, InputsStay DEF Reranked
<1> QED
  BY <1>2, <1>3, <1>4, <1>5

(* The invariant holds when the request begins.                            *)
LEMMA LinkStarts ==
    ASSUME LinkingAssumption, GraphAssumption, Init
    PROVE  LinkInv
<1>1. TypeOK
  <2>1. /\ keys \subseteq Pairs /\ allowed \subseteq Tables
        /\ hybrid \in BOOLEAN
    BY DEF Init, LinkingAssumption
  <2>2. /\ score \in [Tables -> 0 .. MaxScore]
        /\ similarity \in [Tables -> 0 .. MaxSimilarity]
    BY DEF Init, LinkingAssumption, Unset
  <2>3. ToSet(rest) = {} /\ Len(results) = 0
    BY DEF Init, ToSet
  <2> QED
    BY <2>1, <2>2, <2>3 DEF Init, TypeOK
<1>2. Early /\ Pooled /\ Selecting /\ Between /\ Finished
  BY DEF Init, Early, Pooled, Selecting, Between, Finished, NoResult
<1> QED
  BY <1>1, <1>2 DEF LinkInv, Init

-----------------------------------------------------------------------------
(* The steps of the first call                                             *)

(* Scoring keeps the invariant.                                            *)
LEMMA ScoreStep ==
    ASSUME LinkInv, Score
    PROVE  LinkInv'
<1>1. /\ phase = "start" /\ NoResult /\ chosen = {} /\ call = 1 /\ pool = None
      /\ UNCHANGED <<keys, allowed, hybrid, similarity, call, pool, chosen,
                     results, top_k>>
  BY DEF LinkInv, Early, Pooled, Score
<1>2. PICK s \in [allowed -> 0 .. MaxScore] :
         /\ score' = [t \in Tables |-> IF t \in allowed THEN s[t] ELSE 0]
         /\ IF hybrid THEN phase' = "scored" /\ UNCHANGED rest
            ELSE phase' = "select" /\ rest' = RankedBy(s)
  BY DEF Score
<1>3. Lists(RankedBy(s), allowed)
  <2>1. \A t \in allowed : s[t] \in Nat
    BY InputsGiven
  <2> QED
    BY <2>1, InputsGiven, RankedFacts
<1>4. TypeOK'
  <2>1. score' \in [Tables -> 0 .. MaxScore]
    BY <1>2, InputsGiven
  <2>2. ToSet(rest') \subseteq allowed
    BY <1>2, <1>3, ListsFacts DEF LinkInv, TypeOK
  <2> QED
    BY <1>1, <1>2, <2>1, <2>2 DEF LinkInv, TypeOK
<1>5. CASE hybrid
  BY <1>1, <1>2, <1>4, <1>5
     DEF LinkInv, Early, NoResult, Pooled, Selecting, Between, Finished
<1>6. CASE ~hybrid
  <2>1. phase' = "select" /\ Lists(rest', allowed')
    BY <1>1, <1>2, <1>3, <1>6
  <2>2. Once(rest', allowed') /\ ToSet(rest') = allowed'
    BY <2>1, ListsFacts
  <2>3. Cardinality(chosen') <= top_k'
    BY <1>1, InputsGiven, FS_EmptySet
  <2>4. Selecting'
    BY <1>1, <2>1, <2>2, <2>3 DEF Selecting, NoResult
  <2> QED
    BY <1>1, <1>4, <1>6, <2>1, <2>4
       DEF LinkInv, Early, NoResult, Pooled, Between, Finished
<1> QED
  BY <1>5, <1>6

(* A state whose pool has been fused: the next one has the same inputs.    *)
LEMMA FusedState ==
    ASSUME LinkInv, UNCHANGED <<keys, allowed, hybrid, score, call, chosen,
                                results, top_k>>,
           hybrid, phase = "scored" \/ phase = "fused",
           similarity' \in [Tables -> 0 .. MaxSimilarity],
           phase' = "fused", Fusing(pool'), UNCHANGED rest
    PROVE  LinkInv'
<1>1. NoResult /\ chosen = {} /\ call = 1
  BY DEF LinkInv, Early
<1>2. Fusing(pool)'
  BY InputsStay
<1>3. pool' \in Pool
  BY DEF Fusing
<1>4. TypeOK'
  BY <1>3 DEF LinkInv, TypeOK
<1> QED
  BY <1>1, <1>2, <1>4
     DEF LinkInv, Early, NoResult, Pooled, Selecting, Between, Finished

(* Embedding keeps the invariant.                                          *)
LEMMA EmbedStep ==
    ASSUME LinkInv, Embed
    PROVE  LinkInv'
<1>1. PICK s \in [allowed -> 0 .. MaxSimilarity] :
         /\ similarity' = [t \in Tables |-> IF t \in allowed THEN s[t] ELSE 0]
         /\ pool' = Fresh("hybrid", Embedded(s))
  BY DEF Embed
<1>2. Once(Embedded(s), allowed)
  <2>1. \A t \in allowed : s[t] \in Nat
    BY InputsGiven
  <2> QED
    BY <2>1, InputsGiven, EmbeddedFacts
<1>3. Fusing(pool')
  BY <1>1, <1>2, InputsGiven, FreshFacts
<1>4. similarity' \in [Tables -> 0 .. MaxSimilarity]
  BY <1>1, InputsGiven
<1>5. hybrid
  BY DEF LinkInv, Pooled, Embed
<1> QED
  BY <1>3, <1>4, <1>5, FusedState DEF Embed

(* A failed embedding keeps the invariant.                                 *)
LEMMA EmbeddingFailsStep ==
    ASSUME LinkInv, EmbeddingFails
    PROVE  LinkInv'
<1>1. /\ phase = "scored" /\ hybrid /\ pool = None
      /\ UNCHANGED <<inputs, call, rest, chosen, results, top_k>>
  BY DEF LinkInv, Pooled, EmbeddingFails
<1>2. CASE /\ Lexical # <<>> /\ phase' = "fused"
           /\ pool' = Fresh("bm25_only", <<>>)
  <2>1. Once(<<>>, allowed)
    BY DEF Once
  <2>2. Fusing(pool')
    BY <1>2, <2>1, InputsGiven, FreshFacts
  <2>3. similarity' \in [Tables -> 0 .. MaxSimilarity]
    BY <1>1 DEF inputs, LinkInv, TypeOK
  <2> QED
    BY <1>1, <1>2, <2>2, <2>3, FusedState DEF inputs
<1>3. CASE phase' = "failed" /\ UNCHANGED pool
  <2>1. TypeOK'
    BY <1>1, <1>3 DEF LinkInv, TypeOK, inputs
  <2> QED
    BY <1>1, <1>3, <2>1
       DEF LinkInv, Early, NoResult, Pooled, Selecting, Between, Finished,
            inputs
<1> QED
  BY <1>2, <1>3 DEF EmbeddingFails

(* Building the pool keeps the invariant.                                  *)
LEMMA PoolsStep ==
    ASSUME LinkInv, phase = "fused",
           UNCHANGED <<inputs, call, chosen, results, top_k>>,
           NEW order, Once(order, allowed),
           ToSet(pool.fused) \subseteq ToSet(order),
           NEW degraded \in BOOLEAN,
           ~degraded => BridgesFirst(order) /\ Needed \subseteq ToSet(order),
           Pools(order, degraded)
    PROVE  LinkInv'
<1>1. Fusing(pool) /\ hybrid /\ NoResult /\ chosen = {} /\ call = 1
  BY DEF LinkInv, Early, Pooled
<1> DEFINE p == [pool EXCEPT !.evidence = order, !.degraded = degraded,
                             !.reranked = WithRemainder(order, pool.ranked)]
<1>2. /\ PoolValid(p) /\ Reranked(p) /\ p.ranked = pool.ranked
      /\ p.embedding = pool.embedding /\ p.fused = pool.fused
  <2> DEFINE q == p
  <2>1. q = [pool EXCEPT !.evidence = order, !.degraded = degraded,
                         !.reranked = WithRemainder(order, pool.ranked)]
    OBVIOUS
  <2> HIDE DEF q
  <2>2. /\ PoolValid(q) /\ Reranked(q) /\ q.ranked = pool.ranked
        /\ q.embedding = pool.embedding /\ q.fused = pool.fused
    BY <1>1, <2>1, InputsGiven, PoolBuilt
  <2> QED
    BY <2>2 DEF q
<1>3. pool' = p /\ phase' = "select" /\ rest' = pool.ranked
  BY <1>2 DEF Pools
<1> HIDE DEF p
<1>4. UNCHANGED <<keys, allowed, hybrid, score, similarity>>
  BY DEF inputs
<1>5. Reranked(pool)'
  BY <1>2, <1>3, <1>4, PoolStays
<1>6. Lists(rest', allowed)
  BY <1>1, <1>3, InputsGiven, FusingFacts
<1>7. Once(rest', allowed) /\ ToSet(rest') = allowed
  BY <1>6, ListsFacts
<1>8. TypeOK'
  <2>1. pool' \in Pool
    BY <1>2, <1>3 DEF Reranked, Fusing
  <2> QED
    BY <1>3, <1>4, <1>7, <2>1 DEF LinkInv, TypeOK
<1>9. Selecting'
  <2>1. Cardinality(chosen') <= top_k'
    BY <1>1, InputsGiven, FS_EmptySet
  <2> QED
    BY <1>1, <1>4, <1>6, <1>7, <2>1 DEF Selecting, NoResult
<1> QED
  BY <1>1, <1>3, <1>4, <1>5, <1>8, <1>9
     DEF LinkInv, Early, Pooled, Between, Finished

(* Reranking keeps the invariant.                                          *)
LEMMA RerankStep ==
    ASSUME LinkInv, Rerank
    PROVE  LinkInv'
<1>1. Fusing(pool)
  BY DEF LinkInv, Pooled, Rerank
<1>2. PICK matched : \E grain \in {{}, matched} :
         \E key \in {[t \in RerankInput |-> SortKey(t, matched, grain)]} :
         \E order \in {ByKey(RerankInput, key)} : Pools(order, FALSE)
  BY Zenon DEF Rerank
<1>3. PICK grain :
         \E key \in {[t \in RerankInput |-> SortKey(t, matched, grain)]} :
         \E order \in {ByKey(RerankInput, key)} : Pools(order, FALSE)
  BY <1>2, Zenon
<1>4. PICK key : /\ key = [t \in RerankInput |-> SortKey(t, matched, grain)]
                 /\ \E order \in {ByKey(RerankInput, key)} : Pools(order, FALSE)
  BY <1>3, Zenon
<1> DEFINE order == ByKey(RerankInput, key)
<1>5. Pools(order, FALSE)
  BY <1>4, Zenon
<1>6. Lists(order, RerankInput) /\ BridgesFirst(order)
  BY <1>1, <1>4, InputsGiven, OrderFacts
<1> HIDE DEF order
<1>7. Once(order, RerankInput) /\ ToSet(order) = RerankInput
  BY <1>6, ListsFacts
<1>8. /\ RerankInput \subseteq allowed /\ Needed \subseteq RerankInput
      /\ ToSet(pool.fused) \subseteq RerankInput
  BY <1>1, InputsGiven, RerankInputFacts
<1>9. Once(order, allowed)
  BY <1>7, <1>8, OnceInside
<1> QED
  BY <1>5, <1>6, <1>7, <1>8, <1>9, PoolsStep DEF Rerank

(* The order of the fusion keeps it too.                                   *)
LEMMA RerankFailsStep ==
    ASSUME LinkInv, RerankFails
    PROVE  LinkInv'
<1>1. Fusing(pool)
  BY DEF LinkInv, Pooled, RerankFails
<1>2. Once(pool.fused, allowed)
  BY <1>1, InputsGiven, FusingFacts
<1> QED
  BY <1>2, PoolsStep DEF RerankFails

-----------------------------------------------------------------------------
(* Selection and the second call                                           *)

(* The rest of a list without its first.                                   *)
LEMMA TailFacts ==
    ASSUME NEW S, NEW s, Once(s, S), s # <<>>
    PROVE  /\ Once(Tail(s), S) /\ Head(s) \in S
           /\ ToSet(s) \subseteq {Head(s)} \cup ToSet(Tail(s))
           /\ BridgesFirst(s) => BridgesFirst(Tail(s))
           /\ BridgesFirst(s) /\ (\E t \in ToSet(s) : t \in Needed)
                 => Head(s) \in Needed
<1> DEFINE t == Tail(s)
<1>1. /\ s \in Seq(S) /\ Len(s) \in Nat /\ Len(s) # 0
      /\ \A i \in 1..Len(s) : s[i] \in S
      /\ \A i, j \in 1..Len(s) : s[i] = s[j] => i = j
  BY OnceFacts DEF Once
<1>2. /\ t \in Seq(S) /\ Len(t) = Len(s) - 1 /\ Head(s) = s[1]
      /\ \A i \in 1..Len(t) : t[i] = s[i + 1]
  <2>1. /\ t \in Seq(S) /\ Len(t) = Len(s) - 1
    BY <1>1, HeadTailProperties
  <2>2. \A i \in 1..Len(t) : t[i] = s[i + 1]
    BY <1>1, HeadTailProperties
  <2> QED
    BY <1>1, <2>1, <2>2
<1> HIDE DEF t
<1>3. \A i \in 1..Len(t) : i + 1 \in 1..Len(s) /\ t[i] = s[i + 1]
  BY <1>1, <1>2
<1>4. Once(t, S)
  <2> SUFFICES ASSUME NEW i \in 1..Len(t), NEW j \in 1..Len(t), t[i] = t[j]
               PROVE  i = j
    BY <1>2 DEF Once
  <2>1. i + 1 = j + 1
    BY <1>1, <1>3
  <2> QED
    BY <1>1, <1>2, <2>1
<1>5. 1 \in 1..Len(s) /\ Head(s) \in S
  BY <1>1, <1>2
<1>6. ASSUME NEW a \in ToSet(s)
      PROVE  a = Head(s) \/ a \in ToSet(t)
  <2>1. PICK i \in 1..Len(s) : s[i] = a
    BY OnceFacts DEF Lists
  <2>2. CASE i = 1
    BY <1>2, <2>1, <2>2
  <2>3. CASE i # 1
    <3>1. i - 1 \in 1..Len(t) /\ (i - 1) + 1 = i
      BY <1>1, <1>2, <2>3
    <3>2. t[i - 1] = a
      BY <1>2, <2>1, <3>1
    <3> QED
      BY <1>4, <3>1, <3>2, OnceFacts
  <2> QED
    BY <2>2, <2>3
<1>7. ASSUME BridgesFirst(s)
      PROVE  BridgesFirst(t)
  <2> SUFFICES ASSUME NEW i \in 1..Len(t), NEW j \in 1..Len(t), i < j,
                      t[j] \in Needed
               PROVE  t[i] \in Needed
    BY DEF BridgesFirst
  <2>1. /\ i + 1 \in 1..Len(s) /\ j + 1 \in 1..Len(s) /\ i + 1 < j + 1
        /\ t[i] = s[i + 1] /\ t[j] = s[j + 1]
    BY <1>3
  <2> DEFINE x == i + 1
             y == j + 1
  <2>2. x \in 1..Len(s) /\ y \in 1..Len(s) /\ x < y /\ s[y] \in Needed
    BY <2>1
  <2>3. t[i] = s[x]
    BY <2>1
  <2> HIDE DEF x, y
  <2> QED
    BY <1>7, <2>2, <2>3 DEF BridgesFirst
<1>8. ASSUME BridgesFirst(s), NEW a \in ToSet(s), a \in Needed
      PROVE  Head(s) \in Needed
  <2>1. PICK i \in 1..Len(s) : s[i] = a
    BY OnceFacts DEF Lists
  <2>2. CASE i = 1
    BY <1>2, <1>8, <2>1, <2>2
  <2>3. CASE i # 1
    <3>1. 1 < i
      BY <2>3
    <3> QED
      BY <1>2, <1>5, <1>8, <2>1, <3>1 DEF BridgesFirst
  <2> QED
    BY <2>2, <2>3
<1> QED
  BY <1>4, <1>5, <1>6, <1>7, <1>8 DEF t

(* A chosen candidate is in the selection, which stays in the scope and    *)
(* within its size.                                                        *)
LEMMA ChosenInScope ==
    ASSUME Given, NEW K \in SUBSET allowed, NEW c \in allowed, NEW k \in Nat,
           Cardinality(K) <= k, Cardinality(K) # k,
           NEW L, L = ChosenAfter(Visible, K, c, k)
    PROVE  /\ L \in SUBSET allowed /\ K \subseteq L /\ c \in L
           /\ Cardinality(L) <= k
<1> DEFINE path == Paths(Visible, c, Tables)
<1>1. path = Paths(Visible, c, Tables)
  OBVIOUS
<1> HIDE DEF path
<1> QED
  BY <1>1, ScopeFacts, ChosenAfterFacts

(* A chosen candidate keeps what the selection says of the bridges.        *)
LEMMA ForOthersKept ==
    ASSUME Given, NEW s, Once(s, allowed), s # <<>>, BridgesFirst(s),
           NEW K \in SUBSET allowed, allowed \subseteq K \cup ToSet(s),
           NEW k \in Nat, Cardinality(K) <= k, Cardinality(K) # k,
           NEW L, L = ChosenAfter(Visible, K, Head(s), k), ForOthers(K)
    PROVE  ForOthers(L)
<1> DEFINE c == Head(s)
           path == Paths(Visible, c, Tables)
<1>1. c \in allowed
  BY TailFacts
<1>2. /\ L \in SUBSET allowed /\ K \subseteq L /\ c \in L
      /\ \A t \in L \ K : t = c \/
            \E b \in (K \cap DOMAIN path) \ {t} : t \in ToSet(path[b])
  <2> HIDE DEF c
  <2>1. L = ChosenAfter(Visible, K, c, k)
    BY DEF c
  <2>2. path = Paths(Visible, c, Tables)
    OBVIOUS
  <2> HIDE DEF path
  <2> QED
    BY <1>1, <2>1, <2>2, ScopeFacts, ChosenAfterFacts
<1>3. CASE Needed \subseteq K
  BY <1>2, <1>3 DEF ForOthers
<1>4. CASE ~(Needed \subseteq K)
  <2>1. c \in Needed
    <3>1. PICK a \in Needed : a \notin K
      BY <1>4
    <3>2. a \in ToSet(s)
      BY <3>1 DEF Needed
    <3> QED
      BY <3>2, TailFacts
  <2>2. ASSUME NEW t \in L \ Needed
        PROVE  \E a \in Needed \cap L :
                  \E b \in (L \cap DOMAIN Paths(Visible, a, Tables)) \ {t} :
                     t \in ToSet(Paths(Visible, a, Tables)[b])
    <3>1. CASE t \in K
      <4>1. PICK a \in Needed \cap K :
               \E b \in (K \cap DOMAIN Paths(Visible, a, Tables)) \ {t} :
                  t \in ToSet(Paths(Visible, a, Tables)[b])
        BY <1>4, <3>1 DEF ForOthers
      <4> QED
        BY <1>2, <4>1
    <3>2. CASE t \notin K
      <4>1. PICK b \in (K \cap DOMAIN path) \ {t} : t \in ToSet(path[b])
        BY <1>2, <2>1, <2>2, <3>2
      <4> QED
        BY <1>2, <2>1, <4>1
    <3> QED
      BY <3>1, <3>2
  <2> QED
    BY <2>2 DEF ForOthers
<1> QED
  BY <1>3, <1>4

(* One candidate keeps the invariant.                                      *)
LEMMA SelectStep ==
    ASSUME LinkInv, Select
    PROVE  LinkInv'
<1>1. /\ phase = "select" /\ HasEvidence /\ rest # <<>>
      /\ Cardinality(chosen) # top_k
      /\ chosen' = ChosenAfter(Visible, chosen, Head(rest), top_k)
      /\ rest' = Tail(rest)
      /\ UNCHANGED <<keys, allowed, hybrid, score, similarity, phase, call,
                     pool, results, top_k>>
  BY DEF Select, inputs
<1>2. /\ Once(rest, allowed) /\ Cardinality(chosen) <= top_k
      /\ allowed \subseteq chosen \cup ToSet(rest)
      /\ chosen \in SUBSET allowed /\ top_k \in Nat
  BY <1>1, InputsGiven DEF LinkInv, Selecting, TypeOK
<1> DEFINE c == Head(rest)
<1>3. /\ Once(rest', allowed) /\ c \in allowed
      /\ ToSet(rest) \subseteq {c} \cup ToSet(rest')
  BY <1>1, <1>2, TailFacts
<1>4. /\ chosen' \in SUBSET allowed /\ chosen \subseteq chosen' /\ c \in chosen'
      /\ Cardinality(chosen') <= top_k
  <2>1. chosen' = ChosenAfter(Visible, chosen, c, top_k)
    BY <1>1
  <2> HIDE DEF c
  <2>2. Cardinality(chosen) <= top_k /\ Cardinality(chosen) # top_k
    BY <1>1, <1>2
  <2>3. chosen \in SUBSET allowed /\ top_k \in Nat /\ c \in allowed /\ Given
    BY <1>2, <1>3, InputsGiven
  <2> QED
    BY <2>1, <2>2, <2>3, ChosenInScope
<1> HIDE DEF c
<1>5. allowed \subseteq chosen' \cup ToSet(rest')
  BY <1>2, <1>3, <1>4
<1>6. HasEvidence'
  BY <1>1, InputsStay DEF HasEvidence
<1>7. ASSUME call = 2, hybrid, ~pool.degraded
      PROVE  BridgesFirst(rest') /\ ForOthers(chosen')
  <2>1. BridgesFirst(rest) /\ ForOthers(chosen)
    BY <1>1, <1>7 DEF LinkInv, Selecting
  <2> QED
    BY <1>1, <1>2, <2>1, InputsGiven, TailFacts, ForOthersKept
<1>8. call' = 2 /\ hybrid' /\ ~pool'.degraded
         => BridgesFirst(rest)' /\ ForOthers(chosen)'
  BY <1>1, <1>7, PoolStays
<1>9. OneResult' <=> OneResult
  BY <1>1, InputsStay DEF OneResult
<1>10. Selecting'
  BY <1>1, <1>3, <1>4, <1>5, <1>6, <1>8, <1>9
     DEF LinkInv, Selecting, NoResult
<1>11. TypeOK'
  <2>1. ToSet(rest') \subseteq allowed
    BY <1>3, OnceFacts
  <2> QED
    BY <1>1, <1>4, <2>1 DEF LinkInv, TypeOK
<1>12. Pooled'
  BY <1>1, PoolStays DEF LinkInv, Pooled
<1> QED
  BY <1>1, <1>10, <1>11, <1>12
     DEF LinkInv, Early, Between, Finished

(* What a call returns is good, and returned by the second call it says    *)
(* what BridgesKept says.                                                  *)
LEMMA ResultGood ==
    ASSUME LinkInv, phase = "select",
           HasEvidence => rest = <<>> \/ Cardinality(chosen) = top_k,
           NEW tables,
           tables = IF HasEvidence THEN chosen ELSE ToSet(First(rest, top_k)),
           NEW r, r = [tables |-> tables, top_k |-> top_k,
                       paths |-> JoinPaths(Visible, tables)]
    PROVE  /\ Good(r)
           /\ call = 2 /\ hybrid /\ ~pool.degraded => ForOthers(r.tables)
<1>1. /\ Once(rest, allowed) /\ Cardinality(chosen) <= top_k
      /\ HasEvidence => allowed \subseteq chosen \cup ToSet(rest)
      /\ ~HasEvidence => Lists(rest, allowed) /\ chosen = {}
      /\ chosen \in SUBSET allowed /\ top_k \in Nat
      /\ Cardinality(allowed) \in Nat /\ Cardinality(chosen) \in Nat
      /\ IsFiniteSet(allowed)
  BY InputsGiven, ScopeFacts DEF LinkInv, Selecting, TypeOK
<1>2. /\ tables \subseteq allowed
      /\ Cardinality(tables) = Least(top_k, Cardinality(allowed))
  <2>1. CASE HasEvidence
    <3>1. tables = chosen
      BY <2>1
    <3>2. CASE Cardinality(chosen) = top_k
      <4>1. Cardinality(chosen) <= Cardinality(allowed)
        BY <1>1, FS_Subset
      <4> QED
        BY <1>1, <3>1, <3>2, <4>1 DEF Least
    <3>3. CASE rest = <<>>
      <4>1. ToSet(rest) = {}
        BY <3>3 DEF ToSet
      <4>2. chosen = allowed
        BY <1>1, <2>1, <4>1
      <4> QED
        BY <1>1, <3>1, <4>2 DEF Least
    <3> QED
      BY <2>1, <3>2, <3>3
  <2>2. CASE ~HasEvidence
    <3> DEFINE f == First(rest, top_k)
    <3>1. tables = ToSet(f)
      BY <2>2
    <3>2. f = First(rest, top_k)
      OBVIOUS
    <3> HIDE DEF f
    <3>3. Once(f, allowed) /\ Len(f) = Least(top_k, Len(rest))
      BY <1>1, <3>2, FirstFacts
    <3>4. ToSet(f) \subseteq allowed /\ Cardinality(ToSet(f)) = Len(f)
      BY <3>3, OnceFacts
    <3>5. Len(rest) = Cardinality(allowed)
      BY <1>1, <2>2, ListsFacts
    <3> QED
      BY <3>1, <3>3, <3>4, <3>5
  <2> QED
    BY <2>1, <2>2
<1>3. /\ r.tables = tables /\ r.top_k = top_k
      /\ r.paths = JoinPaths(Visible, tables)
  OBVIOUS
<1>4. Good(r)
  BY <1>2, <1>3 DEF Good
<1>5. ASSUME call = 2, hybrid, ~pool.degraded
      PROVE  ForOthers(tables)
  <2>1. CASE HasEvidence
    BY <1>5, <2>1 DEF LinkInv, Selecting
  <2>2. CASE ~HasEvidence
    <3>1. pool \in Pool /\ pool # None
      BY <1>5, InputsGiven DEF LinkInv, Pooled, Reranked, Fusing
    <3>2. Positive = {} /\ pool.embedding = <<>>
      BY <2>2, <3>1 DEF HasEvidence
    <3>3. Direct = {}
      BY <3>2 DEF Direct, ToSet
    <3>4. Needed = {}
      BY <3>3 DEF Needed
    <3> QED
      BY <3>4 DEF ForOthers
  <2> QED
    BY <2>1, <2>2
<1> QED
  BY <1>3, <1>4, <1>5

(* A second result after the first.                                        *)
LEMMA SecondAppended ==
    ASSUME NEW a, NEW b
    PROVE  Append(<<a>>, b) = <<a, b>>
<1> DEFINE S == {a, b}
           u == <<a>>
           v == <<a, b>>
           w == Append(u, b)
<1>1. u \in Seq(S) /\ Len(u) = 1 /\ u[1] = a /\ b \in S
  OBVIOUS
<1>2. v \in Seq(S) /\ Len(v) = 2 /\ v[1] = a /\ v[2] = b
  OBVIOUS
<1> HIDE DEF u, v, S
<1>3. w \in Seq(S) /\ Len(w) = 2 /\ w[1] = a /\ w[2] = b
  <2>1. w \in Seq(S) /\ Len(w) = Len(u) + 1
    BY <1>1
  <2>2. /\ \A i \in 1..Len(u) : w[i] = u[i]
        /\ w[Len(u) + 1] = b
    BY <1>1, AppendProperties
  <2>3. 1 \in 1..Len(u) /\ Len(u) + 1 = 2
    BY <1>1
  <2> QED
    BY <1>1, <2>1, <2>2, <2>3
<1> HIDE DEF w
<1>4. \A i \in 1..Len(w) : w[i] = v[i]
  BY <1>2, <1>3
<1>5. w = v
  BY <1>2, <1>3, <1>4, SeqEqual
<1> QED
  BY <1>5 DEF u, v, w

(* Returning a result keeps the invariant.                                 *)
LEMMA ResultStep ==
    ASSUME LinkInv, Result
    PROVE  LinkInv'
<1> DEFINE tables == IF HasEvidence THEN chosen ELSE ToSet(First(rest, top_k))
           r == [tables |-> tables, top_k |-> top_k,
                 paths |-> JoinPaths(Visible, tables)]
<1>1. /\ phase = "select"
      /\ HasEvidence => rest = <<>> \/ Cardinality(chosen) = top_k
      /\ results' = Append(results, r)
      /\ phase' = IF call = 1 THEN "route" ELSE "done"
      /\ rest' = <<>> /\ chosen' = {}
      /\ UNCHANGED <<keys, allowed, hybrid, score, similarity, call, pool,
                     top_k>>
  BY DEF Result, inputs
<1>2. /\ Good(r)
      /\ call = 2 /\ hybrid /\ ~pool.degraded => ForOthers(r.tables)
  <2> DEFINE t == tables
             q == r
  <2>1. t = IF HasEvidence THEN chosen ELSE ToSet(First(rest, top_k))
    OBVIOUS
  <2>2. q = [tables |-> t, top_k |-> top_k, paths |-> JoinPaths(Visible, t)]
    OBVIOUS
  <2> HIDE DEF t, q
  <2>3. /\ Good(q)
        /\ call = 2 /\ hybrid /\ ~pool.degraded => ForOthers(q.tables)
    BY <1>1, <2>1, <2>2, ResultGood
  <2> QED
    BY <2>3 DEF q
<1> HIDE DEF r
<1>4. ToSet(rest') = {} /\ call \in {1, 2}
  BY <1>1 DEF ToSet, LinkInv, TypeOK
<1>5. Pooled'
  BY <1>1, PoolStays DEF LinkInv, Pooled
<1>6. CASE call = 1
  <2>1. results' = <<r>>
    <3>1. results = <<>>
      BY <1>1, <1>6 DEF LinkInv, Selecting, NoResult
    <3>2. Append(<<>>, r) = <<r>>
      OBVIOUS
    <3> QED
      BY <1>1, <3>1, <3>2
  <2>2. Good(results[1])'
    <3>1. results'[1] = r /\ Good(r)
      BY <1>2, <2>1
    <3> QED
      BY <1>1, <3>1, InputsStay DEF Good
  <2>3. OneResult' /\ Len(results') = 1
    BY <2>1, <2>2 DEF OneResult
  <2>4. TypeOK'
    BY <1>1, <1>4, <1>6, <2>3 DEF LinkInv, TypeOK
  <2> QED
    BY <1>1, <1>5, <1>6, <2>3, <2>4
       DEF LinkInv, Early, Selecting, Between, Finished
<1>7. CASE call = 2
  <2> DEFINE first == results[1]
  <2>1. results = <<first>> /\ Good(first)
    BY <1>1, <1>7 DEF LinkInv, Selecting, OneResult
  <2> HIDE DEF first
  <2>2. results' = <<first, r>>
    <3>1. Append(<<first>>, r) = <<first, r>>
      BY SecondAppended
    <3> QED
      BY <1>1, <2>1, <3>1
  <2>3. Good(results[1])' /\ Good(results[2])'
    <3>1. results'[1] = first /\ results'[2] = r /\ Good(first) /\ Good(r)
      BY <1>2, <2>1, <2>2
    <3> QED
      BY <1>1, <3>1, InputsStay DEF Good
  <2>4. TwoResults' /\ Len(results') = 2 /\ results'[2] = r
    BY <2>2, <2>3 DEF TwoResults
  <2>5. TypeOK'
    BY <1>1, <1>4, <1>7, <2>4 DEF LinkInv, TypeOK
  <2>6. hybrid' /\ ~pool'.degraded => ForOthers(results[2].tables)'
    <3> SUFFICES ASSUME hybrid', ~pool'.degraded
                 PROVE  ForOthers(results[2].tables)'
      OBVIOUS
    <3>1. ForOthers(results'[2].tables)
      BY <1>1, <1>2, <1>7, <2>4
    <3>2. \A S : ForOthers(S)' <=> ForOthers(S)
      BY <1>1, PoolStays
    <3>3. /\ Visible' = Visible /\ Needed' = Needed
      BY <1>1, InputsStay, PoolStays
    <3> QED
      BY <3>1, <3>3 DEF ForOthers
  <2> QED
    BY <1>1, <1>5, <1>7, <2>4, <2>5, <2>6
       DEF LinkInv, Early, Selecting, Between, Finished
<1> QED
  BY <1>4, <1>6, <1>7

(* Deciding the complexity keeps the invariant.                            *)
LEMMA RouteStep ==
    ASSUME LinkInv, Route
    PROVE  LinkInv'
<1>1. /\ phase = "route" /\ phase' = "again" /\ call' = 2
      /\ UNCHANGED <<keys, allowed, hybrid, score, similarity, pool, rest,
                     chosen, results>>
      /\ top_k' \in {ProbeTopK, MediumTopK, SimpleTopK}
  BY DEF Route, inputs
<1>2. OneResult' <=> OneResult
  BY <1>1, InputsStay DEF OneResult
<1>3. Pooled'
  BY <1>1, PoolStays DEF LinkInv, Pooled
<1>4. TypeOK'
  BY <1>1 DEF LinkInv, TypeOK
<1> QED
  BY <1>1, <1>2, <1>3, <1>4
     DEF LinkInv, Early, Selecting, Between, Finished

(* Using the pool again keeps the invariant: what was prepared is valid.   *)
LEMMA RelinkStep ==
    ASSUME LinkInv, Relink
    PROVE  LinkInv'
<1>1. /\ phase = "again" /\ call = 2 /\ OneResult /\ chosen = {}
      /\ UNCHANGED <<keys, allowed, hybrid, score, similarity, call, pool,
                     chosen, results, top_k>>
  BY DEF Relink, inputs, LinkInv, Between
<1>2. /\ phase' = "select" /\ Lists(rest', allowed)
      /\ hybrid /\ ~pool.degraded => BridgesFirst(rest')
  <2>1. CASE ~hybrid
    BY <2>1, InputsGiven, LexicalFacts DEF Relink
  <2>2. CASE hybrid
    <3>1. Reranked(pool) /\ Fusing(pool)
      BY <1>1, <2>2 DEF LinkInv, Pooled, Reranked
    <3>2. ToSet(pool.ranked) = allowed
      BY <3>1, InputsGiven, FusingFacts, ListsFacts
    <3>3. Prepared
      BY <3>1, <3>2 DEF Prepared, Fusing
    <3> QED
      BY <2>2, <3>1, <3>3 DEF Relink, Reranked
  <2> QED
    BY <2>1, <2>2
<1>3. Once(rest', allowed) /\ ToSet(rest') = allowed
  BY <1>2, ListsFacts
<1>4. OneResult' <=> OneResult
  BY <1>1, InputsStay DEF OneResult
<1>5. Pooled'
  BY <1>1, <1>2, PoolStays DEF LinkInv, Pooled
<1>6. TypeOK'
  BY <1>1, <1>2, <1>3 DEF LinkInv, TypeOK
<1>7. Cardinality(chosen') <= top_k'
  BY <1>1, InputsGiven, FS_EmptySet
<1>8. call' = 2 /\ hybrid' /\ ~pool'.degraded
         => BridgesFirst(rest)' /\ ForOthers(chosen)'
  <2>1. ForOthers({})
    BY DEF ForOthers
  <2> QED
    BY <1>1, <1>2, <2>1, PoolStays
<1>9. Selecting'
  BY <1>1, <1>2, <1>3, <1>4, <1>7, <1>8 DEF Selecting
<1> QED
  BY <1>1, <1>2, <1>5, <1>6, <1>9
     DEF LinkInv, Early, Between, Finished

(* The invariant is inductive.                                             *)
LEMMA LinkStep ==
    ASSUME LinkInv, [Next]_vars
    PROVE  LinkInv'
<1>1. CASE UNCHANGED vars
  <2>1. UNCHANGED <<keys, allowed, hybrid, score, similarity, phase, call,
                    pool, rest, chosen, results, top_k>>
    BY <1>1 DEF vars, inputs
  <2>2. TypeOK' /\ Early' /\ Between'
    BY <2>1, InputsStay DEF LinkInv, TypeOK, Early, Between, NoResult, OneResult
  <2>3. Pooled'
    BY <2>1, InputsStay, PoolStays DEF LinkInv, Pooled
  <2>4. Selecting'
    <3>1. HasEvidence' <=> HasEvidence
      BY <2>1, InputsStay DEF HasEvidence
    <3> QED
      BY <2>1, <3>1, InputsStay, PoolStays
         DEF LinkInv, Selecting, NoResult, OneResult
  <2>5. Finished'
    <3>1. TwoResults' <=> TwoResults
      BY <2>1, InputsStay DEF TwoResults
    <3>2. ForOthers(results[2].tables)' <=> ForOthers(results[2].tables)
      <4>1. Visible' = Visible /\ Needed' = Needed
        BY <2>1, InputsStay, PoolStays
      <4> QED
        BY <2>1, <4>1 DEF ForOthers
    <3> QED
      BY <2>1, <3>1, <3>2 DEF LinkInv, Finished
  <2> QED
    BY <2>1, <2>2, <2>3, <2>4, <2>5 DEF LinkInv
<1>2. CASE Next
  BY <1>2, ScoreStep, EmbedStep, EmbeddingFailsStep, RerankStep,
     RerankFailsStep, SelectStep, ResultStep, RouteStep, RelinkStep DEF Next
<1> QED
  BY <1>1, <1>2

-----------------------------------------------------------------------------
(* What link_schema promises                                               *)

(* Without embedding the order is the lexical one; a table both channels   *)
(* rank before another is before it.                                       *)
LEMMA PoolSound ==
    ASSUME LinkInv
    PROVE  DegradedIsLexical /\ FusionAgrees
<1>1. CASE pool = None
  BY <1>1 DEF DegradedIsLexical, FusionAgrees
<1>2. CASE pool # None
  <2>1. Fusing(pool)
    BY <1>2 DEF LinkInv, TypeOK, Pooled, Reranked
  <2>2. /\ pool.mode = "bm25_only" => pool.ranked = LexicalRanked
        /\ \A a \in ToSet(pool.fused) :
              RankIn(pool.ranked, a) = RankIn(pool.fused, a)
    BY <2>1, InputsGiven, FusingFacts
  <2> DEFINE u == Lexical
             v == pool.embedding
             f == pool.fused
  <2>3. Once(u, allowed) /\ Once(v, allowed) /\ f = Fused(u, v)
    BY <2>1, InputsGiven, LexicalFacts DEF Fusing
  <2>4. ASSUME NEW a \in ToSet(f), NEW b \in ToSet(f),
               Contribution(u, a) > Contribution(u, b),
               Contribution(v, a) >= Contribution(v, b)
        PROVE  RankIn(pool.ranked, a) < RankIn(pool.ranked, b)
    <3> DEFINE ra == RankIn(f, a)
               rb == RankIn(f, b)
    <3>0. RankIn(pool.ranked, a) = ra /\ RankIn(pool.ranked, b) = rb
      BY <2>2
    <3> HIDE DEF u, v, f
    <3>1. /\ Contribution(u, a) \in Nat /\ Contribution(u, b) \in Nat
          /\ Contribution(v, a) \in Nat /\ Contribution(v, b) \in Nat
      BY <2>3, InputsGiven, ScopeFacts, ContributionFacts
    <3>2. FusionScore(u, v, a) > FusionScore(u, v, b)
      BY <2>4, <3>1 DEF FusionScore
    <3>3. ra < rb
      BY <2>3, <3>2, InputsGiven, FusedFacts
    <3> QED
      BY <3>0, <3>3
  <2>5. FusionAgrees
    BY <2>4 DEF FusionAgrees
  <2> QED
    BY <2>2, <2>5 DEF DegradedIsLexical
<1> QED
  BY <1>1, <1>2

(* Every result is good.                                                   *)
LEMMA ResultsSound ==
    ASSUME LinkInv
    PROVE  /\ \A i \in DOMAIN results : Good(results[i])
           /\ phase = "done" => 2 \in DOMAIN results
<1>1. NoResult \/ OneResult \/ TwoResults
  BY DEF LinkInv, TypeOK, Early, Selecting, Between, Finished
<1>2. CASE NoResult
  BY <1>2 DEF NoResult, LinkInv, Finished, TwoResults
<1>3. CASE OneResult
  <2> DEFINE a == results[1]
  <2>1. results = <<a>> /\ Good(a)
    BY <1>3 DEF OneResult
  <2> HIDE DEF a
  <2>2. DOMAIN results = {1}
    BY <2>1
  <2>3. phase = "done" => TwoResults
    BY DEF LinkInv, Finished
  <2>4. TwoResults => DOMAIN results = {1, 2}
    <3> DEFINE c == results[1]
               d == results[2]
    <3>1. TwoResults => results = <<c, d>>
      BY DEF TwoResults
    <3> HIDE DEF c, d
    <3> QED
      BY <3>1
  <2> QED
    BY <2>1, <2>2, <2>3, <2>4
<1>4. CASE TwoResults
  <2> DEFINE a == results[1]
             b == results[2]
  <2>1. results = <<a, b>> /\ Good(a) /\ Good(b)
    BY <1>4 DEF TwoResults
  <2> HIDE DEF a, b
  <2>2. DOMAIN results = {1, 2}
    BY <2>1
  <2> QED
    BY <2>1, <2>2
<1> QED
  BY <1>1, <1>2, <1>3, <1>4

\* What LinkingSound of MCGeneration says of one part.
Sound ==
    /\ PoolAccepted /\ DegradedIsLexical /\ FusionAgrees /\ BudgetUsed
    /\ PathsConnect /\ ScopeKept

(* The invariant has all that is promised of link_schema.                  *)
LEMMA LinkPromises ==
    ASSUME LinkInv
    PROVE  Sound /\ BridgesKept
<1>1. PoolAccepted /\ DegradedIsLexical /\ FusionAgrees
  BY PoolSound DEF LinkInv, PoolAccepted
<1>2. BudgetUsed
  BY ResultsSound DEF BudgetUsed, Good
<1>3. ASSUME NEW i \in DOMAIN results
      PROVE  /\ results[i].tables \subseteq allowed
             /\ WellJoined(results[i].tables, results[i].paths)
             /\ \A p \in results[i].paths : ToSet(p) \subseteq allowed
  <2> DEFINE T == results[i].tables
             paths == results[i].paths
  <2>1. T \in SUBSET allowed /\ paths = JoinPaths(Visible, T)
    BY <1>3, ResultsSound DEF Good
  <2> HIDE DEF T, paths
  <2>2. WellJoined(T, paths) /\ \A p \in paths : ToSet(p) \subseteq allowed
    BY <2>1, InputsGiven, ScopeFacts, JoinPathsFacts
  <2> QED
    BY <2>1, <2>2 DEF T, paths
<1>4. PathsConnect
  BY <1>3 DEF PathsConnect
<1>5. ScopeKept
  <2>1. pool # None => ToSet(pool.ranked) = allowed
    <3> SUFFICES ASSUME pool # None
                 PROVE  ToSet(pool.ranked) = allowed
      OBVIOUS
    <3>1. Fusing(pool)
      BY DEF LinkInv, TypeOK, Pooled, Reranked
    <3> QED
      BY <3>1, InputsGiven, FusingFacts, ListsFacts
  <2> QED
    BY <1>3, <2>1 DEF ScopeKept
<1>6. BridgesKept
  BY DEF BridgesKept, LinkInv, Finished
<1> QED
  BY <1>1, <1>2, <1>4, <1>5, <1>6 DEF Sound

(* Whatever the tables, keys, scopes, scores and limits, what link_schema  *)
(* holds between its steps (the pool, the tables chosen and those left)    *)
(* is what its next step relies on.                                        *)
THEOREM LinkingInvariant ==
    ASSUME LinkingAssumption, GraphAssumption
    PROVE  Spec => []LinkInv
<1>1. Init => LinkInv
  BY LinkStarts
<1>2. LinkInv /\ [Next]_vars => LinkInv'
  BY LinkStep
<1> QED
  BY <1>1, <1>2, PTL DEF Spec

(* At every step link_schema keeps what it promises: it accepts its own    *)
(* pool, without embedding the order is the lexical one, with it a table   *)
(* both channels prefer comes first, the budget is used, the join paths    *)
(* connect what the keys connect by shortest ways inside the selection,    *)
(* nothing outside the scope is touched, and a table others need gives way *)
(* only to others of its kind.                                             *)
THEOREM LinkingPromised ==
    ASSUME LinkingAssumption, GraphAssumption
    PROVE  Spec => [](TypeOK /\ Sound /\ BridgesKept)
<1>1. LinkInv => TypeOK /\ Sound /\ BridgesKept
  BY LinkPromises DEF LinkInv
<1> QED
  BY <1>1, LinkingInvariant, PTL
=============================================================================
