-------------------------- MODULE ResultComparison --------------------------
(***************************************************************************)
(* The comparison of the result of a predicted query with the result of    *)
(* the reference ("Gold") query of an evaluation case                      *)
(* (evaluation/comparator.py, compare_results).  The whole function is one *)
(* step from a comparison to its code.                                     *)
(*                                                                         *)
(* Names, types and cells are those of ResultValues.  The pairing of the   *)
(* multiset mode is what RowMatching shows the code's search to decide.    *)
(***************************************************************************)
EXTENDS Integers, Sequences, FiniteSets, Functions, ResultValues

CONSTANT Families        \* the comparisons made: a sequence of sets of them

VARIABLES comparison,    \* predicted, gold, mode, ordered, tolerances, keys
          code           \* "none" or the code of the ComparisonResult

vars == <<comparison, code>>

-----------------------------------------------------------------------------
(* Cells.                                                                  *)

NormalizeString(c) ==
    IF c.kind = "text" THEN [c EXCEPT !.form = "plain"] ELSE c

StrictEqual(c, d) == NormalizeString(c) = NormalizeString(d)

Distance(x, y) == IF x < y THEN y - x ELSE x - y

Larger(x, y) == IF x < y THEN y ELSE x

(* mutant: a prediction below the gold value is always close *)
FaultyDecimalEqual(predicted, gold, tolerance) ==
    /\ predicted.kind = "number" /\ gold.kind = "number"
    /\ predicted.value - gold.value
          <= Larger(tolerance.absolute, tolerance.relative * gold.value)

(* Only finite numbers are close; the relative part is of the gold value.  *)
DecimalEqual(predicted, gold, tolerance) ==
    /\ predicted.kind = "number" /\ gold.kind = "number"
    /\ Distance(predicted.value, gold.value)
          <= Larger(tolerance.absolute, tolerance.relative * gold.value)

(* A timestamp is compared by its instant. *)
SameInstant(c, d) ==
    c.kind = "time" /\ d.kind = "time" /\ c.value = d.value

(* mutant: NULL equals nothing *)
FaultyValueEqual(predicted, gold, type, tolerance) ==
    /\ Null \notin {predicted, gold}
    /\ \/ \E t \in tolerance : DecimalEqual(predicted, gold, t)
       \/ /\ tolerance = {}
          /\ \/ StrictEqual(predicted, gold)
             \/ type = "timestamptz" /\ SameInstant(predicted, gold)

(* "tolerance" is the set of the column's tolerance, empty without one.    *)
ValueEqual(predicted, gold, type, tolerance) ==
    IF Null \in {predicted, gold}
    THEN predicted = gold
    ELSE \/ \E t \in tolerance : DecimalEqual(predicted, gold, t)
         \/ /\ tolerance = {}
            /\ \/ StrictEqual(predicted, gold)
               \/ type = "timestamptz" /\ SameInstant(predicted, gold)

-----------------------------------------------------------------------------
(* Columns.                                                                *)

Names(columns) == [i \in DOMAIN columns |-> Folded[columns[i].name]]

TypesAgree(s, t) == s = t \/ {s, t} \subseteq StringTypes

Position(names, name) == CHOOSE i \in DOMAIN names : names[i] = name

(* The later of two spellings of one column replaces the earlier.          *)
ToleranceOf(c, name) ==
    LET given == {i \in DOMAIN c.tolerances :
                     Folded[c.tolerances[i].column] = name}
    IN {c.tolerances[i] : i \in {j \in given : \A k \in given : k <= j}}

WellFormed(result) ==
    /\ IsInjective(Names(result.columns))
    /\ \A i \in DOMAIN result.rows :
          Len(result.rows[i]) = Len(result.columns)

SameColumns(c) ==
    LET p == c.predicted.columns
        g == c.gold.columns
    IN /\ Len(p) = Len(g)
       /\ WellFormed(c.predicted) /\ WellFormed(c.gold)
       /\ Range(Names(p)) = Range(Names(g))
       /\ \A i \in DOMAIN g :
             TypesAgree(p[Position(Names(p), Names(g)[i])].type, g[i].type)

(* mutant: columns by their position *)
FaultyAligned(c) == c.predicted.rows

(* The predicted rows with their cells in the order of the gold columns.   *)
Aligned(c) ==
    LET p == Names(c.predicted.columns)
        g == Names(c.gold.columns)
    IN [i \in DOMAIN c.predicted.rows |->
           [j \in DOMAIN g |-> c.predicted.rows[i][Position(p, g[j])]]]

-----------------------------------------------------------------------------
(* Rows.                                                                   *)

CellsEqual(c, r, s, columns) ==
    \A j \in columns :
       ValueEqual(r[j], s[j], c.gold.columns[j].type,
                  ToleranceOf(c, Names(c.gold.columns)[j]))

RowEqual(c, r, s) == CellsEqual(c, r, s, DOMAIN c.gold.columns)

KeyColumns(c) ==
    {Position(Names(c.gold.columns), Folded[c.keys[i]]) : i \in DOMAIN c.keys}

KeysEqual(c, r, s) == CellsEqual(c, r, s, KeyColumns(c))

OrderedRowsEqual(c, rows) ==
    \A i \in DOMAIN rows : RowEqual(c, rows[i], c.gold.rows[i])

UnorderedRowsEqual(c, rows) ==
    \E f \in Injection(DOMAIN rows, DOMAIN c.gold.rows) :
       \A i \in DOMAIN rows : RowEqual(c, rows[i], c.gold.rows[f[i]])

DuplicateKey(c, rows) ==
    \E i, j \in DOMAIN rows : i < j /\ KeysEqual(c, rows[i], rows[j])

(* mutant: several predicted rows on one gold row *)
FaultyKeyedRowsEqual(c, rows) ==
    \A i \in DOMAIN rows :
       LET matches == {j \in DOMAIN c.gold.rows :
                          KeysEqual(c, rows[i], c.gold.rows[j])}
       IN /\ Cardinality(matches) = 1
          /\ \A j \in matches : RowEqual(c, rows[i], c.gold.rows[j])

(* Every predicted row has the key of one gold row, no two the same one.   *)
KeyedRowsEqual(c, rows) ==
    LET matches == [i \in DOMAIN rows |->
                       {j \in DOMAIN c.gold.rows :
                           KeysEqual(c, rows[i], c.gold.rows[j])}]
    IN /\ \A i \in DOMAIN rows :
             /\ Cardinality(matches[i]) = 1
             /\ \A j \in matches[i] : RowEqual(c, rows[i], c.gold.rows[j])
       /\ IsInjective(matches)

ValidKeys(c) ==
    LET keys == [i \in DOMAIN c.keys |-> Folded[c.keys[i]]]
    IN /\ keys # <<>> /\ IsInjective(keys)
       /\ Range(keys) \subseteq Range(Names(c.gold.columns))

-----------------------------------------------------------------------------
(* The reasons to refuse, in the order in which they are looked for.  A    *)
(* later one is only looked at when no earlier one holds.                  *)
Refusal(c) ==
    LET g == c.gold.columns
        Tolerated(i) == ToleranceOf(c, Names(g)[i]) # {}
        Keyed == ~c.ordered /\ c.mode = "keyed"
    IN IF c.mode = "none" THEN "not_applicable"
       ELSE IF c.predicted.truncated \/ c.gold.truncated THEN "truncated"
       ELSE IF \/ ~SameColumns(c)
               \/ \E i \in DOMAIN c.tolerances :
                     Folded[c.tolerances[i].column] \notin Range(Names(g))
            THEN "columns"
       ELSE IF \E i \in DOMAIN g :
                  Tolerated(i) /\ g[i].type \notin NumericTypes
            THEN "invalid_tolerance"
       ELSE IF /\ \E i \in DOMAIN g :
                     g[i].type \in FloatTypes /\ ~Tolerated(i)
               /\ c.predicted.rows \o c.gold.rows # <<>>
            THEN "tolerance_required"
       ELSE IF Len(c.predicted.rows) # Len(c.gold.rows) THEN "grain"
       ELSE IF Keyed /\ ~ValidKeys(c) THEN "invalid_key"
       ELSE "none"

RowsMatch(c, rows) ==
    IF c.ordered \/ c.mode = "exact" THEN OrderedRowsEqual(c, rows)
    ELSE IF c.mode = "multiset" THEN UnorderedRowsEqual(c, rows)
    ELSE KeyedRowsEqual(c, rows)

CompareResults(c) ==
    LET Keyed == ~c.ordered /\ c.mode = "keyed"
    IN IF Refusal(c) # "none" THEN Refusal(c)
       ELSE IF /\ Keyed
               /\ \/ DuplicateKey(c, Aligned(c))
                  \/ DuplicateKey(c, c.gold.rows)
       THEN "duplicate_key"
       ELSE IF RowsMatch(c, Aligned(c)) THEN "match" ELSE "rows"

Init ==
    /\ \E i \in DOMAIN Families : comparison \in Families[i]
    /\ code = "none"

Compare ==
    /\ code = "none"
    /\ code' = CompareResults(comparison)
    /\ UNCHANGED comparison

Next == Compare

Spec == Init /\ [][Next]_vars

-----------------------------------------------------------------------------
(* What the connectors and the suite give the comparator: sequences of     *)
(* rows of cells, numbers in the columns of a numeric type, tolerances     *)
(* that are not negative.                                                  *)

Cell == [kind : {"null", "nan", "number", "text", "time"}, value : Nat,
         form : {"plain", "padded", "utc", "offset"}]
Results ==
    {r \in [columns : Seq([name : DOMAIN Folded, type : STRING]),
            rows : Seq(Seq(Cell)), truncated : BOOLEAN] :
        \A i \in DOMAIN r.rows :
           \A j \in DOMAIN r.rows[i] \intersect DOMAIN r.columns :
              r.columns[j].type \in NumericTypes =>
                  \/ r.rows[i][j] \in {Null, NaN}
                  \/ r.rows[i][j].kind = "number"}
Tolerances == [column : DOMAIN Folded, absolute : Nat, relative : Nat]
Comparisons ==
    [predicted : Results, gold : Results,
     mode : {"exact", "multiset", "keyed", "none"}, ordered : BOOLEAN,
     tolerances : Seq(Tolerances), keys : Seq(DOMAIN Folded)]

ComparisonAssumption ==
    \A i \in DOMAIN Families : Families[i] \subseteq Comparisons

-----------------------------------------------------------------------------
Codes == {"not_applicable", "truncated", "columns", "invalid_tolerance",
          "tolerance_required", "grain", "invalid_key", "duplicate_key",
          "rows", "match"}

(* A code of the comparator. *)
TypeOK == code \in Codes \union {"none"}

(* "The results match" is never said of two results unless their columns   *)
(* have the same names and all the rows can be paired one to one with      *)
(* equal cells: in the keyed mode too, where a row is only looked at       *)
(* through its key, and although a tolerance makes one key equal several.  *)
MatchIsPairing ==
    code = "match" =>
        /\ SameColumns(comparison)
        /\ Len(comparison.predicted.rows) = Len(comparison.gold.rows)
        /\ UnorderedRowsEqual(comparison, Aligned(comparison))

(* The order in which the predicted query lists its columns does not       *)
(* change the verdict.                                                     *)
Reversed(s) == [i \in DOMAIN s |-> s[Len(s) + 1 - i]]

ColumnOrderFree ==
    code # "none" =>
        LET p == comparison.predicted
            turned == [p EXCEPT !.columns = Reversed(@),
                                !.rows = [i \in DOMAIN @ |-> Reversed(@[i])]]
        IN CompareResults([comparison EXCEPT !.predicted = turned]) = code

(* Without relative tolerances no side is privileged: the comparison says  *)
(* the same when the predicted and the gold result change places.          *)
Symmetric ==
    (code # "none"
     /\ \A i \in DOMAIN comparison.tolerances :
           comparison.tolerances[i].relative = 0)
    => CompareResults([comparison EXCEPT !.predicted = comparison.gold,
                                         !.gold = comparison.predicted]) = code

(* A result that is not refused matches itself, or is told to have a       *)
(* duplicate key, unless a column holds something that is no finite number *)
(* or a key has a relative tolerance: "equal" then has a direction, and a  *)
(* key can be close to another one that is not close to it.                *)
MatchesItself ==
    (/\ code # "none"
     /\ comparison.predicted = comparison.gold
     /\ Refusal(comparison) = "none"
     /\ \A r \in Range(comparison.gold.rows) : NaN \notin Range(r)
     /\ \/ comparison.mode # "keyed"
        \/ \A i \in DOMAIN comparison.tolerances :
              comparison.tolerances[i].relative = 0)
    => code \in {"match", "duplicate_key"}
=============================================================================
