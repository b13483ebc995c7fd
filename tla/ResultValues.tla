---------------------------- MODULE ResultValues ----------------------------
(***************************************************************************)
(* Column names, types and cells as evaluation/comparator.py tells them    *)
(* apart.  A column name is spelled as in the result and folded before     *)
(* use; a type is one representative of its class; a cell is a record      *)
(* whose "form" tells apart the spellings of one value: trailing blanks of *)
(* a text, the offset of a timestamp.                                      *)
(***************************************************************************)
EXTENDS Naturals

(* Case and blanks of a column name. *)
Folded == [spelled \in {"a", "b", "A"} |->
              IF spelled = "A" THEN "a" ELSE spelled]

StringTypes == {"text", "varchar"}
FloatTypes == {"float8"}
NumericTypes == {"int4"} \union FloatTypes

Null == [kind |-> "null", value |-> 0, form |-> "plain"]
NaN == [kind |-> "nan", value |-> 0, form |-> "plain"]
Number(v) == [kind |-> "number", value |-> v, form |-> "plain"]
Text(v, form) == [kind |-> "text", value |-> v, form |-> form]
Time(v, form) == [kind |-> "time", value |-> v, form |-> form]
=============================================================================
