--------------------------- MODULE ContextSelection ---------------------------
(***************************************************************************)
(* Which fields of the schema a model is told about: the order and the     *)
(* greedy choice of select_generation_context                              *)
(* (src/app/generation/context.py), then the binary search of              *)
(* _generate_sql (src/app/workflow/nodes/generate_sql.py), which weighs    *)
(* the messages again with the repair context, and the observation that    *)
(* reports what was sent.  A text is abstracted to its length in bytes.    *)
(***************************************************************************)
EXTENDS Integers, Sequences, FiniteSets, Functions

CONSTANTS
    Fields,         \* the candidate fields: all columns of the tables linked
    Rank,           \* their table's rank and their ID, as one number
    MaxScore,       \* bound: scores
    Joins,          \* the columns of the join paths, edge by edge: any of
    Relations,      \* column sets of the keys and join paths of the prompt
    Size,           \* bytes of the messages with these fields and relations
    RepairSizes,    \* bytes that a repair context adds; 0 in a first call
    Limits          \* pairs of max_input_tokens and max_output_tokens

Items == Fields \cup Relations

ContextAssumption ==
    /\ IsFiniteSet(Fields) /\ Rank \in [Fields -> Nat]
    /\ \A f, g \in Fields : Rank[f] = Rank[g] => f = g
    /\ MaxScore \in Nat
    /\ Joins \subseteq Seq(Fields)
    /\ Relations \subseteq SUBSET Fields
    /\ Size \in [SUBSET Items -> Nat]
    /\ \A S, T \in SUBSET Items : S \subseteq T => Size[S] <= Size[T]
    /\ RepairSizes \subseteq Nat
    /\ Limits \subseteq Int \X Int

VARIABLES
    score, matched, \* what retrieval says of each field
    joinColumns,    \* the columns of the join paths, with repetitions
    limits, repair, \* the model's limits and the size of the repair context
    phase,          \* where the selection is
    order,          \* the fields chosen so far, by priority
    required,       \* how many of them are required
    skipped,        \* optional fields that did not fit
    low, high,      \* the binary search
    sent,           \* how many fields the last messages hold
    observed        \* ContextSelectionObservation

inputs == <<score, matched, joinColumns, limits, repair>>
vars == <<inputs, phase, order, required, skipped, low, high, sent, observed>>

Prefix(s, n) == SubSeq(s, 1, n)

-----------------------------------------------------------------------------
(* The weight of the messages                                              *)

\* build_generation_messages shows a primary key, a foreign key or a join
\* path only when all its columns are selected.
Contents(S) == S \cup {r \in Relations : r \subseteq S}

\* estimate_message_tokens.
Tokens(bytes) == (bytes + 2) \div 3
Estimate(S, extra) == Tokens(Size[Contents(S)] + extra)

\* Floor division of Python and of TLA+.
Usable == (limits[1] * 4) \div 5 - limits[2]

LimitsValid == limits[1] > 0 /\ limits[2] > 0 /\ limits[2] < limits[1]

Observation(what, candidates, needed, selected, tokens, usable) ==
    [outcome |-> what, candidates |-> candidates, required |-> needed,
     selected |-> selected, pruned |-> candidates - selected,
     tokens |-> tokens, usable |-> usable]

NoObservation == Observation("none", 0, 0, 0, 0, 0)

\* The validator of the model of observations.
ObservationValid(o) ==
    /\ o.required >= 0 /\ o.required <= o.selected /\ o.pruned >= 0
    /\ o.tokens >= 0
    /\ o.selected + o.pruned = o.candidates
    /\ o.outcome = "selected" => o.tokens <= o.usable /\ o.usable >= 0
    /\ o.outcome = "required_overflow" => o.tokens > o.usable

Raised == [NoObservation EXCEPT !.outcome = "raised"]

\* Building an observation that is not valid raises, outside any try: the
\* wrapper turns it into an internal error.
Observes(o) ==
    /\ observed' = IF ObservationValid(o) THEN o ELSE Raised
    /\ phase' = "done"

\* The fields linked are what BM25 and the embedding say of the columns: a
\* matched token or an embedding rank means a positive score.
Init ==
    /\ score \in [Fields -> 0..MaxScore]
    /\ matched \in SUBSET {f \in Fields : score[f] > 0}
    /\ joinColumns \in Joins /\ limits \in Limits /\ repair \in RepairSizes
    /\ phase = "limits" /\ order = <<>> /\ required = 0 /\ skipped = {}
    /\ low = 0 /\ high = 0 /\ sent = 0 /\ observed = NoObservation

-----------------------------------------------------------------------------
(* select_generation_context                                               *)

\* The error path of _generate_sql: what the error does not tell is computed.
LimitsRefused ==
    /\ phase = "limits" /\ ~LimitsValid
    /\ Observes(Observation("required_overflow", Cardinality(Fields), 0, 0,
                            IF Usable + 1 > 0 THEN Usable + 1 ELSE 0, Usable))
    /\ UNCHANGED <<inputs, order, required, skipped, low, high, sent>>

LimitsAccepted ==
    /\ phase = "limits" /\ LimitsValid /\ phase' = "direct"
    /\ UNCHANGED <<inputs, order, required, skipped, low, high, sent,
                   observed>>

Seen == Range(order)
Direct == {f \in Fields : f \in matched}
Positive == {f \in Fields : score[f] > 0}

\* _field_sort_key.
Before(f, g) ==
    \/ score[f] > score[g]
    \/ score[f] = score[g] /\ Rank[f] <= Rank[g]

\* The next of a class in the order of the key.
FirstOf(f, class) == f \in class /\ \A g \in class : Before(f, g)

Appends(f) ==
    /\ order' = Append(order, f)
    /\ UNCHANGED <<inputs, phase, required, skipped, low, high, sent,
                   observed>>

Goes(from, to) ==
    /\ phase = from /\ phase' = to
    /\ UNCHANGED <<inputs, order, required, skipped, low, high, sent,
                   observed>>

TakeDirect ==
    /\ phase = "direct"
    /\ \E f \in Fields : FirstOf(f, Direct \ Seen) /\ Appends(f)

EndDirect == Direct \subseteq Seen /\ Goes("direct", "join")

\* Faulty variant: a column of two paths is not remembered.
FaultyTakeJoin ==
    /\ phase = "join" /\ Len(order) < Cardinality(Fields) + 1
    /\ \E i \in DOMAIN joinColumns :
        /\ joinColumns[i] \notin Direct
        /\ \A j \in 1..(i - 1) : joinColumns[j] \in Seen
        /\ Appends(joinColumns[i])

\* Columns of the join paths in their order, whatever their score.
TakeJoin ==
    /\ phase = "join"
    /\ \E i \in DOMAIN joinColumns :
        /\ joinColumns[i] \notin Seen
        /\ \A j \in 1..(i - 1) : joinColumns[j] \in Seen
        /\ Appends(joinColumns[i])

EndJoin == Range(joinColumns) \subseteq Seen /\ Goes("join", "positive")

\* What the embedding found has a positive score, so that the fourth class,
\* its fields without one, is empty.
TakePositive ==
    /\ phase = "positive"
    /\ \E f \in Fields : FirstOf(f, Positive \ Seen) /\ Appends(f)

\* Faulty variant: what only has a score is optional.
FaultyEndPositive ==
    /\ phase = "positive" /\ phase' = "required" /\ required' = Len(order)
    /\ UNCHANGED <<inputs, order, skipped, low, high, sent, observed>>

EndPositive ==
    /\ phase = "positive" /\ Positive \subseteq Seen /\ phase' = "required"
    /\ required' = Len(order)
    /\ UNCHANGED <<inputs, order, skipped, low, high, sent, observed>>

\* Faulty variant: the context is estimated before it is projected.
FaultyRequiredOverflows ==
    /\ phase = "required" /\ Estimate(Fields, 0) > Usable
    /\ Observes(Observation("required_overflow", Cardinality(Fields),
                            required, required, Estimate(Fields, 0), Usable))
    /\ UNCHANGED <<inputs, order, required, skipped, low, high, sent>>

\* The required fields alone do not fit.
RequiredOverflows ==
    /\ phase = "required" /\ Estimate(Seen, 0) > Usable
    /\ Observes(Observation("required_overflow", Cardinality(Fields),
                            required, required, Estimate(Seen, 0), Usable))
    /\ UNCHANGED <<inputs, order, required, skipped, low, high, sent>>

RequiredFits ==
    /\ Estimate(Seen, 0) <= Usable /\ Goes("required", "optional")

Optional == Fields \ (Seen \cup skipped)

TakeOptional ==
    /\ phase = "optional"
    /\ \E f \in Fields :
        /\ FirstOf(f, Optional)
        /\ Estimate(Seen \cup {f}, 0) <= Usable
        /\ Appends(f)

\* The next one may be smaller.
SkipOptional ==
    /\ phase = "optional"
    /\ \E f \in Fields :
        /\ FirstOf(f, Optional)
        /\ Estimate(Seen \cup {f}, 0) > Usable
        /\ skipped' = skipped \cup {f}
    /\ UNCHANGED <<inputs, phase, order, required, low, high, sent, observed>>

\* Faulty variants: the first field that does not fit ends the choice; the
\* search begins past the end.
FaultyEndOptional ==
    /\ phase = "optional" /\ (Optional = {} \/ skipped # {})
    /\ phase' = "search" /\ low' = required /\ high' = Len(order)
    /\ UNCHANGED <<inputs, order, required, skipped, sent, observed>>

FaultyEndOptionalPast ==
    /\ phase = "optional" /\ Optional = {} /\ phase' = "search"
    /\ low' = required /\ high' = Len(order) + 1
    /\ UNCHANGED <<inputs, order, required, skipped, sent, observed>>

EndOptional ==
    /\ phase = "optional" /\ Optional = {} /\ phase' = "search"
    /\ low' = required /\ high' = Len(order)
    /\ UNCHANGED <<inputs, order, required, skipped, sent, observed>>

-----------------------------------------------------------------------------
(* The search of _generate_sql                                             *)

FitsWithRepair(n) == Estimate(Range(Prefix(order, n)), repair) <= Usable

Middle == (low + high) \div 2

\* Faulty variants: a bound of the search moves one too far.
FaultyProbeFits ==
    /\ phase = "search" /\ low <= high /\ FitsWithRepair(Middle)
    /\ sent' = Middle /\ low' = Middle + 2
    /\ UNCHANGED <<inputs, phase, order, required, skipped, high, observed>>
FaultyProbeOverflows ==
    /\ phase = "search" /\ low <= high /\ ~FitsWithRepair(Middle)
    /\ sent' = Middle /\ high' = Middle - 2
    /\ UNCHANGED <<inputs, phase, order, required, skipped, low, observed>>

\* A probe replaces the messages and their estimate.
ProbeFits ==
    /\ phase = "search" /\ low <= high /\ FitsWithRepair(Middle)
    /\ sent' = Middle /\ low' = Middle + 1
    /\ UNCHANGED <<inputs, phase, order, required, skipped, high, observed>>

ProbeOverflows ==
    /\ phase = "search" /\ low <= high /\ ~FitsWithRepair(Middle)
    /\ sent' = Middle /\ high' = Middle - 1
    /\ UNCHANGED <<inputs, phase, order, required, skipped, low, observed>>

\* The messages are built once more, to report their size.
RepairOverflows ==
    /\ phase = "search" /\ low > high /\ high < required
    /\ sent' = required
    /\ Observes(Observation("required_overflow", Cardinality(Fields),
                    required, required,
                    Estimate(Range(Prefix(order, required)), repair), Usable))
    /\ UNCHANGED <<inputs, order, required, skipped, low, high>>

\* Faulty variant: the estimate of the whole selection is not compared.
FaultySelects ==
    /\ phase = "search" /\ low > high /\ high >= required
    /\ observed' = Observation("selected", Cardinality(Fields), required,
                       high, Estimate(Range(Prefix(order, sent)), repair),
                       Usable)
    /\ phase' = "done"
    /\ UNCHANGED <<inputs, order, required, skipped, low, high, sent>>

\* selected_field_ids[:high] is reported with the estimate of the last probe.
Selects ==
    /\ phase = "search" /\ low > high /\ high >= required
    /\ Observes(Observation("selected", Cardinality(Fields), required, high,
                    Estimate(Range(Prefix(order, sent)), repair), Usable))
    /\ UNCHANGED <<inputs, order, required, skipped, low, high, sent>>

Next ==
    \/ LimitsRefused \/ LimitsAccepted
    \/ TakeDirect \/ EndDirect \/ TakeJoin \/ EndJoin
    \/ TakePositive \/ EndPositive
    \/ RequiredOverflows \/ RequiredFits
    \/ TakeOptional \/ SkipOptional \/ EndOptional
    \/ ProbeFits \/ ProbeOverflows \/ RepairOverflows \/ Selects

Spec == Init /\ [][Next]_vars

-----------------------------------------------------------------------------
(* Properties                                                              *)

Phases == {"limits", "direct", "join", "positive", "required", "optional",
           "search", "done"}

\* Types of the state.
TypeOK ==
    /\ score \in [Fields -> 0..MaxScore] /\ matched \subseteq Fields
    /\ joinColumns \in Joins /\ limits \in Limits /\ repair \in RepairSizes
    /\ phase \in Phases
    /\ order \in Seq(Fields) /\ skipped \subseteq Fields
    /\ required \in 0..Len(order) /\ sent \in 0..Len(order)
    /\ low \in 0..(Len(order) + 1) /\ high \in -1..Len(order)

Selected == observed.outcome = "selected"
Chosen(n) == Range(Prefix(order, n))

\* A selection holds the required fields, fits with the repair context, and
\* no longer prefix of the priorities does: what the search is for.
LargestThatFits ==
    Selected =>
        /\ required <= high /\ high <= Len(order) /\ FitsWithRepair(high)
        /\ \A n \in (high + 1)..Len(order) : ~FitsWithRepair(n)

\* The messages that go to the model hold the fields reported as selected,
\* and the tokens reported are those of these messages.
SentIsReported ==
    Selected =>
        /\ sent = observed.selected
        /\ observed.tokens = Estimate(Chosen(observed.selected), repair)
        /\ observed.tokens <= Usable

\* Whatever has evidence of its own or carries a join is in the prompt of
\* every call that is made.
EvidenceKept ==
    Selected =>
        Direct \cup Positive \cup Range(joinColumns) \subseteq Chosen(high)

\* _validate_context never refuses the choice: no field comes twice.
NoFieldTwice == Cardinality(Seen) = Len(order)

\* An optional field was left out because it fits neither where it was tried
\* nor with the fields chosen after it.
NoRoomLeft ==
    phase = "search" =>
        \A f \in Fields \ Seen : Estimate(Seen \cup {f}, 0) > Usable

\* A first call, without a repair context, sends all that was chosen: its
\* search ends where it began, and its observation is valid.
FirstCallSendsAll ==
    (repair = 0 /\ phase = "done") =>
        /\ observed.outcome # "raised"
        /\ Selected => high = Len(order) /\ sent = Len(order)

\* A refusal is true: the limits are invalid, or the required fields alone
\* are too much for the messages of this call.
RefusalIsTrue ==
    observed.outcome = "required_overflow" =>
        ~LimitsValid \/ Estimate(Chosen(required), repair) > Usable

\* What generate_sql selects from the linked fields and sends.  It is the
\* longest prefix of the priorities that fits with the repair context; the
\* fields and the tokens reported are those of the messages sent; fields with
\* evidence of their own and fields that carry a join are in every prompt, an
\* optional field is left out only when it does not fit, none comes twice; a
\* first call sends all that was chosen; and an overflow is told only when the
\* required fields do not fit or the limits are invalid
\* (select_generation_context, _generate_sql).
SelectionRight ==
    /\ LargestThatFits /\ SentIsReported /\ EvidenceKept /\ NoRoomLeft
    /\ NoFieldTwice /\ FirstCallSendsAll /\ RefusalIsTrue

\* generate_sql.py:139-140 "Binary search: fields are priority-ordered, find
\* largest subset that fits within the token budget."  When the required
\* fields fit, the search would find a selection and report it.
SearchFinds ==
    (phase = "done" /\ LimitsValid /\ FitsWithRepair(required)) => Selected
=============================================================================
