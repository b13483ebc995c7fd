--------------------------- MODULE GenerationProofs ---------------------------
(***************************************************************************)
(* From a question to SQL, for any fields, sizes, limits, routes, versions *)
(* and requests.  The selection: the greedy choice of                      *)
(* select_generation_context leaves out a field only when it does not fit, *)
(* and the binary search over its prefixes ends at the longest one that    *)
(* fits with the repair context.  Both rest on one fact about the          *)
(* estimate: more fields and more repair context never weigh less.  The    *)
(* calls: an observation tells the calls of its visit because the          *)
(* invariant knows at every step what was called, and that no call is made *)
(* once one was forbidden.  Schema linking has its proof in LinkingProofs; *)
(* here it is put beside the others.  The registry of embedding indexes,   *)
(* from which the linking takes its index, comes last.                     *)
(***************************************************************************)
EXTENDS MCGeneration, MCEmbeddingIndex, FiniteSetTheorems, SequenceTheorems, TLAPS

\* What has to be in every prompt.
Evidence == Direct \cup Positive \cup Range(joinColumns)

\* The search: the largest prefix that fits is between low - 1 and high, and
\* the last probe was at one of the two ends.
Searching ==
    /\ required <= low /\ low <= high + 1
    /\ low > required => FitsWithRepair(low - 1)
    /\ high < Len(order) => ~FitsWithRepair(high + 1)
    /\ \/ low = required /\ high = Len(order)
       \/ FitsWithRepair(sent) /\ sent = low - 1
       \/ ~FitsWithRepair(sent) /\ sent = high + 1

\* What the greedy choice knows, by the step it is at.
Choosing ==
    /\ phase \in {"limits", "direct", "join", "positive", "required"} =>
           skipped = {}
    /\ phase \in {"join", "positive"} => Direct \subseteq Seen
    /\ phase = "positive" => Range(joinColumns) \subseteq Seen
    /\ phase = "required" => required = Len(order)
    /\ phase \in {"required", "optional", "search"} =>
           Evidence \subseteq Chosen(required)
    /\ phase \in {"optional", "search"} =>
           /\ Estimate(Seen, 0) <= Usable
           /\ \A f \in skipped : Estimate(Seen \cup {f}, 0) > Usable

IInv ==
    /\ TypeOK /\ NoFieldTwice /\ Choosing
    /\ phase # "done" => observed = NoObservation
    /\ phase \notin {"limits", "done"} => LimitsValid
    /\ phase = "search" => NoRoomLeft /\ Searching
    /\ LargestThatFits /\ SentIsReported /\ EvidenceKept
    /\ FirstCallSendsAll /\ RefusalIsTrue

-----------------------------------------------------------------------------
(* The weight of the messages                                              *)

LEMMA ContextLegal == ContextAssumption
BY MCAssumption DEF MCAssumption

LEMMA ContentsGrow ==
  ASSUME NEW S \in SUBSET Fields, NEW T \in SUBSET Fields, S \subseteq T
  PROVE  /\ Contents(S) \in SUBSET Items /\ Contents(T) \in SUBSET Items
         /\ Contents(S) \subseteq Contents(T)
BY ContextLegal DEF ContextAssumption, Contents, Items

LEMMA TokensGrow ==
  ASSUME NEW a \in Nat, NEW b \in Nat, a <= b
  PROVE  Tokens(a) \in Nat /\ Tokens(b) \in Nat /\ Tokens(a) <= Tokens(b)
BY DEF Tokens

LEMMA EstimateGrows ==
  ASSUME NEW S \in SUBSET Fields, NEW T \in SUBSET Fields, S \subseteq T,
         NEW a \in Nat, NEW b \in Nat, a <= b
  PROVE  /\ Estimate(S, a) \in Nat /\ Estimate(T, b) \in Nat
         /\ Estimate(S, a) <= Estimate(T, b)
<1>1. /\ Size[Contents(S)] \in Nat /\ Size[Contents(T)] \in Nat
      /\ Size[Contents(S)] <= Size[Contents(T)]
  BY ContentsGrow, ContextLegal DEF ContextAssumption
<1>2. QED
  BY <1>1, TokensGrow DEF Estimate

\* A longer prefix holds more.
LEMMA PrefixesGrow ==
  ASSUME TypeOK, NEW n \in 0..Len(order), NEW m \in n..Len(order)
  PROVE  /\ Chosen(n) \subseteq Chosen(m) /\ Chosen(m) \subseteq Seen
         /\ Chosen(m) \in SUBSET Fields /\ Chosen(Len(order)) = Seen
         /\ Chosen(n) = {order[i] : i \in 1..n}
<1>1. \A k \in 0..Len(order) : Chosen(k) = {order[i] : i \in 1..k}
  <2> SUFFICES ASSUME NEW k \in 0..Len(order)
               PROVE  Chosen(k) = {order[i] : i \in 1..k}
    OBVIOUS
  <2>1. /\ DOMAIN SubSeq(order, 1, k) = 1..k
        /\ \A i \in 1..k : SubSeq(order, 1, k)[i] = order[i]
    BY DEF TypeOK
  <2>2. QED
    BY <2>1 DEF Chosen, Prefix, Range
<1>2. Seen = {order[i] : i \in 1..Len(order)} /\ Seen \in SUBSET Fields
  BY DEF TypeOK, Seen, Range
<1>3. QED
  BY <1>1, <1>2

LEMMA InputsTyped ==
  ASSUME TypeOK
  PROVE  /\ repair \in Nat /\ Usable \in Int /\ joinColumns \in Seq(Fields)
         /\ Len(order) \in Nat /\ Seen \in SUBSET Fields
         /\ Evidence \in SUBSET Fields
<1>1. repair \in Nat /\ joinColumns \in Seq(Fields) /\ limits \in Int \X Int
  BY ContextLegal DEF ContextAssumption, TypeOK
<1>2. Usable \in Int
  BY <1>1 DEF Usable
<1>3. Seen \in SUBSET Fields /\ Range(joinColumns) \in SUBSET Fields
  BY <1>1 DEF TypeOK, Seen, Range
<1>4. QED
  BY <1>1, <1>2, <1>3 DEF TypeOK, Evidence, Direct, Positive

LEMMA FitsShrinks ==
  ASSUME TypeOK, NEW n \in 0..Len(order), NEW m \in n..Len(order),
         FitsWithRepair(m)
  PROVE  FitsWithRepair(n)
<1>1. /\ Estimate(Chosen(n), repair) <= Estimate(Chosen(m), repair)
      /\ Estimate(Chosen(n), repair) \in Nat
      /\ Estimate(Chosen(m), repair) \in Nat
  <2>1. /\ Chosen(n) \in SUBSET Fields /\ Chosen(m) \in SUBSET Fields
        /\ Chosen(n) \subseteq Chosen(m)
    BY PrefixesGrow
  <2>2. repair \in Nat /\ repair <= repair
    BY InputsTyped
  <2>3. QED
    BY <2>1, <2>2, EstimateGrows
<1>2. Usable \in Int
  BY InputsTyped
<1>3. QED
  BY <1>1, <1>2 DEF FitsWithRepair, Chosen

\* There are at least as many candidates as fields chosen.
LEMMA ChosenCounted ==
  ASSUME TypeOK, NoFieldTwice
  PROVE  /\ Cardinality(Fields) \in Nat /\ Len(order) <= Cardinality(Fields)
         /\ IsFiniteSet(Seen)
<1>1. IsFiniteSet(Fields) /\ Seen \in SUBSET Fields
  BY ContextLegal, InputsTyped DEF ContextAssumption
<1>2. QED
  BY <1>1, FS_Subset, FS_CardinalityType DEF NoFieldTwice

-----------------------------------------------------------------------------
(* The greedy choice                                                       *)

\* Until the selection ends nothing is told.
LEMMA NothingTold ==
  ASSUME IInv, phase # "done", phase' # "done", UNCHANGED observed
  PROVE  /\ (phase' # "done" => observed' = NoObservation)
         /\ LargestThatFits' /\ SentIsReported' /\ EvidenceKept'
         /\ FirstCallSendsAll' /\ RefusalIsTrue'
BY DEF IInv, LargestThatFits, SentIsReported, EvidenceKept, FirstCallSendsAll,
   RefusalIsTrue, Selected, NoObservation, Observation

\* What a field does that is appended.
LEMMA AppendEffect ==
  ASSUME TypeOK, NoFieldTwice, NEW f \in Fields \ Seen, Appends(f)
  PROVE  /\ TypeOK' /\ NoFieldTwice' /\ Seen' = Seen \cup {f}
         /\ \A n \in 0..Len(order) : Chosen(n)' = Chosen(n)
         /\ Evidence' = Evidence /\ Direct' = Direct /\ Usable' = Usable
         /\ Positive' = Positive
         /\ LimitsValid' = LimitsValid /\ UNCHANGED <<inputs, required, skipped>>
<1>1. /\ order' \in Seq(Fields) /\ Len(order') = Len(order) + 1
      /\ \A i \in 1..Len(order) : order'[i] = order[i]
      /\ order'[Len(order) + 1] = f
  BY DEF TypeOK, Appends
<1>2. TypeOK'
  <2>1. required' \in 0..Len(order') /\ sent' \in 0..Len(order')
        /\ low' \in 0..(Len(order') + 1) /\ high' \in -1..Len(order')
    BY <1>1 DEF TypeOK, Appends
  <2>2. QED
    BY <1>1, <2>1 DEF TypeOK, Appends, inputs
<1>3. Seen' = Seen \cup {f}
  <2>1. /\ Seen = {order[i] : i \in 1..Len(order)}
        /\ Seen' = {order'[i] : i \in 1..Len(order')}
    <3>1. DOMAIN order = 1..Len(order) /\ DOMAIN order' = 1..Len(order')
      BY <1>1 DEF TypeOK
    <3>2. QED
      BY <3>1 DEF Seen, Range
  <2>2. Seen' \subseteq Seen \cup {f}
    BY <1>1, <2>1, InputsTyped
  <2>3. Seen \subseteq Seen' /\ f \in Seen'
    <3>1. 1..Len(order) \subseteq 1..Len(order') /\ Len(order') \in 1..Len(order')
      BY <1>1, InputsTyped
    <3>2. QED
      BY <1>1, <2>1, <3>1
  <2>4. QED
    BY <2>2, <2>3
<1>4. NoFieldTwice'
  <2>1. IsFiniteSet(Seen) /\ f \notin Seen
    BY ChosenCounted
  <2>2. Cardinality(Seen \cup {f}) = Cardinality(Seen) + 1
    BY <2>1, FS_AddElement
  <2>3. QED
    BY <1>1, <1>3, <2>2 DEF NoFieldTwice
<1>5. ASSUME NEW n \in 0..Len(order) PROVE Chosen(n)' = Chosen(n)
  <2>1. Chosen(n) = {order[i] : i \in 1..n}
    BY PrefixesGrow, n \in n..Len(order)
  <2>2. Chosen(n)' = {order'[i] : i \in 1..n}
    <3>1. /\ DOMAIN SubSeq(order', 1, n) = 1..n
          /\ \A i \in 1..n : SubSeq(order', 1, n)[i] = order'[i]
      BY <1>1, InputsTyped
    <3>2. QED
      BY <3>1 DEF Chosen, Prefix, Range
  <2>3. QED
    BY <1>1, <2>1, <2>2
<1>6. QED
  BY <1>2, <1>3, <1>4, <1>5
     DEF Appends, inputs, Evidence, Direct, Positive, Usable, LimitsValid

LEMMA TakeKeeps ==
  ASSUME IInv, NEW f \in Fields \ Seen, Appends(f),
         \/ phase \in {"direct", "join", "positive"}
         \/ phase = "optional" /\ Estimate(Seen \cup {f}, 0) <= Usable
  PROVE  IInv'
<1>1. /\ TypeOK' /\ NoFieldTwice' /\ Seen' = Seen \cup {f}
      /\ \A n \in 0..Len(order) : Chosen(n)' = Chosen(n)
      /\ Evidence' = Evidence /\ Direct' = Direct /\ Usable' = Usable
      /\ LimitsValid' = LimitsValid /\ UNCHANGED <<inputs, required, skipped>>
  BY AppendEffect DEF IInv
<1>2. phase' = phase /\ UNCHANGED observed
  BY DEF Appends
<1>3. Chosen(required)' = Chosen(required)
  BY <1>1 DEF IInv, TypeOK
<1>4. Choosing'
  <2>1. CASE phase # "optional"
    BY <1>1, <1>2, <2>1 DEF IInv, Choosing, inputs
  <2>2. CASE phase = "optional"
    <3>1. ASSUME NEW g \in skipped
          PROVE  Estimate(Seen' \cup {g}, 0) > Usable'
      <4>1. Estimate(Seen \cup {g}, 0) > Usable
        BY <2>2 DEF IInv, Choosing
      <4>2. /\ Estimate(Seen \cup {g}, 0) <= Estimate(Seen' \cup {g}, 0)
            /\ Estimate(Seen \cup {g}, 0) \in Nat
            /\ Estimate(Seen' \cup {g}, 0) \in Nat
        <5>1. /\ Seen \cup {g} \in SUBSET Fields
              /\ Seen' \cup {g} \in SUBSET Fields
              /\ Seen \cup {g} \subseteq Seen' \cup {g}
          BY <1>1, InputsTyped DEF IInv, TypeOK
        <5>2. QED
          BY <5>1, EstimateGrows
      <4>3. QED
        BY <1>1, <4>1, <4>2, InputsTyped DEF IInv
    <3>2. Estimate(Seen', 0) <= Usable'
      BY <1>1, <2>2
    <3>3. QED
      BY <1>1, <1>2, <1>3, <2>2, <3>1, <3>2 DEF IInv, Choosing
  <2>3. QED
    BY <2>1, <2>2
<1>5. QED
  BY <1>1, <1>2, <1>4, NothingTold DEF IInv

\* The next class, and the step from the choice to the check.
LEMMA GoesKeeps ==
  ASSUME IInv, NEW from, NEW to, Goes(from, to),
         \/ from = "direct" /\ to = "join" /\ Direct \subseteq Seen
         \/ from = "join" /\ to = "positive" /\ Range(joinColumns) \subseteq Seen
         \/ /\ from = "required" /\ to = "optional"
            /\ Estimate(Seen, 0) <= Usable
  PROVE  IInv'
<1>1. /\ phase = from /\ phase' = to /\ UNCHANGED observed
      /\ UNCHANGED <<inputs, order, required, skipped, low, high, sent>>
  BY DEF Goes
<1>2. TypeOK' /\ NoFieldTwice' /\ LimitsValid'
  BY <1>1 DEF IInv, TypeOK, NoFieldTwice, Seen, LimitsValid, inputs, Phases
<1>3. Choosing'
  BY <1>1 DEF IInv, Choosing, inputs, Seen, Direct, Positive, Evidence, Chosen,
     Usable
<1>4. phase # "done" /\ phase' # "done" /\ phase' # "search"
  BY <1>1
<1>5. QED
  BY <1>1, <1>2, <1>3, <1>4, NothingTold DEF IInv

LEMMA LimitsKeep ==
  ASSUME IInv, LimitsAccepted
  PROVE  IInv'
<1>1. /\ phase = "limits" /\ phase' = "direct" /\ UNCHANGED observed
      /\ UNCHANGED <<inputs, order, required, skipped, low, high, sent>>
      /\ LimitsValid
  BY DEF LimitsAccepted
<1>2. TypeOK' /\ NoFieldTwice' /\ LimitsValid'
  BY <1>1 DEF IInv, TypeOK, NoFieldTwice, Seen, LimitsValid, inputs, Phases
<1>3. Choosing'
  BY <1>1 DEF IInv, Choosing, inputs
<1>4. QED
  BY <1>1, <1>2, <1>3, NothingTold DEF IInv

LEMMA EndPositiveKeeps ==
  ASSUME IInv, EndPositive
  PROVE  IInv'
<1>1. /\ phase = "positive" /\ phase' = "required" /\ UNCHANGED observed
      /\ UNCHANGED <<inputs, order, skipped, low, high, sent>>
      /\ required' = Len(order) /\ Positive \subseteq Seen
  BY DEF EndPositive
<1>2. TypeOK' /\ NoFieldTwice' /\ LimitsValid'
  BY <1>1 DEF IInv, TypeOK, NoFieldTwice, Seen, LimitsValid, inputs, Phases
<1>3. Evidence \subseteq Seen
  BY <1>1 DEF IInv, Choosing, Evidence
<1>4. (Evidence \subseteq Chosen(required))'
  <2>1. Chosen(Len(order)) = Seen
    BY PrefixesGrow, 0 \in 0..Len(order), Len(order) \in 0..Len(order),
       InputsTyped DEF IInv
  <2>2. Chosen(required)' = Seen
    BY <1>1, <2>1 DEF Chosen
  <2>3. QED
    BY <1>1, <1>3, <2>2 DEF Evidence, Direct, Positive, inputs
<1>5. Choosing'
  BY <1>1, <1>4 DEF IInv, Choosing
<1>6. QED
  BY <1>1, <1>2, <1>5, NothingTold DEF IInv

LEMMA SkipKeeps ==
  ASSUME IInv, SkipOptional
  PROVE  IInv'
<1>1. PICK f \in Fields : /\ Estimate(Seen \cup {f}, 0) > Usable
                          /\ skipped' = skipped \cup {f}
  BY DEF SkipOptional
<1>2. /\ phase = "optional" /\ phase' = phase /\ UNCHANGED observed
      /\ UNCHANGED <<inputs, order, required, low, high, sent>>
  BY DEF SkipOptional
<1>3. TypeOK' /\ NoFieldTwice' /\ LimitsValid'
  BY <1>1, <1>2 DEF IInv, TypeOK, NoFieldTwice, Seen, LimitsValid, inputs
<1>4. Choosing'
  BY <1>1, <1>2 DEF IInv, Choosing, inputs, Seen, Direct, Positive, Evidence,
     Chosen, Usable
<1>5. QED
  BY <1>1, <1>2, <1>3, <1>4, NothingTold DEF IInv

\* Nothing optional is left: what was not chosen was skipped.
LEMMA EndOptionalKeeps ==
  ASSUME IInv, EndOptional
  PROVE  IInv'
<1>1. /\ phase = "optional" /\ phase' = "search" /\ UNCHANGED observed
      /\ UNCHANGED <<inputs, order, required, skipped, sent>>
      /\ low' = required /\ high' = Len(order) /\ Optional = {}
  BY DEF EndOptional
<1>2. TypeOK' /\ NoFieldTwice' /\ LimitsValid'
  BY <1>1, InputsTyped
     DEF IInv, TypeOK, NoFieldTwice, Seen, LimitsValid, inputs, Phases
<1>3. Choosing'
  BY <1>1 DEF IInv, Choosing, inputs, Seen, Direct, Positive, Evidence, Chosen,
     Usable
<1>4. NoRoomLeft'
  <2>1. \A f \in Fields \ Seen : f \in skipped
    BY <1>1 DEF Optional
  <2>2. QED
    BY <1>1, <2>1 DEF IInv, Choosing, NoRoomLeft, inputs, Seen, Usable
<1>5. Searching'
  BY <1>1, InputsTyped DEF IInv, TypeOK, Searching
<1>6. QED
  BY <1>1, <1>2, <1>3, <1>4, <1>5, NothingTold DEF IInv

-----------------------------------------------------------------------------
(* The search                                                              *)

\* A probe is at a prefix between the two bounds.
LEMMA ProbeBetween ==
  ASSUME IInv, phase = "search", low <= high
  PROVE  /\ Middle \in low..high /\ low \in Nat /\ high \in Nat
         /\ low >= required /\ required \in Nat /\ Len(order) \in Nat
         /\ high <= Len(order) /\ Middle \in 0..Len(order)
<1>1. /\ low \in Nat /\ high \in Int /\ low >= required /\ required \in Nat
      /\ high <= Len(order) /\ Len(order) \in Nat
  BY InputsTyped DEF IInv, TypeOK, Searching
<1>2. QED
  BY <1>1 DEF Middle

LEMMA ProbesKeep ==
  ASSUME IInv, ProbeFits \/ ProbeOverflows
  PROVE  IInv'
<1>1. /\ phase = "search" /\ phase' = phase /\ UNCHANGED observed
      /\ UNCHANGED <<inputs, order, required, skipped>>
      /\ low <= high /\ sent' = Middle
      /\ \/ FitsWithRepair(Middle) /\ low' = Middle + 1 /\ high' = high
         \/ ~FitsWithRepair(Middle) /\ high' = Middle - 1 /\ low' = low
  BY DEF ProbeFits, ProbeOverflows
<1>2. /\ Middle \in low..high /\ low \in Nat /\ high \in Nat
      /\ low >= required /\ required \in Nat /\ Len(order) \in Nat
      /\ high <= Len(order) /\ Middle \in 0..Len(order)
  BY <1>1, ProbeBetween
<1>3. TypeOK' /\ NoFieldTwice' /\ LimitsValid'
  BY <1>1, <1>2 DEF IInv, TypeOK, NoFieldTwice, Seen, LimitsValid, inputs
<1>4. Choosing' /\ NoRoomLeft'
  BY <1>1 DEF IInv, Choosing, NoRoomLeft, inputs, Seen, Direct, Positive,
     Evidence, Chosen, Usable
<1>5. \A n : FitsWithRepair(n)' <=> FitsWithRepair(n)
  BY <1>1 DEF FitsWithRepair, inputs, Usable
<1>6. Searching'
  <2>1. Searching
    BY <1>1 DEF IInv
  <2>2. CASE FitsWithRepair(Middle)
    <3>1. low' = sent' + 1 /\ high' = high /\ sent' = Middle
      BY <1>1, <2>2
    <3>2. (FitsWithRepair(sent))' /\ (FitsWithRepair(low - 1))'
      <4>1. low' - 1 = Middle
        BY <3>1, <1>2
      <4>2. QED
        BY <1>1, <1>2, <2>2, <3>1, <4>1 DEF FitsWithRepair, inputs, Usable
    <3>3. (high < Len(order) => ~FitsWithRepair(high + 1))'
      BY <1>1, <2>1, <3>1 DEF Searching, FitsWithRepair, inputs, Usable
    <3>4. QED
      BY <1>1, <1>2, <3>1, <3>2, <3>3 DEF Searching
  <2>3. CASE ~FitsWithRepair(Middle)
    <3>1. high' = sent' - 1 /\ low' = low /\ sent' = Middle
      BY <1>1, <2>3
    <3>2. ~(FitsWithRepair(sent))' /\ ~(FitsWithRepair(high + 1))'
      <4>1. high' + 1 = Middle
        BY <3>1, <1>2
      <4>2. QED
        BY <1>1, <1>2, <2>3, <3>1, <4>1 DEF FitsWithRepair, inputs, Usable
    <3>3. (low > required => FitsWithRepair(low - 1))'
      BY <1>1, <2>1, <3>1 DEF Searching, FitsWithRepair, inputs, Usable
    <3>4. QED
      BY <1>1, <1>2, <3>1, <3>2, <3>3 DEF Searching
  <2>4. QED
    BY <2>2, <2>3
<1>7. QED
  BY <1>1, <1>3, <1>4, <1>6, NothingTold DEF IInv

\* A first call adds nothing to what the choice has weighed.
LEMMA FirstCallFits ==
  ASSUME IInv, phase = "search", repair = 0, NEW n \in 0..Len(order)
  PROVE  FitsWithRepair(n)
<1>1. FitsWithRepair(Len(order))
  <2>1. Chosen(Len(order)) = Seen
    BY PrefixesGrow, n \in 0..Len(order), Len(order) \in n..Len(order),
       InputsTyped DEF IInv
  <2>2. QED
    BY <2>1 DEF IInv, Choosing, FitsWithRepair, Chosen
<1>2. QED
  BY <1>1, FitsShrinks, Len(order) \in n..Len(order), InputsTyped DEF IInv

-----------------------------------------------------------------------------
(* The end                                                                 *)

\* The observation of an overflow is valid.
LEMMA OverflowTold ==
  ASSUME NEW c \in Nat, NEW n \in 0..c, NEW t \in Nat, NEW u \in Int, t > u,
         Observes(Observation("required_overflow", c, n, n, t, u))
  PROVE  observed' = Observation("required_overflow", c, n, n, t, u)
<1>1. ObservationValid(Observation("required_overflow", c, n, n, t, u))
  BY DEF ObservationValid, Observation
<1>2. QED
  BY <1>1 DEF Observes

LEMMA RefusedKeeps ==
  ASSUME IInv, LimitsRefused
  PROVE  IInv'
<1>1. /\ phase = "limits" /\ phase' = "done" /\ ~LimitsValid
      /\ UNCHANGED <<inputs, order, required, skipped, low, high, sent>>
  BY DEF LimitsRefused, Observes
<1>2. observed'.outcome = "required_overflow"
  <2> DEFINE over == IF Usable + 1 > 0 THEN Usable + 1 ELSE 0
  <2>1. Usable \in Int /\ over \in Nat /\ over > Usable
    BY InputsTyped DEF IInv
  <2>2. Cardinality(Fields) \in Nat /\ 0 \in 0..Cardinality(Fields)
    BY ChosenCounted DEF IInv
  <2>3. Observes(Observation("required_overflow", Cardinality(Fields), 0, 0,
                             over, Usable))
    BY DEF LimitsRefused
  <2> HIDE DEF over
  <2>4. observed' = Observation("required_overflow", Cardinality(Fields), 0, 0,
                                over, Usable)
    BY <2>1, <2>2, <2>3, OverflowTold
  <2>5. QED
    BY <2>4 DEF Observation
<1>3. TypeOK' /\ NoFieldTwice' /\ ~LimitsValid' /\ Choosing'
  BY <1>1 DEF IInv, TypeOK, NoFieldTwice, Seen, LimitsValid, inputs, Phases,
     Choosing
<1>4. QED
  BY <1>1, <1>2, <1>3 DEF IInv, LargestThatFits, SentIsReported, EvidenceKept,
     FirstCallSendsAll, RefusalIsTrue, Selected

LEMMA OverflowKeeps ==
  ASSUME IInv, RequiredOverflows
  PROVE  IInv'
<1>1. /\ phase = "required" /\ phase' = "done" /\ required = Len(order)
      /\ UNCHANGED <<inputs, order, required, skipped, low, high, sent>>
      /\ Estimate(Seen, 0) > Usable
  BY DEF RequiredOverflows, Observes, IInv, Choosing
<1>2. /\ Chosen(required) = Seen /\ Seen \in SUBSET Fields
  BY <1>1, PrefixesGrow, 0 \in 0..Len(order), Len(order) \in 0..Len(order),
     InputsTyped DEF IInv
<1>3. /\ Estimate(Seen, 0) \in Nat /\ Estimate(Seen, repair) \in Nat
      /\ Estimate(Seen, 0) <= Estimate(Seen, repair)
  <2>1. repair \in Nat /\ 0 <= repair /\ 0 \in Nat /\ Seen \subseteq Seen
    BY InputsTyped DEF IInv
  <2>2. QED
    BY <1>2, <2>1, EstimateGrows
<1>4. observed'.outcome = "required_overflow"
  <2>1. /\ Usable \in Int /\ Cardinality(Fields) \in Nat
        /\ required \in 0..Cardinality(Fields)
    BY <1>1, ChosenCounted, InputsTyped DEF IInv
  <2>2. observed' = Observation("required_overflow", Cardinality(Fields),
                        required, required, Estimate(Seen, 0), Usable)
    BY <1>1, <1>3, <2>1, OverflowTold DEF RequiredOverflows
  <2>3. QED
    BY <2>2 DEF Observation
<1>5. TypeOK' /\ NoFieldTwice' /\ Choosing'
  BY <1>1 DEF IInv, TypeOK, NoFieldTwice, Seen, inputs, Phases, Choosing
<1>6. RefusalIsTrue'
  <2>1. Estimate(Chosen(required), repair) > Usable
    BY <1>1, <1>2, <1>3, InputsTyped DEF IInv
  <2>2. QED
    BY <1>1, <2>1 DEF RefusalIsTrue, Chosen, Usable, inputs
<1>7. QED
  BY <1>1, <1>4, <1>5, <1>6 DEF IInv, LargestThatFits, SentIsReported,
     EvidenceKept, FirstCallSendsAll, Selected

\* The required fields do not fit: the search went below them.
LEMMA RepairOverflowKeeps ==
  ASSUME IInv, RepairOverflows
  PROVE  IInv'
<1>1. /\ phase = "search" /\ phase' = "done" /\ low > high /\ high < required
      /\ UNCHANGED <<inputs, order, required, skipped, low, high>>
      /\ sent' = required
  BY DEF RepairOverflows, Observes
<1>2. /\ required \in 0..Len(order) /\ low \in Nat /\ high \in Int
      /\ Len(order) \in Nat /\ Searching
  BY <1>1, InputsTyped DEF IInv, TypeOK
<1>3. high + 1 = required /\ ~FitsWithRepair(required)
  <2>1. high + 1 = required /\ high < Len(order)
    BY <1>1, <1>2 DEF Searching
  <2>2. QED
    BY <1>2, <2>1 DEF Searching
<1>4. /\ Estimate(Chosen(required), repair) \in Nat
      /\ Estimate(Chosen(required), repair) > Usable /\ Usable \in Int
  <2>1. repair \in Nat /\ repair <= repair /\ Usable \in Int
    BY InputsTyped DEF IInv
  <2>2. Chosen(required) \in SUBSET Fields
    BY <1>2, PrefixesGrow, required \in required..Len(order) DEF IInv
  <2>3. Estimate(Chosen(required), repair) \in Nat
    BY <2>1, <2>2, EstimateGrows
  <2>4. QED
    BY <1>3, <2>1, <2>3 DEF FitsWithRepair, Chosen
<1>5. observed'.outcome = "required_overflow"
  <2>1. /\ Cardinality(Fields) \in Nat /\ required \in 0..Cardinality(Fields)
    BY <1>2, ChosenCounted DEF IInv
  <2>2. observed' = Observation("required_overflow", Cardinality(Fields),
                        required, required,
                        Estimate(Chosen(required), repair), Usable)
    BY <1>4, <2>1, OverflowTold DEF RepairOverflows, Chosen
  <2>3. QED
    BY <2>2 DEF Observation
<1>6. TypeOK' /\ NoFieldTwice' /\ Choosing'
  BY <1>1, <1>2 DEF IInv, TypeOK, NoFieldTwice, Seen, inputs, Phases, Choosing
<1>7. RefusalIsTrue'
  BY <1>1, <1>4 DEF RefusalIsTrue, Chosen, Usable, inputs
<1>8. QED
  BY <1>1, <1>5, <1>6, <1>7 DEF IInv, LargestThatFits, SentIsReported,
     EvidenceKept, FirstCallSendsAll, Selected

\* When the last probe fits, what it sent is what is selected; otherwise the
\* observation is refused.
LEMMA SelectsKeeps ==
  ASSUME IInv, Selects
  PROVE  IInv'
<1> DEFINE tokens == Estimate(Chosen(sent), repair)
<1> DEFINE o == Observation("selected", Cardinality(Fields), required, high,
                            tokens, Usable)
<1>1. /\ phase = "search" /\ phase' = "done" /\ low > high /\ high >= required
      /\ UNCHANGED <<inputs, order, required, skipped, low, high, sent>>
      /\ observed' = IF ObservationValid(o) THEN o ELSE Raised
  BY DEF Selects, Observes, Chosen
<1>2. /\ required \in 0..Len(order) /\ low \in Nat /\ high \in 0..Len(order)
      /\ Len(order) \in Nat /\ sent \in 0..Len(order) /\ Searching
      /\ Usable \in Int /\ repair \in Nat
  BY <1>1, InputsTyped DEF IInv, TypeOK
<1>3. /\ low = high + 1
      /\ \/ FitsWithRepair(sent) /\ sent = high
         \/ ~FitsWithRepair(sent) /\ sent = high + 1
  BY <1>1, <1>2 DEF Searching
<1>4. tokens \in Nat /\ (FitsWithRepair(sent) <=> tokens <= Usable)
  <2>1. Chosen(sent) \in SUBSET Fields
    BY <1>2, PrefixesGrow, sent \in sent..Len(order) DEF IInv
  <2>2. tokens \in Nat
    BY <1>2, <2>1, EstimateGrows, repair <= repair
  <2>3. QED
    BY <2>2 DEF FitsWithRepair, Chosen
<1>5. Cardinality(Fields) \in Nat /\ high <= Cardinality(Fields)
  BY <1>2, ChosenCounted DEF IInv
<1>6. ObservationValid(o) <=> FitsWithRepair(sent)
  <2> HIDE DEF tokens
  <2>1. QED
    BY <1>1, <1>2, <1>4, <1>5 DEF ObservationValid, Observation
<1>7. /\ Selected' <=> FitsWithRepair(sent)
      /\ observed'.outcome # "required_overflow"
      /\ observed'.outcome = "raised" => ~FitsWithRepair(sent)
      /\ Selected' => observed'.selected = high /\ observed'.tokens = tokens
  <2> HIDE DEF tokens
  <2>1. QED
    BY <1>1, <1>6 DEF Raised, NoObservation, Observation, Selected
<1>8. TypeOK' /\ NoFieldTwice' /\ Choosing' /\ ~(phase # "done")'
  BY <1>1, <1>2 DEF IInv, TypeOK, NoFieldTwice, Seen, inputs, Phases, Choosing
<1>9. \A n : /\ FitsWithRepair(n)' <=> FitsWithRepair(n)
             /\ Chosen(n)' = Chosen(n)
  BY <1>1 DEF FitsWithRepair, Chosen, Usable, inputs
<1>10. ASSUME NEW n \in (high + 1)..Len(order) PROVE ~FitsWithRepair(n)
  <2>1. high < Len(order) /\ high + 1 \in 0..Len(order)
    BY <1>2
  <2>2. ~FitsWithRepair(high + 1)
    BY <1>2, <2>1 DEF Searching
  <2>3. QED
    BY <1>2, <2>1, <2>2, FitsShrinks DEF IInv
<1>11. LargestThatFits'
  <2>1. CASE Selected'
    <3>1. FitsWithRepair(high) /\ (FitsWithRepair(high))'
      BY <1>1, <1>3, <1>7, <2>1 DEF FitsWithRepair, Usable, inputs
    <3>2. ASSUME NEW n \in ((high + 1)..Len(order))'
          PROVE  ~FitsWithRepair(n)'
      BY <1>1, <1>9, <1>10
    <3>3. QED
      BY <1>1, <1>2, <3>1, <3>2 DEF LargestThatFits
  <2>2. QED
    BY <2>1 DEF LargestThatFits
<1>12. SentIsReported'
  <2>1. CASE Selected'
    <3>1. /\ sent' = observed'.selected /\ observed'.tokens = tokens
          /\ tokens <= Usable /\ Usable' = Usable /\ sent = sent'
      BY <1>1, <1>3, <1>4, <1>7, <2>1 DEF Usable, inputs
    <3>2. tokens = Estimate(Chosen(observed.selected), repair)'
      BY <1>1, <3>1 DEF Chosen, inputs
    <3>3. QED
      BY <3>1, <3>2 DEF SentIsReported
  <2>2. QED
    BY <2>1 DEF SentIsReported
<1>13. EvidenceKept'
  <2>1. Evidence \subseteq Chosen(required)
    BY <1>1 DEF IInv, Choosing
  <2>2. Chosen(required) \subseteq Chosen(high)
    BY <1>1, <1>2, PrefixesGrow, high \in required..Len(order) DEF IInv
  <2>3. QED
    BY <1>1, <2>1, <2>2 DEF EvidenceKept, Evidence, Direct, Positive, Chosen,
       inputs
<1>14. FirstCallSendsAll'
  <2>1. CASE repair = 0
    <3>1. \A n \in 0..Len(order) : FitsWithRepair(n)
      BY <1>1, <2>1, FirstCallFits
    <3>2. FitsWithRepair(sent) /\ sent = high /\ high = Len(order)
      <4>1. FitsWithRepair(sent) /\ sent = high
        BY <1>2, <1>3, <3>1
      <4>2. ~(high < Len(order))
        BY <1>2, <3>1, high + 1 \in 0..Len(order) \/ ~(high < Len(order))
           DEF Searching
      <4>3. QED
        BY <1>2, <4>1, <4>2
    <3>3. QED
      BY <1>1, <1>7, <3>2 DEF FirstCallSendsAll
  <2>2. QED
    BY <1>1, <2>1 DEF FirstCallSendsAll, inputs
<1>15. QED
  BY <1>1, <1>7, <1>8, <1>11, <1>12, <1>13, <1>14 DEF IInv, RefusalIsTrue

-----------------------------------------------------------------------------
(* The selection                                                           *)

LEMMA SelectionBegins == Init => IInv
<1> SUFFICES ASSUME Init PROVE IInv
  OBVIOUS
<1>1. TypeOK
  BY DEF Init, TypeOK, Phases
<1>2. NoFieldTwice
  <2>1. Seen = {}
    BY DEF Init, Seen, Range
  <2>2. QED
    BY <2>1, FS_EmptySet DEF Init, NoFieldTwice
<1>3. Choosing
  BY DEF Init, Choosing
<1>4. QED
  BY <1>1, <1>2, <1>3 DEF Init, IInv, LargestThatFits, SentIsReported,
     EvidenceKept, FirstCallSendsAll, RefusalIsTrue, Selected, NoObservation,
     Observation

LEMMA SelectionKeeps == IInv /\ [Next]_vars => IInv'
<1> SUFFICES ASSUME IInv, [Next]_vars PROVE IInv'
  OBVIOUS
<1>1. CASE TakeDirect
  BY <1>1, TakeKeeps DEF TakeDirect, FirstOf, Direct
<1>2. CASE TakeJoin
  <2>1. PICK i \in DOMAIN joinColumns :
               joinColumns[i] \notin Seen /\ Appends(joinColumns[i])
    BY <1>2 DEF TakeJoin
  <2>2. joinColumns[i] \in Fields
    BY InputsTyped, <2>1 DEF IInv
  <2>3. QED
    BY <1>2, <2>1, <2>2, TakeKeeps DEF TakeJoin
<1>3. CASE TakePositive
  BY <1>3, TakeKeeps DEF TakePositive, FirstOf, Positive
<1>4. CASE TakeOptional
  BY <1>4, TakeKeeps DEF TakeOptional, FirstOf, Optional
<1>5. CASE EndDirect \/ EndJoin \/ RequiredFits
  BY <1>5, GoesKeeps DEF EndDirect, EndJoin, RequiredFits
<1>6. CASE UNCHANGED vars
  BY <1>6 DEF vars, inputs, IInv, TypeOK, NoFieldTwice, Choosing, LimitsValid,
     NoRoomLeft, Searching, LargestThatFits, SentIsReported, EvidenceKept,
     FirstCallSendsAll, RefusalIsTrue, Selected, Chosen, FitsWithRepair, Seen,
     Direct, Positive, Evidence, Usable
<1>7. QED
  BY <1>1, <1>2, <1>3, <1>4, <1>5, <1>6, LimitsKeep, RefusedKeeps,
     EndPositiveKeeps, OverflowKeeps, SkipKeeps, EndOptionalKeeps, ProbesKeep,
     RepairOverflowKeeps, SelectsKeeps DEF Next

\* Whatever the fields, their sizes and the limits, the inductive invariant
\* of the selection holds.
THEOREM SelectionInvariant == Spec => []IInv
BY SelectionBegins, SelectionKeeps, PTL DEF Spec

\* What is sent is the longest prefix that fits and is what is reported, all
\* evidence is in it, a first call sends all that was chosen and a refusal is
\* true (select_generation_context, _generate_sql).
THEOREM Selection == Spec => []SelectionRight
<1>1. IInv => SelectionRight
  BY DEF IInv, SelectionRight, NoRoomLeft
<1>2. QED
  BY <1>1, SelectionInvariant, PTL

-----------------------------------------------------------------------------
(* The calls of the models                                                 *)

RouteTable ==
    [Routes -> [primary : Routing!Targets0,
                fallback : Routing!Targets0 \cup {None}]]

\* What a visit has done, by the step it is at.  A call that the deadline
\* forbids is not made; then none is made later in the visit.
AtPrimary ==
    /\ primary_error = None
    /\ phase = "call" => made = <<>>
    /\ phase \in {"calling", "answered"} => made = <<"primary">>
    /\ phase = "refused" =>
           \/ made = <<"primary">> /\ code \in Routing!Codes
           \/ made = <<>> /\ code = "LLM_TIMEOUT" /\ now >= Deadline
AtFallback ==
    /\ primary_error \in Routing!FallbackCodes
    /\ table[route].fallback # None
    /\ phase = "call" =>
           \/ made = <<"primary">>
           \/ made = <<>> /\ primary_error = "LLM_TIMEOUT" /\ now >= Deadline
    /\ phase \in {"calling", "answered"} => made = <<"primary", "fallback">>
    /\ phase = "refused" =>
           \/ made = <<"primary", "fallback">> /\ code \in Routing!Codes
           \/ made = <<"primary">> /\ code = "LLM_TIMEOUT" /\ now >= Deadline
           \/ /\ made = <<>> /\ code = "LLM_TIMEOUT" /\ now >= Deadline
              /\ primary_error = "LLM_TIMEOUT"

\* The visits whose model answered.
Served ==
    {i \in DOMAIN observations : \/ observations[i].outcome = "succeeded"
                                 \/ observations[i].stage = "normalization"}

RInv ==
    /\ Routing!TypeOK
    /\ phase = "start" => observations = <<>>
    /\ phase # "start" =>
           table \in RouteTable /\ \A r \in Routes : Routing!RouteValid(table[r])
    /\ phase \in {"call", "calling", "refused", "answered"} =>
           /\ route \in Routes /\ at \in Routing!Targets
           /\ at = "primary" => AtPrimary
           /\ at = "fallback" => AtFallback
    /\ Routing!WithinDeadline /\ Routing!AskedOnce /\ Routing!LeavesTruth
    /\ Routing!LostOnlyLate
    /\ phase # "raised" =>
           answers = Cardinality(Served) + (IF phase = "answered" THEN 1 ELSE 0)
    /\ \A i \in DOMAIN observations : observations[i].number = i

LEMMA RoutingLegal == Routing!RoutingAssumption
BY MCAssumption DEF MCAssumption

LEMMA ServedCounted ==
  ASSUME Routing!TypeOK
  PROVE  IsFiniteSet(Served) /\ Cardinality(Served) \in Nat
<1>1. Served \subseteq 1..Len(observations) /\ Len(observations) \in Nat
  BY DEF Routing!TypeOK, Served
<1>2. IsFiniteSet(1..Len(observations))
  BY <1>1, FS_Interval
<1>3. QED
  BY <1>1, <1>2, FS_Subset, FS_CardinalityType

LEMMA RoutingBegins == Routing!Init => RInv
<1> SUFFICES ASSUME Routing!Init PROVE RInv
  OBVIOUS
<1>1. Served = {}
  BY DEF Routing!Init, Served
<1>2. Routing!TypeOK
  <2>1. made \in Seq(Routing!Targets) /\ observations \in Seq(Routing!Observations)
    BY DEF Routing!Init
  <2>2. now \in 0..(Deadline + 1) /\ since \in 0..now
    BY RoutingLegal DEF Routing!Init, Routing!RoutingAssumption
  <2>3. QED
    BY <2>1, <2>2 DEF Routing!Init, Routing!TypeOK
<1>3. answers = Cardinality(Served)
  BY <1>1, FS_EmptySet DEF Routing!Init
<1>4. QED
  <2>1. /\ Routing!WithinDeadline /\ Routing!LeavesTruth /\ Routing!LostOnlyLate
        /\ DOMAIN observations = {}
    BY DEF Routing!Init, Routing!WithinDeadline, Routing!LeavesTruth,
       Routing!LostOnlyLate
  <2>2. Routing!AskedOnce
    BY RoutingLegal DEF Routing!Init, Routing!AskedOnce,
       Routing!RoutingAssumption, Routing!Targets
  <2>3. QED
    BY <1>2, <1>3, <2>1, <2>2 DEF Routing!Init, RInv

\* A sequence of two.
LEMMA AppendPair ==
  ASSUME NEW S, NEW a \in S, NEW b \in S
  PROVE  Append(<<a>>, b) = <<a, b>>
<1> DEFINE one == <<a>>
           two == <<a, b>>
           both == Append(one, b)
<1>1. one \in Seq(S) /\ Len(one) = 1 /\ one[1] = a
  OBVIOUS
<1>2. two \in Seq(S) /\ Len(two) = 2 /\ two[1] = a /\ two[2] = b
  OBVIOUS
<1> HIDE DEF one, two
<1>3. both \in Seq(S) /\ Len(both) = Len(one) + 1
  BY <1>1, AppendProperties
<1>4. \A i \in 1..Len(one) : both[i] = one[i]
  BY <1>1, AppendProperties
<1>5. both[Len(one) + 1] = b
  BY <1>1, AppendProperties
<1> HIDE DEF both
<1>6. \A i \in 1..Len(both) : both[i] = two[i]
  BY <1>1, <1>2, <1>3, <1>4, <1>5
<1>7. Len(both) = Len(two)
  BY <1>1, <1>2, <1>3
<1>8. both = two
  BY <1>2, <1>3, <1>6, <1>7, SeqEqual
<1>9. QED
  BY <1>8 DEF one, two, both

\* The three values of made.
LEMMA MadeTuples ==
  /\ Append(<<"primary">>, "fallback") = <<"primary", "fallback">>
  /\ Len(<<>>) = 0 /\ Len(<<"primary">>) = 1
  /\ Len(<<"primary", "fallback">>) = 2
  /\ DOMAIN <<"primary">> = {1} /\ DOMAIN <<"primary", "fallback">> = {1, 2}
<1> DEFINE one == <<"primary">>
           two == <<"primary", "fallback">>
<1>1. /\ one \in Seq(Routing!Targets) /\ Len(one) = 1
      /\ two \in Seq(Routing!Targets) /\ Len(two) = 2
  BY DEF Routing!Targets
<1>2. Append(one, "fallback") = two
  <2>1. "primary" \in Routing!Targets /\ "fallback" \in Routing!Targets
    BY DEF Routing!Targets
  <2>2. QED
    BY <2>1, AppendPair
<1>3. DOMAIN one = {1} /\ DOMAIN two = {1, 2}
  <2>1. DOMAIN one = 1..1 /\ DOMAIN two = 1..2
    BY <1>1
  <2>2. QED
    BY <2>1
<1>4. Len(<<>>) = 0
  OBVIOUS
<1>5. QED
  BY <1>1, <1>2, <1>3, <1>4

\* Steps that leave the observations alone.
LEMMA ServedStays ==
  ASSUME UNCHANGED observations
  PROVE  Served' = Served
BY DEF Served

LEMMA ConfigureKeeps ==
  ASSUME RInv, Routing!Configure
  PROVE  RInv'
<1>1. PICK primary \in [Routes -> Routing!Targets0], enabled \in SUBSET Routes,
           fallback \in Routing!Targets0 :
        /\ table' = [r \in Routes |->
                       [primary  |-> primary[r],
                        fallback |-> IF r \in enabled THEN fallback
                                     ELSE None]]
        /\ \A r \in Routes : Routing!RouteValid(table'[r])
  BY Zenon DEF Routing!Configure
<1>2. /\ phase = "start" /\ phase' = "idle"
      /\ UNCHANGED <<now, route, observations, failed, answers, at, grant,
                     since, code, primary_error, made>>
  BY DEF Routing!Configure, Routing!call
<1>3. table' \in RouteTable
  BY <1>1 DEF RouteTable
<1>4. Routing!TypeOK' /\ Routing!AskedOnce'
  BY <1>2 DEF RInv, Routing!TypeOK, Routing!AskedOnce
<1>5. Routing!LeavesTruth'
  BY <1>2 DEF RInv, Routing!LeavesTruth
<1>6. QED
  BY <1>1, <1>2, <1>3, <1>4, <1>5, ServedStays
     DEF RInv, Routing!WithinDeadline, Routing!LostOnlyLate

\* Time passes: what was too late stays too late.
LEMMA TickKeeps ==
  ASSUME RInv, Routing!Tick
  PROVE  RInv'
<1>1. /\ now' = now + 1 /\ now <= Deadline /\ phase # "raised"
      /\ UNCHANGED <<table, phase, route, observations, failed, answers, at,
                     grant, since, code, primary_error, made>>
  BY DEF Routing!Tick, Routing!call
<1>2. now \in Nat /\ Deadline \in Nat /\ since \in 0..now
  BY RoutingLegal DEF RInv, Routing!TypeOK, Routing!RoutingAssumption
<1>3. Routing!TypeOK'
  <2>1. now' \in 0..(Deadline + 1) /\ since' \in 0..now'
    BY <1>1, <1>2
  <2>2. QED
    BY <1>1, <2>1 DEF RInv, Routing!TypeOK
<1>4. AtPrimary => AtPrimary'
  BY <1>1, <1>2 DEF AtPrimary
<1>5. AtFallback => AtFallback'
  BY <1>1, <1>2 DEF AtFallback
<1>6. /\ Routing!WithinDeadline' /\ Routing!AskedOnce'
      /\ Routing!LeavesTruth' /\ Routing!LostOnlyLate'
  BY <1>1, <1>2 DEF RInv, Routing!WithinDeadline, Routing!AskedOnce,
     Routing!LeavesTruth, Routing!LostOnlyLate, Routing!Told
<1>7. QED
  BY <1>1, <1>3, <1>4, <1>5, <1>6, ServedStays DEF RInv

\* The steps of a visit before it leaves an observation.
LEMMA VisitTyped ==
  ASSUME RInv, UNCHANGED <<table, now, observations, failed>>,
         phase \in {"idle", "call", "calling", "refused"},
         phase' \in {"call", "calling", "refused", "answered"},
         route' \in Routes, at' \in Routing!Targets, grant' \in Nat,
         since' \in 0..now, code' \in Routing!Codes \cup {None},
         primary_error' \in Routing!Codes \cup {None},
         made' \in Seq(Routing!Targets),
         at' = "primary" => AtPrimary', at' = "fallback" => AtFallback',
         Routing!WithinDeadline', Routing!AskedOnce',
         answers' = answers + (IF phase' = "answered" THEN 1 ELSE 0)
  PROVE  RInv'
<1>1. answers \in Nat /\ answers' \in Nat
  BY DEF RInv, Routing!TypeOK
<1>2. Routing!TypeOK'
  BY <1>1 DEF RInv, Routing!TypeOK
<1>3. Routing!LeavesTruth' /\ Routing!LostOnlyLate'
  BY DEF Routing!LeavesTruth, Routing!LostOnlyLate
<1>4. Served' = Served
  BY ServedStays
<1>5. answers = Cardinality(Served) /\ Cardinality(Served) \in Nat
  BY ServedCounted DEF RInv
<1>6. QED
  BY <1>1, <1>2, <1>3, <1>4, <1>5 DEF RInv

LEMMA EnterKeeps ==
  ASSUME RInv, NEW r \in Routes, Routing!Enter(r)
  PROVE  RInv'
<1>1. /\ phase = "idle" /\ phase' = "call" /\ route' = r /\ at' = "primary"
      /\ code' = None /\ primary_error' = None /\ made' = <<>>
      /\ UNCHANGED <<table, now, grant, since, observations, failed, answers>>
  BY DEF Routing!Enter
<1>2. AtPrimary'
  BY <1>1 DEF AtPrimary
<1>3. Routing!WithinDeadline' /\ Routing!AskedOnce'
  BY <1>1 DEF Routing!WithinDeadline, Routing!AskedOnce
<1>4. grant' \in Nat /\ since' \in 0..now /\ answers' = answers + 0
      /\ at' \in Routing!Targets /\ made' \in Seq(Routing!Targets)
  BY <1>1 DEF RInv, Routing!TypeOK, Routing!Targets
<1>5. QED
  BY <1>1, <1>2, <1>3, <1>4, VisitTyped

\* A call is made before the deadline, so nothing was forbidden in its visit.
LEMMA CallsKeep ==
  ASSUME RInv, Routing!Calls
  PROVE  RInv'
<1>1. /\ phase = "call" /\ phase' = "calling" /\ Deadline - now > 0
      /\ grant' = Routing!Least(Routing!Target.timeout, Deadline - now)
      /\ since' = now /\ made' = Append(made, at)
      /\ UNCHANGED <<table, now, route, at, code, primary_error,
                     observations, failed, answers>>
  BY DEF Routing!Calls, Routing!Remaining
<1>2. now \in Nat /\ Deadline \in Nat /\ ~(now >= Deadline)
  BY <1>1, RoutingLegal DEF RInv, Routing!TypeOK, Routing!RoutingAssumption
<1>3. /\ route \in Routes /\ at \in {"primary", "fallback"}
      /\ at = "primary" => AtPrimary
      /\ at = "fallback" => AtFallback
      /\ table \in RouteTable
  BY <1>1 DEF RInv, Routing!Targets
<1>4. Routing!Target \in Routing!Targets0
  BY <1>3 DEF AtFallback, RouteTable, Routing!Target
<1>5. grant' \in Nat /\ grant' <= Deadline - now
  BY <1>1, <1>2, <1>4, RoutingLegal
     DEF Routing!Least, Routing!RoutingAssumption, Routing!Targets0
<1>6. at' = "primary" => AtPrimary' /\ made' = <<"primary">>
  BY <1>1, <1>3 DEF AtPrimary
<1>7. at' = "fallback" => AtFallback' /\ made' = <<"primary", "fallback">>
  <2>1. CASE at = "fallback"
    <3>1. made = <<"primary">>
      BY <1>1, <1>2, <1>3, <2>1 DEF AtFallback
    <3>2. made' = <<"primary", "fallback">>
      BY <1>1, <2>1, <3>1, MadeTuples
    <3>3. QED
      BY <1>1, <1>3, <2>1, <3>2 DEF AtFallback
  <2>2. QED
    BY <1>1, <2>1
<1>8. Routing!WithinDeadline'
  BY <1>1, <1>2, <1>5 DEF Routing!WithinDeadline
<1>9. Routing!AskedOnce'
  BY <1>1, <1>3, <1>6, <1>7 DEF Routing!AskedOnce, AtFallback
<1>10. /\ made' \in Seq(Routing!Targets) /\ since' \in 0..now
       /\ answers' = answers + 0 /\ at' \in Routing!Targets
  BY <1>1, <1>2, <1>3 DEF RInv, Routing!TypeOK, Routing!Targets
<1>11. QED
  BY <1>1, <1>3, <1>5, <1>6, <1>7, <1>8, <1>9, <1>10, VisitTyped
     DEF RInv, Routing!TypeOK

LEMMA PassedKeeps ==
  ASSUME RInv, Routing!DeadlinePassed
  PROVE  RInv'
<1>1. /\ phase = "call" /\ phase' = "refused" /\ Deadline - now <= 0
      /\ code' = "LLM_TIMEOUT"
      /\ UNCHANGED <<table, now, route, at, grant, since, primary_error, made,
                     observations, failed, answers>>
  BY DEF Routing!DeadlinePassed, Routing!Remaining
<1>2. now >= Deadline /\ "LLM_TIMEOUT" \in Routing!Codes
  BY <1>1, RoutingLegal
     DEF RInv, Routing!TypeOK, Routing!RoutingAssumption, Routing!Codes,
         Routing!FallbackCodes
<1>3. at = "primary" => AtPrimary'
  BY <1>1, <1>2 DEF RInv, AtPrimary
<1>4. at = "fallback" => AtFallback'
  BY <1>1, <1>2 DEF RInv, AtFallback
<1>5. Routing!WithinDeadline' /\ Routing!AskedOnce' /\ answers' = answers + 0
  BY <1>1 DEF RInv, Routing!WithinDeadline, Routing!AskedOnce, Routing!TypeOK
<1>6. QED
  BY <1>1, <1>2, <1>3, <1>4, <1>5, VisitTyped DEF RInv, Routing!TypeOK

LEMMA CallEnds ==
  ASSUME RInv, \/ \E what \in DOMAIN Routing!CodeOf : Routing!CallFails(what)
               \/ Routing!CallAnswers
  PROVE  RInv'
<1>1. /\ phase = "calling"
      /\ UNCHANGED <<table, now, route, at, grant, since, primary_error, made,
                     observations, failed>>
      /\ \/ /\ phase' = "refused" /\ code' \in Routing!Codes
            /\ answers' = answers
         \/ phase' = "answered" /\ code' = None /\ answers' = answers + 1
  <2>1. \A what \in DOMAIN Routing!CodeOf : Routing!CodeOf[what] \in Routing!Codes
    BY DEF Routing!CodeOf, Routing!Codes, Routing!FallbackCodes
  <2>2. QED
    BY <2>1 DEF Routing!CallFails, Routing!CallAnswers
<1>2. at = "primary" => AtPrimary'
  BY <1>1 DEF RInv, AtPrimary
<1>3. at = "fallback" => AtFallback'
  BY <1>1 DEF RInv, AtFallback
<1>4. /\ Routing!WithinDeadline' /\ Routing!AskedOnce'
      /\ answers' = answers + (IF phase' = "answered" THEN 1 ELSE 0)
  BY <1>1 DEF RInv, Routing!WithinDeadline, Routing!AskedOnce, Routing!TypeOK
<1>5. QED
  BY <1>1, <1>2, <1>3, <1>4, VisitTyped DEF RInv, Routing!TypeOK

\* The primary refused and the route has a fallback.
LEMMA FallsBackKeeps ==
  ASSUME RInv, Routing!FallsBack
  PROVE  RInv'
<1>1. /\ phase = "refused" /\ phase' = "call" /\ at = "primary"
      /\ at' = "fallback" /\ primary_error' = code
      /\ code \in Routing!FallbackCodes /\ table[route].fallback # None
      /\ UNCHANGED <<table, now, route, grant, since, code, made,
                     observations, failed, answers>>
  BY DEF Routing!FallsBack, Routing!MayFallBack
<1>2. AtPrimary
  BY <1>1 DEF RInv
<1>3. AtFallback'
  BY <1>1, <1>2 DEF AtPrimary, AtFallback
<1>4. /\ Routing!WithinDeadline' /\ Routing!AskedOnce'
      /\ answers' = answers + 0 /\ at' \in Routing!Targets
  BY <1>1 DEF RInv, Routing!WithinDeadline, Routing!AskedOnce, Routing!TypeOK,
     Routing!Targets
<1>5. QED
  BY <1>1, <1>3, <1>4, VisitTyped DEF RInv, Routing!TypeOK

\* The observation a visit leaves: it is told truly, or it is refused because
\* the deadline passed between the two calls.
LEMMA LeavesKeeps ==
  ASSUME RInv, phase \in {"refused", "answered"},
         NEW o \in Routing!Observations, NEW fails \in BOOLEAN,
         Routing!Leaves(o, fails),
         o.number = Len(observations) + 1,
         Routing!ObservationValid(o) => Routing!Told(o),
         \/ o.outcome = "succeeded"
         \/ o.stage = "normalization"
         <=> phase = "answered",
         ~Routing!ObservationValid(o) =>
             /\ now >= Deadline /\ made = <<"primary">> /\ at = "fallback"
             /\ primary_error # "LLM_TIMEOUT"
  PROVE  RInv'
<1>1. UNCHANGED <<table, now, route, at, grant, since, code, primary_error,
                  made, answers>>
  BY DEF Routing!Leaves, Routing!call
<1>2. Routing!WithinDeadline' /\ Routing!AskedOnce' /\ phase' \in {"idle", "raised"}
  BY <1>1 DEF RInv, Routing!WithinDeadline, Routing!AskedOnce, Routing!Leaves
<1>3. CASE ~Routing!ObservationValid(o)
  <2>1. phase' = "raised" /\ failed' = TRUE /\ UNCHANGED observations
    BY <1>3 DEF Routing!Leaves
  <2>2. Routing!TypeOK'
    BY <1>1, <2>1 DEF RInv, Routing!TypeOK
  <2>3. Routing!LeavesTruth' /\ Routing!LostOnlyLate'
    BY <1>1, <1>3, <2>1 DEF Routing!LeavesTruth, Routing!LostOnlyLate
  <2>4. QED
    BY <1>1, <1>2, <2>1, <2>2, <2>3 DEF RInv
<1>4. CASE Routing!ObservationValid(o)
  <2> DEFINE n == Len(observations)
  <2>1. phase' = "idle" /\ failed' = fails /\ observations' = Append(observations, o)
    BY <1>4 DEF Routing!Leaves
  <2>2. /\ observations \in Seq(Routing!Observations) /\ n \in Nat
        /\ DOMAIN observations = 1..n
    BY DEF RInv, Routing!TypeOK
  <2>3. /\ observations' \in Seq(Routing!Observations) /\ Len(observations') = n + 1
        /\ DOMAIN observations' = 1..(n + 1) /\ observations'[n + 1] = o
        /\ \A i \in 1..n : observations'[i] = observations[i]
    BY <2>1, <2>2
  <2>4. Routing!TypeOK'
    BY <1>1, <2>1, <2>3 DEF RInv, Routing!TypeOK
  <2>5. Routing!LeavesTruth' /\ Routing!LostOnlyLate'
    <3>1. Routing!Told(o)'
      BY <1>1, <1>4 DEF Routing!Told
    <3>2. observations'[Len(observations')] = o
      BY <2>2, <2>3
    <3>3. QED
      BY <2>1, <3>1, <3>2 DEF Routing!LeavesTruth, Routing!LostOnlyLate,
         Routing!Told
  <2>6. \A i \in DOMAIN observations' : observations'[i].number = i
    BY <2>2, <2>3 DEF RInv
  <2>7. answers' = Cardinality(Served')
    <3>1. Served' = Served \cup (IF phase = "answered" THEN {n + 1} ELSE {})
      <4>1. Served = {i \in 1..n : \/ observations'[i].outcome = "succeeded"
                                   \/ observations'[i].stage = "normalization"}
        BY <2>2, <2>3 DEF Served
      <4>2. Served' = {i \in 1..(n + 1) :
                          \/ observations'[i].outcome = "succeeded"
                          \/ observations'[i].stage = "normalization"}
        BY <2>3 DEF Served
      <4>3. n + 1 \in Served' <=> phase = "answered"
        BY <2>2, <2>3, <4>2
      <4>4. \A i \in 1..(n + 1) : i # n + 1 <=> i \in 1..n
        BY <2>2
      <4>5. \A i : i \in Served' <=>
                       i \in Served \/ (i = n + 1 /\ phase = "answered")
        BY <2>2, <4>1, <4>2, <4>3, <4>4
      <4>6. QED
        BY <4>5
    <3>2. n + 1 \notin Served
      BY <2>2 DEF Served
    <3>3. IsFiniteSet(Served) /\ Cardinality(Served) \in Nat
      BY ServedCounted DEF RInv
    <3>4. CASE phase = "answered"
      <4>1. Cardinality(Served') = Cardinality(Served) + 1
        BY <3>1, <3>2, <3>3, <3>4, FS_AddElement
      <4>2. QED
        BY <1>1, <3>4, <4>1 DEF RInv
    <3>5. CASE phase = "refused"
      <4>1. Served' = Served
        BY <3>1, <3>5
      <4>2. QED
        BY <1>1, <3>3, <3>5, <4>1 DEF RInv
    <3>6. QED
      BY <3>4, <3>5
  <2>8. Cardinality(Served') + 0 = Cardinality(Served')
    BY <1>1, <2>7 DEF RInv, Routing!TypeOK
  <2>9. QED
    BY <1>1, <1>2, <2>1, <2>4, <2>5, <2>6, <2>7, <2>8 DEF RInv
<1>5. QED
  BY <1>3, <1>4

\* What is known when a visit ends.
LEMMA VisitKnown ==
  ASSUME RInv, phase \in {"refused", "answered"}
  PROVE  /\ route \in Routes /\ at \in {"primary", "fallback"}
         /\ observations \in Seq(Routing!Observations)
         /\ Len(observations) + 1 \in Nat \ {0}
         /\ at = "primary" => AtPrimary
         /\ at = "fallback" => AtFallback
         /\ None \notin Routing!Codes
         /\ "LLM_TIMEOUT" \in Routing!Codes
         /\ "LLM_INTERNAL_ERROR" \in Routing!Codes
         /\ Routing!FallbackCodes \subseteq Routing!Codes
         /\ None # "provider" /\ None # "normalization"
BY RoutingLegal DEF RInv, Routing!TypeOK, Routing!Targets,
   Routing!RoutingAssumption, Routing!Codes, Routing!FallbackCodes,
   Routing!Stages

\* The fields of an observation.
LEMMA ObservationIs ==
  ASSUME NEW what, NEW target, NEW used, NEW count, NEW err, NEW primary,
         NEW stage
  PROVE  LET o == Routing!Observation(what, target, used, count, err,
                                      primary, stage)
         IN  /\ o.number = Len(observations) + 1 /\ o.route = route
             /\ o.target = target /\ o.count = count
             /\ o.fallback_used = used /\ o.outcome = what
             /\ o.code = err /\ o.primary = primary /\ o.stage = stage
BY DEF Routing!Observation

LEMMA ObservationTyped ==
  ASSUME NEW what \in {"succeeded", "failed"}, NEW target \in Routing!Targets,
         NEW used \in BOOLEAN, NEW count \in 0..2,
         NEW err \in Routing!Codes \cup {None},
         NEW primary \in Routing!Codes \cup {None},
         NEW stage \in Routing!Stages \cup {None},
         Len(observations) + 1 \in Nat \ {0}, route \in Routes
  PROVE  Routing!Observation(what, target, used, count, err, primary, stage)
             \in Routing!Observations
BY DEF Routing!Observation, Routing!Observations

\* A model has answered: the calls are those of the one that did.
LEMMA AnsweredKeeps ==
  ASSUME RInv, Routing!Succeeds \/ Routing!NotNormalized
  PROVE  RInv'
<1>1. PICK what \in {"succeeded", "failed"},
           err \in {None, "LLM_INTERNAL_ERROR"},
           stage \in {None, "normalization"}, fails \in BOOLEAN :
        /\ Routing!Leaves(Routing!Observation(what, at, at = "fallback",
                            Len(made), err, primary_error, stage), fails)
        /\ \/ what = "succeeded" /\ err = None /\ stage = None
           \/ /\ what = "failed" /\ err = "LLM_INTERNAL_ERROR"
              /\ stage = "normalization"
  BY DEF Routing!Succeeds, Routing!NotNormalized
<1>2. phase = "answered"
  BY DEF Routing!Succeeds, Routing!NotNormalized
<1>3. /\ route \in Routes /\ at \in {"primary", "fallback"}
      /\ Len(observations) + 1 \in Nat \ {0}
      /\ at = "primary" => made = <<"primary">> /\ primary_error = None
      /\ at = "fallback" => /\ made = <<"primary", "fallback">>
                            /\ primary_error \in Routing!FallbackCodes
      /\ None \notin Routing!Codes /\ "LLM_INTERNAL_ERROR" \in Routing!Codes
      /\ Routing!FallbackCodes \subseteq Routing!Codes
      /\ None # "provider" /\ None # "normalization"
  BY <1>2, VisitKnown DEF AtPrimary, AtFallback
<1>4. Len(made) = IF at = "fallback" THEN 2 ELSE 1
  BY <1>3, MadeTuples
<1> DEFINE o == Routing!Observation(what, at, at = "fallback", Len(made), err,
                                    primary_error, stage)
<1>5. /\ o.number = Len(observations) + 1 /\ o.route = route
      /\ o.target = at /\ o.count = Len(made)
      /\ o.fallback_used = (at = "fallback") /\ o.outcome = what
      /\ o.code = err /\ o.primary = primary_error /\ o.stage = stage
  BY ObservationIs
<1>6. o.fallback_used <=> at = "fallback"
  BY <1>5, Zenon
<1>7. o \in Routing!Observations
  <2>1. /\ at \in Routing!Targets /\ (at = "fallback") \in BOOLEAN
        /\ Len(made) \in 0..2 /\ err \in Routing!Codes \cup {None}
        /\ primary_error \in Routing!Codes \cup {None}
        /\ stage \in Routing!Stages \cup {None}
    BY <1>1, <1>3, <1>4 DEF Routing!Targets, Routing!Stages
  <2>2. QED
    BY <1>3, <2>1, ObservationTyped
<1> HIDE DEF o
<1>8. Routing!ObservationValid(o)
  <2>1. (o.fallback_used <=> o.count = 2) /\ o.count \in {1, 2}
    BY <1>4, <1>5, <1>6
  <2>2. Routing!FallbackTold(o)
    BY <1>3, <1>5 DEF Routing!FallbackTold
  <2>3. QED
    BY <1>1, <1>3, <1>5, <2>1, <2>2 DEF Routing!ObservationValid
<1>9. Routing!Told(o)
  <2>1. /\ at = "primary" => made[1] = "primary" /\ DOMAIN made = {1}
        /\ at = "fallback" => made[1] = "primary" /\ made[2] = "fallback"
                              /\ DOMAIN made = {1, 2}
    BY <1>3, MadeTuples
  <2>2. o.fallback_used <=> "fallback" \in {made[i] : i \in DOMAIN made}
    BY <1>3, <1>6, <2>1
  <2>3. o.target = made[Len(made)]
    BY <1>3, <1>4, <1>5, <2>1
  <2>4. QED
    BY <1>5, <2>2, <2>3 DEF Routing!Told
<1>10. o.outcome = "succeeded" \/ o.stage = "normalization"
  BY <1>1, <1>5
<1>11. QED
  BY <1>1, <1>2, <1>5, <1>7, <1>8, <1>9, <1>10, LeavesKeeps DEF o

\* No model has answered.
LEMMA RefusesKeeps ==
  ASSUME RInv, Routing!Refused
  PROVE  RInv'
<1> DEFINE called == at = "fallback" /\ Len(made) > 0
                     /\ made[Len(made)] = "fallback"
           target == IF called THEN "fallback" ELSE "primary"
           error == IF at = "primary" THEN code ELSE primary_error
           o == Routing!Observation("failed", target, called, Len(made), code,
                                    error, "provider")
<1>1. phase = "refused" /\ Routing!Leaves(o, TRUE)
  BY DEF Routing!Refused
<1>2. /\ route \in Routes /\ at \in {"primary", "fallback"}
      /\ Len(observations) + 1 \in Nat \ {0}
      /\ at = "primary" => AtPrimary
      /\ at = "fallback" => AtFallback
      /\ None \notin Routing!Codes /\ "LLM_TIMEOUT" \in Routing!Codes
      /\ Routing!FallbackCodes \subseteq Routing!Codes
      /\ None # "provider" /\ None # "normalization"
  BY <1>1, VisitKnown
<1> DEFINE none == made = <<>>
           one == made = <<"primary">>
           two == made = <<"primary", "fallback">>
<1>3. /\ none \/ one \/ two
      /\ code \in Routing!Codes
      /\ none => code = "LLM_TIMEOUT"
      /\ two => at = "fallback"
      /\ at = "fallback" => primary_error \in Routing!FallbackCodes
      /\ at = "fallback" /\ one => code = "LLM_TIMEOUT" /\ now >= Deadline
      /\ at = "fallback" /\ none => primary_error = "LLM_TIMEOUT"
  <2>1. CASE at = "primary"
    <3>1. none \/ one
      BY <1>1, <1>2, <2>1 DEF AtPrimary
    <3>2. ~two
      BY <3>1, MadeTuples
    <3>3. code \in Routing!Codes /\ (none => code = "LLM_TIMEOUT")
      BY <1>1, <1>2, <2>1, MadeTuples DEF AtPrimary
    <3> HIDE DEF none, one, two
    <3>4. QED
      BY <2>1, <3>1, <3>2, <3>3
  <2>2. CASE at = "fallback"
    <3>1. primary_error \in Routing!FallbackCodes
      BY <1>2, <2>2 DEF AtFallback
    <3>2. \/ two /\ code \in Routing!Codes
          \/ one /\ code = "LLM_TIMEOUT" /\ now >= Deadline
          \/ none /\ code = "LLM_TIMEOUT" /\ primary_error = "LLM_TIMEOUT"
      BY <1>1, <1>2, <2>2 DEF AtFallback
    <3>3. ~(none /\ one) /\ ~(none /\ two) /\ ~(one /\ two)
      BY MadeTuples
    <3> HIDE DEF none, one, two
    <3>4. QED
      BY <1>2, <2>2, <3>1, <3>2, <3>3
  <2>3. QED
    BY <1>2, <2>1, <2>2
<1>4. /\ none => Len(made) = 0
      /\ one => Len(made) = 1 /\ made[1] = "primary" /\ DOMAIN made = {1}
      /\ two => /\ Len(made) = 2 /\ made[1] = "primary"
                /\ made[2] = "fallback" /\ DOMAIN made = {1, 2}
      /\ none => DOMAIN made = {}
  BY MadeTuples
<1>5. called <=> two
  BY <1>3, <1>4
<1> HIDE DEF none, one, two
<1>6. /\ o.number = Len(observations) + 1 /\ o.route = route
      /\ o.target = target /\ o.count = Len(made)
      /\ o.fallback_used = called /\ o.outcome = "failed"
      /\ o.code = code /\ o.primary = error /\ o.stage = "provider"
  BY ObservationIs
<1>7. o \in Routing!Observations
  <2>1. /\ target \in Routing!Targets /\ called \in BOOLEAN
        /\ Len(made) \in 0..2 /\ code \in Routing!Codes \cup {None}
        /\ error \in Routing!Codes \cup {None} /\ "provider" \in Routing!Stages
    BY <1>2, <1>3, <1>4 DEF Routing!Targets, Routing!Stages
  <2> HIDE DEF target, called, error
  <2>2. QED
    BY <1>2, <2>1, ObservationTyped
<1> HIDE DEF o, called
<1>8. Routing!Told(o)
  <2>1. o.fallback_used <=> "fallback" \in {made[i] : i \in DOMAIN made}
    BY <1>3, <1>4, <1>5, <1>6
  <2>2. /\ o.count > 0 => o.target = made[Len(made)]
        /\ o.fallback_used => o.primary = primary_error
    BY <1>3, <1>4, <1>5, <1>6
  <2>3. QED
    BY <1>6, <2>1, <2>2 DEF Routing!Told
<1>9. Routing!ObservationValid(o)
      \/ /\ now >= Deadline /\ made = <<"primary">> /\ at = "fallback"
         /\ primary_error # "LLM_TIMEOUT"
  <2>1. CASE at = "fallback" /\ one /\ primary_error # "LLM_TIMEOUT"
    BY <1>3, <2>1 DEF one
  <2>2. CASE ~(at = "fallback" /\ one /\ primary_error # "LLM_TIMEOUT")
    <3>1. o.fallback_used <=> o.count = 2
      <4>1. two <=> Len(made) = 2
        BY <1>3, <1>4
      <4>2. QED
        BY <1>5, <1>6, <4>1
    <3>2. o.count \in {0, 1, 2} /\ o.code # None
      BY <1>2, <1>3, <1>4, <1>6
    <3>3. Routing!ProviderTold(o)
      BY <1>2, <1>3, <1>4, <1>5, <1>6, <2>2 DEF Routing!ProviderTold
    <3>4. QED
      BY <1>6, <3>1, <3>2, <3>3, <1>2 DEF Routing!ObservationValid
  <2>3. QED
    BY <2>1, <2>2
<1>10. o.outcome # "succeeded" /\ o.stage # "normalization"
  BY <1>6
<1>11. QED
  BY <1>1, <1>6, <1>7, <1>8, <1>9, <1>10, LeavesKeeps

\* A step that changes nothing of the routing.
LEMMA RoutingStutters ==
  ASSUME RInv, UNCHANGED Routing!vars
  PROVE  RInv'
<1>1. UNCHANGED <<table, now, phase, route, at, grant, since, code,
                  primary_error, made, observations, failed, answers>>
  BY DEF Routing!vars, Routing!call
<1>2. Routing!TypeOK'
  BY <1>1 DEF RInv, Routing!TypeOK
<1>3. (AtPrimary => AtPrimary') /\ (AtFallback => AtFallback')
  BY <1>1 DEF AtPrimary, AtFallback
<1>4. /\ Routing!WithinDeadline' /\ Routing!AskedOnce'
      /\ Routing!LeavesTruth' /\ Routing!LostOnlyLate'
  BY <1>1 DEF RInv, Routing!WithinDeadline, Routing!AskedOnce,
     Routing!LeavesTruth, Routing!LostOnlyLate, Routing!Told
<1>5. QED
  BY <1>1, <1>2, <1>3, <1>4, ServedStays DEF RInv

LEMMA RoutingKeeps == RInv /\ [Routing!Next]_(Routing!vars) => RInv'
<1> SUFFICES ASSUME RInv, [Routing!Next]_(Routing!vars) PROVE RInv'
  OBVIOUS
<1>1. CASE Routing!Configure
  BY <1>1, ConfigureKeeps
<1>2. CASE Routing!Tick
  BY <1>2, TickKeeps
<1>3. ASSUME NEW r \in Routes, Routing!Enter(r) PROVE RInv'
  BY <1>3, EnterKeeps
<1>4. CASE Routing!Calls
  BY <1>4, CallsKeep
<1>5. CASE Routing!DeadlinePassed
  BY <1>5, PassedKeeps
<1>6. ASSUME NEW what \in DOMAIN Routing!CodeOf, Routing!CallFails(what)
      PROVE  RInv'
  BY <1>6, CallEnds
<1>7. CASE Routing!CallAnswers
  BY <1>7, CallEnds
<1>8. CASE Routing!FallsBack
  BY <1>8, FallsBackKeeps
<1>9. CASE Routing!Refused
  BY <1>9, RefusesKeeps
<1>10. CASE Routing!Succeeds \/ Routing!NotNormalized
  BY <1>10, AnsweredKeeps
<1>11. CASE UNCHANGED Routing!vars
  BY <1>11, RoutingStutters
<1>12. QED
  BY <1>1, <1>2, <1>3, <1>4, <1>5, <1>6, <1>7, <1>8, <1>9, <1>10, <1>11
     DEF Routing!Next

\* What the invariant says of a call and of what a request is told.
LEMMA RoutingTold ==
  ASSUME RInv
  PROVE  /\ Routing!MessagesFit /\ Routing!WithinDeadline
         /\ Routing!AskedOnce /\ Routing!LeavesTruth
         /\ Routing!NoVisitLost /\ Routing!LostOnlyLate
<1>1. Routing!MessagesFit
  <2> SUFFICES ASSUME phase = "calling"
               PROVE  Routing!Target.size = table[route].primary.size
    BY DEF Routing!MessagesFit
  <2>1. /\ route \in Routes /\ Routing!RouteValid(table[route])
        /\ at \in {"primary", "fallback"}
        /\ at = "fallback" => table[route].fallback # None
    BY DEF RInv, Routing!Targets, AtFallback
  <2>2. QED
    BY <2>1 DEF Routing!RouteValid, Routing!Target
<1>2. Routing!NoVisitLost
  <2>1. phase = "idle" => answers = Cardinality(Served)
    BY ServedCounted DEF RInv
  <2>2. Routing!Cardinality(Served) = Cardinality(Served)
    BY DEF Routing!Cardinality, Cardinality
  <2>3. QED
    BY <2>1, <2>2 DEF RInv, Routing!NoVisitLost, Served
<1>3. QED
  BY <1>1, <1>2 DEF RInv

RoutingInv == part = "routing" => RInv

LEMMA RoutingPartKeeps == RoutingInv /\ [MCNext]_mcVars => RoutingInv'
<1> SUFFICES ASSUME RoutingInv, [MCNext]_mcVars, part' = "routing"
             PROVE  RInv'
  BY DEF RoutingInv
<1>1. part = "routing" /\ [Routing!Next]_(Routing!vars)
  <2>1. CASE MCNext
    BY <2>1 DEF MCNext
  <2>2. CASE UNCHANGED mcVars
    BY <2>2 DEF mcVars, Routing!vars, Routing!call
  <2>3. QED
    BY <2>1, <2>2
<1>2. QED
  BY <1>1, RoutingKeeps DEF RoutingInv

\* A model gets only messages selected for its limits, no more time than the
\* request has left, and one call in a visit, the fallback only after an
\* infrastructure failure of the primary; the observations tell the calls of
\* the visits, and one is lost only when the deadline passes between the two
\* calls (generate_with_model_route): however many routes and visits, and
\* wherever the clock ticks.
THEOREM Calls == MCSpec => []CallsTold
<1>1. MCInit => RoutingInv
  BY RoutingBegins DEF MCInit, RoutingInv
<1>2. RoutingInv => CallsTold
  BY RoutingTold DEF RoutingInv, CallsTold
<1>3. QED
  BY <1>1, <1>2, RoutingPartKeeps, PTL DEF MCSpec

-----------------------------------------------------------------------------
(* Side by side: what one component does leaves the others as they are     *)

ContextInv == part = "context" => IInv
LinkingInv == /\ part = "linking" => Linking!LinkInv
              /\ part = "bridges" => Bridges!LinkInv

LEMMA ContextPartKeeps == ContextInv /\ [MCNext]_mcVars => ContextInv'
<1> SUFFICES ASSUME ContextInv, [MCNext]_mcVars, part' = "context"
             PROVE  IInv'
  BY DEF ContextInv
<1>1. part = "context" /\ [Next]_vars
  <2>1. CASE MCNext
    BY <2>1 DEF MCNext
  <2>2. CASE UNCHANGED mcVars
    BY <2>2 DEF mcVars, vars, inputs
  <2>3. QED
    BY <2>1, <2>2
<1>2. QED
  BY <1>1, SelectionKeeps DEF ContextInv

LEMMA LinkingBegins == MCInit => LinkingInv
<1>1. /\ Linking!LinkingAssumption /\ Linking!GraphAssumption
      /\ Bridges!LinkingAssumption /\ Bridges!GraphAssumption
  BY MCAssumption DEF MCAssumption
<1>2. part = "linking" /\ Linking!Init => Linking!LinkInv
  BY <1>1, Linking!LinkStarts
<1>3. part = "bridges" /\ Bridges!Init => Bridges!LinkInv
  BY <1>1, Bridges!LinkStarts
<1>4. QED
  BY <1>2, <1>3 DEF MCInit, LinkingInv

LEMMA LinkingPartKeeps == LinkingInv /\ [MCNext]_mcVars => LinkingInv'
<1> SUFFICES ASSUME LinkingInv, [MCNext]_mcVars PROVE LinkingInv'
  OBVIOUS
<1>1. CASE part' = "linking"
  <2>1. part = "linking" /\ [Linking!Next]_(Linking!vars)
    <3>1. CASE MCNext
      BY <1>1, <3>1 DEF MCNext
    <3>2. CASE UNCHANGED mcVars
      BY <1>1, <3>2 DEF mcVars, Linking!vars, Linking!inputs
    <3>3. QED
      BY <3>1, <3>2
  <2>2. Linking!LinkInv'
    BY <2>1, Linking!LinkStep DEF LinkingInv
  <2>3. QED
    BY <1>1, <2>2 DEF LinkingInv
<1>2. CASE part' = "bridges"
  <2>1. part = "bridges" /\ [Bridges!Next]_(Bridges!vars)
    <3>1. CASE MCNext
      BY <1>2, <3>1 DEF MCNext
    <3>2. CASE UNCHANGED mcVars
      BY <1>2, <3>2 DEF mcVars, Bridges!vars, Bridges!inputs
    <3>3. QED
      BY <3>1, <3>2
  <2>2. Bridges!LinkInv'
    BY <2>1, Bridges!LinkStep DEF LinkingInv
  <2>3. QED
    BY <1>2, <2>2 DEF LinkingInv
<1>3. CASE part' \notin {"linking", "bridges"}
  BY <1>3 DEF LinkingInv
<1>4. QED
  BY <1>1, <1>2, <1>3

\* Each component keeps its invariant beside the others.
PartsInv == ContextInv /\ RoutingInv /\ LinkingInv

\* Whichever component runs, its inductive invariant holds at every step:
\* for any fields, sizes, limits, routes, scores and scopes.
THEOREM PartsInvariant == MCSpec => []PartsInv
<1>1. MCInit => PartsInv
  <2>1. MCInit => ContextInv
    BY SelectionBegins DEF MCInit, ContextInv
  <2>2. MCInit => RoutingInv
    BY RoutingBegins DEF MCInit, RoutingInv
  <2>3. QED
    BY <2>1, <2>2, LinkingBegins DEF PartsInv
<1>2. PartsInv /\ [MCNext]_mcVars => PartsInv'
  BY ContextPartKeeps, RoutingPartKeeps, LinkingPartKeeps DEF PartsInv
<1>3. QED
  BY <1>1, <1>2, PTL DEF MCSpec

\* The values of the selection, of the calls and of the two calls of
\* link_schema are of the declared kinds, however long a request goes on.
THEOREM GenerationTyped == MCSpec => []MCTypeOK
<1>1. PartsInv => MCTypeOK
  BY DEF PartsInv, ContextInv, RoutingInv, LinkingInv, IInv, RInv,
     Linking!LinkInv, Bridges!LinkInv, MCTypeOK
<1>2. QED
  BY <1>1, PartsInvariant, PTL

\* What link_schema returns: it accepts the pool it prepared, ranks without
\* embedding as the words do and with it as both channels agree, uses its
\* budget, joins what the keys connect by shortest ways inside the selection,
\* and touches nothing outside the scope of the profile.
THEOREM LinkingTrue == MCSpec => []LinkingSound
<1>1. PartsInv => LinkingSound
  BY Linking!LinkPromises, Bridges!LinkPromises
     DEF PartsInv, LinkingInv, LinkingSound, Linking!Sound, Bridges!Sound
<1>2. QED
  BY <1>1, PartsInvariant, PTL

\* A table that others cannot be joined without gives way in the second call
\* only to others of its kind and to what joins these
\* (rerank_schema_candidates, _select_table_ids).
THEOREM BridgesStay == MCSpec => []BridgesKept
<1>1. PartsInv => BridgesKept
  BY Linking!LinkPromises, Bridges!LinkPromises
     DEF PartsInv, LinkingInv, BridgesKept
<1>2. QED
  BY <1>1, PartsInvariant, PTL

-----------------------------------------------------------------------------
(* The registry of embedding indexes.  A request touches its own fields,   *)
(* the entry of its version in _flights, and one flight: its own while it  *)
(* builds, the one it joined while it waits.  The invariant ties the three *)
(* together, so that each step can be followed from the request that takes *)
(* it to the requests that share its flight.                               *)

Underway == {"call", "build", "joined", "wait", "leave", "read"}

\* What the requests that joined the flight of f will be told, in terms of
\* what f itself returned or raised.
Shared(outcome) ==
    IF outcome = Registry!Raised(Registry!Cancelled)
    THEN Registry!Raised(Registry!BuildFailed) ELSE outcome

\* A registered flight is that of a builder of the version, and conversely.
FlightsBuild ==
    /\ \A v \in Versions : flights[v] # NoValue =>
           pc[flights[v]] = "build" /\ want[flights[v]] = v
    /\ \A r \in Requests : pc[r] = "build" =>
           /\ flights[want[r]] = r /\ want[r] \notin Registry!Resident
           /\ joined[r] = NoValue /\ ~flight[r].event

\* A request holds the flight of a builder of its version, until it lands.
JoinersFollow ==
    \A r \in Requests :
        /\ pc[r] = "call" => joined[r] = NoValue
        /\ pc[r] \in {"joined", "wait", "leave", "read"} => joined[r] # NoValue
        /\ joined[r] # NoValue =>
               /\ want[joined[r]] = want[r]
               /\ flight[joined[r]].event \/ pc[joined[r]] = "build"
        /\ completed[r] => joined[r] # NoValue /\ flight[joined[r]].event
        /\ pc[r] = "read" \/ pc[r] = "leave" =>
               completed[r] \/ deadline[r] = "over"

\* A flight that has landed tells what its builder returned or raised.
LandedTells ==
    \A f \in Requests : flight[f].event =>
        /\ pc[f] = "done"
        /\ Registry!Told(flight[f]) = Shared(answer[f])

\* A request has no answer before it is done.
AnswersLast ==
    \A r \in Requests : pc[r] # "done" => answer[r] = Registry!NoAnswer

RegistryInv == /\ Registry!TypeOK
               /\ FlightsBuild /\ JoinersFollow /\ LandedTells /\ AnswersLast
               /\ Registry!SameAnswer /\ Registry!OnlyWholeIndexes
               /\ Registry!LeastRecentlyUsed /\ Registry!WaitersCounted

-----------------------------------------------------------------------------
(* Sequences                                                               *)

LEMMA ToEndSeq ==
    ASSUME NEW S, NEW s \in Seq(S), NEW i \in 1..Len(s)
    PROVE  /\ Registry!ToEnd(s, i) \in Seq(S)
           /\ Len(Registry!ToEnd(s, i)) = Len(s)
           /\ \A j \in 1..Len(s) : Registry!ToEnd(s, i)[j] =
                  IF j < i THEN s[j] ELSE IF j < Len(s) THEN s[j + 1] ELSE s[i]
<1>1. /\ Len(s) \in Nat /\ \A j \in 1..Len(s) : s[j] \in S
  OBVIOUS
<1>2. \A j \in 1..Len(s) :
          (IF j < i THEN s[j] ELSE IF j < Len(s) THEN s[j + 1] ELSE s[i]) \in S
  BY <1>1
<1>3. Registry!ToEnd(s, i) \in [1..Len(s) -> S]
  BY <1>2 DEF Registry!ToEnd
<1> QED
  BY <1>1, <1>3 DEF Registry!ToEnd

\* The entries of s and of ToEnd(s, i) are the same.
LEMMA ToEndRange ==
    ASSUME NEW S, NEW s \in Seq(S), NEW i \in 1..Len(s)
    PROVE  /\ \A j \in 1..Len(s) : \E k \in 1..Len(s) :
                  Registry!ToEnd(s, i)[j] = s[k]
           /\ \A k \in 1..Len(s) : \E j \in 1..Len(s) :
                  Registry!ToEnd(s, i)[j] = s[k]
<1>1. Len(s) \in Nat /\ i \in Nat
  OBVIOUS
<1>2. ASSUME NEW j \in 1..Len(s)
      PROVE  \E k \in 1..Len(s) : Registry!ToEnd(s, i)[j] = s[k]
  <2>1. CASE j < i
    BY <2>1, ToEndSeq
  <2>2. CASE i <= j /\ j < Len(s)
    <3>1. j + 1 \in 1..Len(s) /\ ~(j < i)
      BY <1>1, <2>2
    <3> QED
      BY <2>2, <3>1, ToEndSeq
  <2>3. CASE j = Len(s)
    BY <1>1, <2>3, ToEndSeq
  <2> QED
    BY <1>1, <2>1, <2>2, <2>3
<1>3. ASSUME NEW k \in 1..Len(s)
      PROVE  \E j \in 1..Len(s) : Registry!ToEnd(s, i)[j] = s[k]
  <2>1. CASE k < i
    BY <2>1, ToEndSeq
  <2>2. CASE k > i
    <3>1. k - 1 \in 1..Len(s) /\ ~(k - 1 < i) /\ k - 1 < Len(s)
              /\ (k - 1) + 1 = k
      BY <1>1, <2>2
    <3>2. Registry!ToEnd(s, i)[k - 1] = s[(k - 1) + 1]
      BY <3>1, ToEndSeq
    <3> QED
      BY <3>1, <3>2
  <2>3. CASE k = i
    <3>1. Len(s) \in 1..Len(s) /\ ~(Len(s) < i) /\ ~(Len(s) < Len(s))
      BY <1>1
    <3> QED
      BY <2>3, <3>1, ToEndSeq
  <2> QED
    BY <1>1, <2>1, <2>2, <2>3
<1> QED
  BY <1>2, <1>3

LEMMA EvictSeq ==
    ASSUME Registry!IndexAssumption, NEW S, NEW s \in Seq(S)
    PROVE  /\ Registry!Evict(s) \in Seq(S)
           /\ Len(Registry!Evict(s)) = IF Len(s) > MaxEntries THEN MaxEntries
                  ELSE Len(s)
           /\ \A j \in 1..Len(Registry!Evict(s)) :
                  Registry!Evict(s)[j] = s[Len(s) - Len(Registry!Evict(s)) + j]
<1>1. Len(s) \in Nat /\ MaxEntries \in Nat \ {0}
  BY DEF Registry!IndexAssumption
<1>2. CASE ~(Len(s) > MaxEntries)
  <2>1. Registry!Evict(s) = s
    BY <1>2 DEF Registry!Evict
  <2>2. \A j \in 1..Len(s) : Len(s) - Len(s) + j = j
    BY <1>1
  <2> QED
    BY <1>2, <2>1, <2>2
<1>3. CASE Len(s) > MaxEntries
  <2> DEFINE m == Len(s) - MaxEntries + 1
             cut == SubSeq(s, m, Len(s))
  <2>1. m \in 1..Len(s) /\ Len(s) - m + 1 = MaxEntries
    BY <1>1, <1>3
  <2>2. Registry!Evict(s) = cut
    BY <1>3 DEF Registry!Evict
  <2>3. /\ cut \in Seq(S) /\ Len(cut) = MaxEntries
        /\ \A j \in 1..MaxEntries : cut[j] = s[m + j - 1]
    BY <1>1, <2>1, SubSeqProperties
  <2>4. \A j \in 1..MaxEntries : m + j - 1 = Len(s) - MaxEntries + j
    BY <1>1
  <2> HIDE DEF m, cut
  <2> QED
    BY <1>3, <2>2, <2>3, <2>4
<1> QED
  BY <1>2, <1>3

-----------------------------------------------------------------------------
(* Types                                                                   *)

LEMMA RegistryTyped ==
    ASSUME Registry!IndexAssumption
    PROVE  Registry!Init => Registry!TypeOK
<1>1. Registry!NewFlight \in Registry!Flight
          /\ Registry!NoAnswer \in Registry!Answers
  BY DEF Registry!NewFlight, Registry!Flight, Registry!NoAnswer,
         Registry!Answers, Registry!Returned
<1>2. 0 \in 0..Batches
  BY DEF Registry!IndexAssumption
<1> QED
  BY <1>1, <1>2 DEF Registry!Init, Registry!TypeOK

LEMMA UseType ==
    ASSUME NEW v \in Versions, recent \in Seq(Versions), Registry!Use(v)
    PROVE  recent' \in Seq(Versions)
<1>1. CASE \E i \in 1..Len(recent) : recent[i] = v
  <2>1. PICK i \in 1..Len(recent) : recent' = Registry!ToEnd(recent, i)
    BY <1>1 DEF Registry!Use
  <2> QED
    BY <2>1, ToEndSeq
<1>2. CASE ~\E i \in 1..Len(recent) : recent[i] = v
  BY <1>2 DEF Registry!Use
<1> QED
  BY <1>1, <1>2

\* What a request returns or raises is an answer.
LEMMA OutcomeTypes ==
    /\ \A index \in Registry!Index \cup {NoValue} :
           Registry!Returned(index) \in Registry!Answers
    /\ \A error \in Registry!BuildErrors \cup {Registry!Cancelled} :
           Registry!Raised(error) \in Registry!Answers
BY DEF Registry!Returned, Registry!Raised, Registry!Answers

LEMMA ToldType ==
    ASSUME NEW f \in Registry!Flight
    PROVE  Registry!Told(f) \in Registry!Answers
<1>1. f.error \in Registry!BuildErrors \cup {NoValue}
          /\ f.result \in Registry!Index \cup {NoValue}
  BY DEF Registry!Flight
<1>2. Registry!BuildFailed \in Registry!BuildErrors
  BY DEF Registry!BuildErrors
<1> QED
  BY <1>1, <1>2, OutcomeTypes DEF Registry!Told

LEMMA BuiltType ==
    ASSUME Registry!TypeOK, NEW r \in Requests
    PROVE  Registry!Built(r) \in Registry!Index
BY DEF Registry!TypeOK, Registry!Built, Registry!Index

LEMMA LandEffect ==
    ASSUME Registry!TypeOK, NEW r \in Requests,
           NEW result \in Registry!Index \cup {NoValue},
           NEW error \in Registry!BuildErrors \cup {NoValue},
           Registry!Land(r, result, error)
    PROVE  /\ flight' \in [Requests -> Registry!Flight]
           /\ flights' \in [Versions -> Requests \cup {NoValue}]
           /\ flight'[r].event /\ flight'[r].result = result
           /\ flight'[r].error = error
           /\ \A f \in Requests :
                  flight'[f].waiter_count = flight[f].waiter_count
           /\ \A f \in Requests : f # r => flight'[f] = flight[f]
           /\ \A v \in Versions :
                  flights'[v] = IF v = want[r] THEN NoValue ELSE flights[v]
<1> DEFINE landed == [event |-> TRUE, result |-> result, error |-> error,
                      waiter_count |-> flight[r].waiter_count]
<1>1. flight[r].waiter_count \in Nat /\ want[r] \in Versions
  BY DEF Registry!TypeOK, Registry!Flight
<1>2. landed \in Registry!Flight
  BY <1>1 DEF Registry!Flight
<1>3. flight' = [flight EXCEPT ![r] = landed]
  BY DEF Registry!Land
<1>4. flights' = [flights EXCEPT ![want[r]] = NoValue]
  BY DEF Registry!Land
<1>5. /\ landed.event /\ landed.result = result /\ landed.error = error
      /\ landed.waiter_count = flight[r].waiter_count
  OBVIOUS
<1> HIDE DEF landed
<1> QED
  BY <1>1, <1>2, <1>3, <1>4, <1>5 DEF Registry!TypeOK

\* A step that only counts waiters.
Counts(f, n) == flight' = [flight EXCEPT ![f].waiter_count = n]

LEMMA CountEffect ==
    ASSUME Registry!TypeOK, NEW f \in Requests, NEW n \in Nat, Counts(f, n)
    PROVE  /\ flight' \in [Requests -> Registry!Flight]
           /\ \A g \in Requests :
                  /\ flight'[g].event = flight[g].event
                  /\ flight'[g].result = flight[g].result
                  /\ flight'[g].error = flight[g].error
                  /\ flight'[g].waiter_count =
                         IF g = f THEN n ELSE flight[g].waiter_count
<1> DEFINE counted == [flight[f] EXCEPT !.waiter_count = n]
<1>1. flight[f] \in Registry!Flight
  BY DEF Registry!TypeOK
<1>2. /\ counted \in Registry!Flight /\ counted.event = flight[f].event
      /\ counted.result = flight[f].result /\ counted.error = flight[f].error
      /\ counted.waiter_count = n
  BY <1>1 DEF Registry!Flight
<1>3. flight' = [flight EXCEPT ![f] = counted]
  BY DEF Counts
<1> HIDE DEF counted
<1>4. flight' \in [Requests -> Registry!Flight]
  BY <1>2, <1>3 DEF Registry!TypeOK
<1>5. \A g \in Requests : flight'[g] = IF g = f THEN counted ELSE flight[g]
  BY <1>3 DEF Registry!TypeOK
<1> QED
  BY <1>2, <1>4, <1>5

LEMMA JoinEffect ==
    ASSUME Registry!TypeOK, NEW r \in Requests, Registry!Join(r)
    PROVE  /\ flights[want[r]] \in Requests
           /\ flight' \in [Requests -> Registry!Flight]
           /\ \A g \in Requests :
                  /\ flight'[g].event = flight[g].event
                  /\ flight'[g].result = flight[g].result
                  /\ flight'[g].error = flight[g].error
                  /\ flight'[g].waiter_count =
                         IF g = flights[want[r]] THEN flight[g].waiter_count + 1
                         ELSE flight[g].waiter_count
<1>1. PICK f \in Requests : f = flights[want[r]]
  BY DEF Registry!Join, Registry!TypeOK
<1>2. flight[f].waiter_count \in Nat
  BY DEF Registry!TypeOK, Registry!Flight
<1>3. PICK n \in Nat : n = flight[f].waiter_count + 1
  BY <1>2
<1>4. Counts(f, n)
  BY <1>1, <1>3 DEF Registry!Join, Counts
<1>5. /\ flight' \in [Requests -> Registry!Flight]
      /\ \A g \in Requests :
             /\ flight'[g].event = flight[g].event
             /\ flight'[g].result = flight[g].result
             /\ flight'[g].error = flight[g].error
             /\ flight'[g].waiter_count = IF g = f THEN n
                    ELSE flight[g].waiter_count
  BY <1>4, CountEffect
<1> QED
  BY <1>1, <1>3, <1>5

LEMMA LeaveEffect ==
    ASSUME Registry!TypeOK, JoinersFollow, NEW r \in Requests, Registry!Leave(r)
    PROVE  /\ joined[r] \in Requests
           /\ flight' \in [Requests -> Registry!Flight]
           /\ \A g \in Requests :
                  /\ flight'[g].event = flight[g].event
                  /\ flight'[g].result = flight[g].result
                  /\ flight'[g].error = flight[g].error
                  /\ flight'[g].waiter_count =
                         IF g = joined[r] /\ flight[g].waiter_count # 0
                         THEN flight[g].waiter_count - 1
                         ELSE flight[g].waiter_count
<1>1. PICK f \in Requests : f = joined[r]
  BY DEF Registry!Leave, JoinersFollow, Registry!TypeOK
<1>2. flight[f].waiter_count \in Nat
  BY DEF Registry!TypeOK, Registry!Flight
<1>3. PICK n \in Nat : n = IF flight[f].waiter_count = 0 THEN 0
                           ELSE flight[f].waiter_count - 1
  BY <1>2
<1>4. Counts(f, n)
  BY <1>1, <1>3 DEF Registry!Leave, Counts
<1>5. /\ flight' \in [Requests -> Registry!Flight]
      /\ \A g \in Requests :
             /\ flight'[g].event = flight[g].event
             /\ flight'[g].result = flight[g].result
             /\ flight'[g].error = flight[g].error
             /\ flight'[g].waiter_count = IF g = f THEN n
                    ELSE flight[g].waiter_count
  BY <1>4, CountEffect
<1> QED
  BY <1>1, <1>3, <1>5

LEMMA EndsType ==
    ASSUME Registry!TypeOK, NEW r \in Requests,
           NEW outcome \in Registry!Answers, Registry!Ends(r, outcome)
    PROVE  /\ pc' \in [Requests -> {"call", "build", "joined", "wait", "leave",
                                    "read", "done"}]
           /\ answer' \in [Requests -> Registry!Answers]
BY DEF Registry!TypeOK, Registry!Ends

LEMMA RegistryStaysTyped ==
    ASSUME Registry!IndexAssumption
    PROVE  Registry!TypeOK /\ JoinersFollow /\ [Registry!Next]_(Registry!vars)
               => Registry!TypeOK'
<1> SUFFICES ASSUME Registry!TypeOK, JoinersFollow,
                    [Registry!Next]_(Registry!vars)
             PROVE  Registry!TypeOK'
  OBVIOUS
<1>1. CASE UNCHANGED Registry!vars
  BY <1>1 DEF Registry!vars, Registry!requestVars, Registry!TypeOK
<1>2. ASSUME NEW r \in Requests, Registry!Expire(r) PROVE Registry!TypeOK'
  BY <1>2 DEF Registry!Expire, Registry!TypeOK
<1>3. ASSUME NEW r \in Requests, Registry!Refuse(r) PROVE Registry!TypeOK'
  <2>1. Registry!Raised(Registry!BuildFailed) \in Registry!Answers
    BY OutcomeTypes DEF Registry!BuildErrors
  <2> QED
    BY <1>3, <2>1, EndsType DEF Registry!Refuse, Registry!TypeOK
<1>4. ASSUME NEW r \in Requests, Registry!Hit(r) PROVE Registry!TypeOK'
  <2>1. PICK i \in 1..Len(indexes) :
            indexes' = Registry!ToEnd(indexes, i)
                /\ Registry!Ends(r, Registry!Returned(indexes[i]))
    BY <1>4 DEF Registry!Hit
  <2>2. indexes \in Seq(Registry!Index) /\ indexes[i] \in Registry!Index
    BY DEF Registry!TypeOK
  <2>3. indexes' \in Seq(Registry!Index)
    BY <2>1, <2>2, ToEndSeq
  <2>4. Registry!Returned(indexes[i]) \in Registry!Answers
    BY <2>2, OutcomeTypes
  <2>5. recent' \in Seq(Versions)
    BY <1>4, UseType DEF Registry!Hit, Registry!TypeOK
  <2> QED
    BY <1>4, <2>1, <2>3, <2>4, <2>5, EndsType
       DEF Registry!Hit, Registry!TypeOK
<1>5. ASSUME NEW r \in Requests, Registry!StartBuild(r) PROVE Registry!TypeOK'
  BY <1>5
     DEF Registry!IndexAssumption, Registry!StartBuild, Registry!Goes,
         Registry!TypeOK
<1>6. ASSUME NEW r \in Requests, Registry!Join(r) PROVE Registry!TypeOK'
  BY <1>6, JoinEffect DEF Registry!Join, Registry!Goes, Registry!TypeOK
<1>7. ASSUME NEW r \in Requests, Registry!EmbedBatch(r) PROVE Registry!TypeOK'
  BY <1>7 DEF Registry!IndexAssumption, Registry!EmbedBatch, Registry!TypeOK
<1>8. ASSUME NEW r \in Requests, Registry!BuildFails(r) PROVE Registry!TypeOK'
  <2>1. PICK error \in Registry!BuildErrors :
                 Registry!Ends(r, Registry!Raised(error))
                     /\ Registry!Land(r, NoValue, error)
    BY <1>8 DEF Registry!BuildFails
  <2>2. Registry!Raised(error) \in Registry!Answers
    BY OutcomeTypes
  <2>3. pc' \in [Requests -> {"call", "build", "joined", "wait", "leave",
                              "read", "done"}]
        /\ answer' \in [Requests -> Registry!Answers]
    BY <2>1, <2>2, EndsType
  <2>4. flight' \in [Requests -> Registry!Flight]
        /\ flights' \in [Versions -> Requests \cup {NoValue}]
    BY <2>1, LandEffect
  <2> QED
    BY <1>8, <2>3, <2>4 DEF Registry!BuildFails, Registry!TypeOK
<1>9. ASSUME NEW r \in Requests, Registry!BuildStops(r) PROVE Registry!TypeOK'
  <2>1. Registry!Raised(Registry!Cancelled) \in Registry!Answers
    BY OutcomeTypes
  <2>2. pc' \in [Requests -> {"call", "build", "joined", "wait", "leave",
                              "read", "done"}]
        /\ answer' \in [Requests -> Registry!Answers]
    BY <1>9, <2>1, EndsType DEF Registry!BuildStops
  <2>3. flight' \in [Requests -> Registry!Flight]
        /\ flights' \in [Versions -> Requests \cup {NoValue}]
    BY <1>9, LandEffect DEF Registry!BuildStops, Registry!BuildErrors
  <2> QED
    BY <1>9, <2>2, <2>3 DEF Registry!BuildStops, Registry!TypeOK
<1>10. ASSUME NEW r \in Requests, Registry!Publish(r) PROVE Registry!TypeOK'
  <2>1. Registry!Built(r) \in Registry!Index
    BY BuiltType
  <2>2. Registry!Returned(Registry!Built(r)) \in Registry!Answers
    BY <2>1, OutcomeTypes
  <2>3. pc' \in [Requests -> {"call", "build", "joined", "wait", "leave",
                              "read", "done"}]
        /\ answer' \in [Requests -> Registry!Answers]
    BY <1>10, <2>2, EndsType DEF Registry!Publish
  <2>4. flight' \in [Requests -> Registry!Flight]
        /\ flights' \in [Versions -> Requests \cup {NoValue}]
    BY <1>10, <2>1, LandEffect DEF Registry!Publish
  <2>5. Append(indexes, Registry!Built(r)) \in Seq(Registry!Index)
    BY <2>1 DEF Registry!TypeOK
  <2>6. indexes' \in Seq(Registry!Index)
    BY <1>10, <2>5, EvictSeq DEF Registry!Publish
  <2>7. recent' \in Seq(Versions)
    BY <1>10, UseType DEF Registry!Publish, Registry!TypeOK
  <2> QED
    BY <1>10, <2>3, <2>4, <2>6, <2>7 DEF Registry!Publish, Registry!TypeOK
<1>11. ASSUME NEW r \in Requests, Registry!TooLate(r) PROVE Registry!TypeOK'
  <2>1. Registry!Raised(Registry!TimedOut) \in Registry!Answers
    BY OutcomeTypes DEF Registry!BuildErrors
  <2> QED
    BY <1>11, <2>1, EndsType DEF Registry!TooLate, Registry!TypeOK
<1>12. ASSUME NEW r \in Requests, Registry!Wait(r) PROVE Registry!TypeOK'
  BY <1>12 DEF Registry!Wait, Registry!Goes, Registry!TypeOK
<1>13. ASSUME NEW r \in Requests, Registry!WaitReturns(r) PROVE Registry!TypeOK'
  BY <1>13 DEF Registry!WaitReturns, Registry!Goes, Registry!TypeOK
<1>14. ASSUME NEW r \in Requests, Registry!Leave(r) PROVE Registry!TypeOK'
  <2>1. flight' \in [Requests -> Registry!Flight]
    BY <1>14, LeaveEffect
  <2> QED
    BY <1>14, <2>1 DEF Registry!Leave, Registry!Goes, Registry!TypeOK
<1>15. ASSUME NEW r \in Requests, Registry!Read(r) PROVE Registry!TypeOK'
  <2>1. Registry!Raised(Registry!TimedOut) \in Registry!Answers
    BY OutcomeTypes DEF Registry!BuildErrors
  <2>2. joined[r] \in Requests
    BY <1>15 DEF Registry!Read, JoinersFollow, Registry!TypeOK
  <2>3. Registry!Told(flight[joined[r]]) \in Registry!Answers
    BY <2>2, ToldType DEF Registry!TypeOK
  <2> QED
    BY <1>15, <2>1, <2>3, EndsType DEF Registry!Read, Registry!TypeOK
<1> QED
  BY <1>1, <1>2, <1>3, <1>4, <1>5, <1>6, <1>7, <1>8, <1>9, <1>10, <1>11,
     <1>12, <1>13, <1>14, <1>15
     DEF Registry!Next, Registry!Lookup, Registry!Build, Registry!Follow,
         Registry!Finished

-----------------------------------------------------------------------------
(* Flights and the requests that share them                                *)

FlightControl == FlightsBuild /\ JoinersFollow /\ LandedTells /\ AnswersLast

LEMMA FlightsBegin == Registry!Init => FlightControl
<1> SUFFICES ASSUME Registry!Init PROVE FlightControl
  OBVIOUS
<1>1. \A r \in Requests : ~flight[r].event
  BY DEF Registry!Init, Registry!NewFlight
<1> QED
  BY <1>1
     DEF Registry!Init, FlightControl, FlightsBuild, JoinersFollow,
         LandedTells, AnswersLast

\* A hit moves an entry; a new index is appended, then the oldest may go.
LEMMA ResidentHit ==
    ASSUME Registry!TypeOK, NEW i \in 1..Len(indexes),
           indexes' = Registry!ToEnd(indexes, i)
    PROVE  Registry!Resident' = Registry!Resident
<1>1. indexes \in Seq(Registry!Index)
  BY DEF Registry!TypeOK
<1>2. Len(indexes') = Len(indexes)
  BY <1>1, ToEndSeq
<1>3. /\ \A j \in 1..Len(indexes) : \E k \in 1..Len(indexes) :
             indexes'[j] = indexes[k]
      /\ \A k \in 1..Len(indexes) : \E j \in 1..Len(indexes) :
             indexes'[j] = indexes[k]
  <2>1. /\ \A j \in 1..Len(indexes) :
                \E k \in 1..Len(indexes) :
                    Registry!ToEnd(indexes, i)[j] = indexes[k]
        /\ \A k \in 1..Len(indexes) :
                \E j \in 1..Len(indexes) :
                    Registry!ToEnd(indexes, i)[j] = indexes[k]
    BY <1>1, ToEndRange
  <2> QED
    BY <2>1
<1>4. ASSUME NEW v \in Registry!Resident PROVE v \in Registry!Resident'
  <2>1. PICK k \in 1..Len(indexes) : v = indexes[k].version
    BY DEF Registry!Resident
  <2>2. PICK j \in 1..Len(indexes') : indexes'[j] = indexes[k]
    BY <1>2, <1>3
  <2> QED
    BY <2>1, <2>2 DEF Registry!Resident
<1>5. ASSUME NEW v \in Registry!Resident' PROVE v \in Registry!Resident
  <2>1. PICK j \in 1..Len(indexes') : v = indexes'[j].version
    BY DEF Registry!Resident
  <2>2. PICK k \in 1..Len(indexes) : indexes'[j] = indexes[k]
    BY <1>2, <1>3, <2>1
  <2> QED
    BY <2>1, <2>2 DEF Registry!Resident
<1> QED
  BY <1>4, <1>5

LEMMA EntriesPublish ==
    ASSUME Registry!IndexAssumption, Registry!TypeOK, NEW r \in Requests,
           Registry!Publish(r)
    PROVE  \A j \in 1..Len(indexes') :
               \/ indexes'[j] = Registry!Built(r)
               \/ \E k \in 1..Len(indexes) : indexes'[j] = indexes[k]
<1> DEFINE longer == Append(indexes, Registry!Built(r))
<1>1. indexes \in Seq(Registry!Index) /\ Registry!Built(r) \in Registry!Index
  BY BuiltType DEF Registry!TypeOK
<1>2. longer \in Seq(Registry!Index) /\ Len(longer) = Len(indexes) + 1
  BY <1>1
<1>3. indexes' = Registry!Evict(longer)
  BY DEF Registry!Publish
<1>4. MaxEntries \in Nat /\ Len(longer) \in Nat
  BY <1>2 DEF Registry!IndexAssumption
<1>5. \A k \in 1..Len(longer) : longer[k] = IF k <= Len(indexes) THEN indexes[k]
                                            ELSE Registry!Built(r)
  BY <1>1
<1> HIDE DEF longer
<1>6. ASSUME NEW j \in 1..Len(indexes')
      PROVE  \E k \in 1..Len(longer) : indexes'[j] = longer[k]
  <2>1. Len(Registry!Evict(longer)) \in Nat
            /\ Len(Registry!Evict(longer)) <= Len(longer)
    BY <1>2, <1>4, EvictSeq
  <2>2. Len(longer) - Len(Registry!Evict(longer)) + j \in 1..Len(longer)
    BY <1>3, <1>4, <2>1
  <2> QED
    BY <1>2, <1>3, <2>2, EvictSeq
<1>7. ASSUME NEW k \in 1..Len(longer)
      PROVE  longer[k] = Registry!Built(r) \/ \E m \in 1..Len(indexes) :
                 longer[k] = indexes[m]
  BY <1>1, <1>2, <1>5
<1> QED
  BY <1>6, <1>7

LEMMA ResidentPublish ==
    ASSUME Registry!IndexAssumption, Registry!TypeOK, NEW r \in Requests,
           Registry!Publish(r)
    PROVE  Registry!Resident' \subseteq Registry!Resident \cup {want[r]}
<1>1. Registry!Built(r).version = want[r]
  BY DEF Registry!Built
<1> QED
  BY <1>1, EntriesPublish DEF Registry!Resident

\* What a flight tells after it has landed.
LEMMA LandTold ==
    ASSUME Registry!TypeOK, NEW r \in Requests,
           NEW result \in Registry!Index \cup {NoValue},
           NEW error \in Registry!BuildErrors \cup {NoValue},
           Registry!Land(r, result, error),
           (result = NoValue) = (error # NoValue)
    PROVE  Registry!Told(flight'[r]) = IF error # NoValue
               THEN Registry!Raised(error) ELSE Registry!Returned(result)
BY LandEffect DEF Registry!Told

LEMMA SharedFacts ==
    ASSUME Registry!IndexAssumption
    PROVE  /\ \A error \in Registry!BuildErrors :
                  Shared(Registry!Raised(error)) = Registry!Raised(error)
    /\ Shared(Registry!Raised(Registry!Cancelled))
           = Registry!Raised(Registry!BuildFailed)
    /\ \A index : Shared(Registry!Returned(index)) = Registry!Returned(index)
<1>1. \A error \in Registry!BuildErrors :
          Registry!Raised(error) # Registry!Raised(Registry!Cancelled)
  BY DEF Registry!Raised, Registry!BuildErrors, Registry!TimedOut,
         Registry!BuildFailed, Registry!Cancelled
<1>2. \A index : Registry!Returned(index) # Registry!Raised(Registry!Cancelled)
  BY DEF Registry!IndexAssumption, Registry!Returned, Registry!Raised
<1> QED
  BY <1>1, <1>2 DEF Shared

LEMMA FlightsKeep ==
    ASSUME Registry!IndexAssumption
    PROVE  Registry!TypeOK /\ FlightControl /\ [Registry!Next]_(Registry!vars)
               => FlightControl'
<1> SUFFICES ASSUME Registry!TypeOK, FlightControl,
                    [Registry!Next]_(Registry!vars)
             PROVE  FlightControl'
  OBVIOUS
<1>1. CASE UNCHANGED Registry!vars
  BY <1>1
     DEF Registry!vars, Registry!requestVars, Registry!Resident, Shared,
         Registry!Told, FlightControl, FlightsBuild, JoinersFollow,
         LandedTells, AnswersLast, Registry!TypeOK
<1>2. ASSUME NEW r \in Requests, Registry!Expire(r) PROVE FlightControl'
  <2>1. /\ UNCHANGED <<want, pc, joined, completed, answer, indexes, flights,
                       flight>>
        /\ \A o \in Requests : deadline[o] = "over" => deadline'[o] = "over"
    BY <1>2 DEF Registry!Expire, Registry!TypeOK
  <2>2. FlightsBuild' /\ LandedTells' /\ AnswersLast'
    BY <2>1
       DEF FlightControl, FlightsBuild, LandedTells, AnswersLast, Shared,
           Registry!Told, Registry!Resident
  <2>3. JoinersFollow'
    BY <2>1 DEF FlightControl, JoinersFollow
  <2> QED
    BY <2>2, <2>3 DEF FlightControl
<1>3. ASSUME NEW r \in Requests, Registry!Refuse(r) PROVE FlightControl'
  <2>5. FlightsBuild'
    BY <1>3
       DEF Registry!Refuse, Registry!Ends, FlightControl, FlightsBuild,
           Registry!Resident, Registry!TypeOK
  <2>6. JoinersFollow'
    BY <1>3
       DEF Registry!Refuse, Registry!Ends, FlightControl, FlightsBuild,
           JoinersFollow, Registry!TypeOK
  <2>7. LandedTells'
    BY <1>3
       DEF Registry!Refuse, Registry!Ends, FlightControl, LandedTells,
           Registry!Told, Shared, Registry!TypeOK
  <2>8. AnswersLast'
    BY <1>3
       DEF Registry!Refuse, Registry!Ends, FlightControl, AnswersLast,
           Registry!TypeOK
  <2> QED
    BY <2>5, <2>6, <2>7, <2>8 DEF FlightControl
<1>4. ASSUME NEW r \in Requests, Registry!Hit(r) PROVE FlightControl'
  <2>1. PICK i \in 1..Len(indexes) : indexes' = Registry!ToEnd(indexes, i)
    BY <1>4 DEF Registry!Hit
  <2>2. Registry!Resident' = Registry!Resident
    BY <2>1, ResidentHit
  <2> QED
    BY <1>4, <2>2
       DEF Registry!Hit, Registry!Ends, FlightControl, FlightsBuild,
           JoinersFollow, LandedTells, AnswersLast, Registry!TypeOK
<1>5. ASSUME NEW r \in Requests, Registry!StartBuild(r) PROVE FlightControl'
  <2>1. /\ pc[r] = "call" /\ want[r] \notin Registry!Resident
        /\ flights[want[r]] = NoValue
        /\ \A v \in Versions :
               flights'[v] = IF v = want[r] THEN r ELSE flights[v]
        /\ \A o \in Requests : pc'[o] = IF o = r THEN "build" ELSE pc[o]
        /\ UNCHANGED <<want, deadline, embedded, joined, completed, answer,
                       indexes, flight>>
    BY <1>5 DEF Registry!StartBuild, Registry!Goes, Registry!TypeOK
  <2>2. joined[r] = NoValue /\ ~flight[r].event
            /\ Registry!Resident' = Registry!Resident
    BY <2>1 DEF FlightControl, JoinersFollow, LandedTells, Registry!Resident
  <2>3. FlightsBuild'
    <3>1. FlightsBuild /\ flights \in [Versions -> Requests \cup {NoValue}]
          /\ want[r] \in Versions
      BY DEF FlightControl, Registry!TypeOK
    <3>2. ASSUME NEW v \in Versions, flights'[v] # NoValue
          PROVE  pc'[flights'[v]] = "build" /\ want'[flights'[v]] = v
      <4>1. CASE v = want[r]
        BY <2>1, <4>1
      <4>2. CASE v # want[r]
        BY <2>1, <3>1, <3>2, <4>2 DEF FlightsBuild
      <4> QED
        BY <4>1, <4>2
    <3>3. ASSUME NEW o \in Requests, pc'[o] = "build"
          PROVE  /\ flights'[want'[o]] = o /\ want'[o] \notin Registry!Resident'
                 /\ joined'[o] = NoValue /\ ~flight'[o].event
      <4>1. CASE o = r
        BY <2>1, <2>2, <3>1, <4>1
      <4>2. CASE o # r
        <5>1. pc[o] = "build"
          BY <2>1, <3>3, <4>2
        <5>2. /\ flights[want[o]] = o /\ want[o] \notin Registry!Resident
              /\ joined[o] = NoValue /\ ~flight[o].event
          BY <3>1, <5>1 DEF FlightsBuild
        <5>3. want[o] # want[r] /\ want[o] \in Versions
          BY <2>1, <5>2 DEF Registry!IndexAssumption, Registry!TypeOK
        <5> QED
          BY <2>1, <2>2, <5>2, <5>3
      <4> QED
        BY <4>1, <4>2
    <3> QED
      BY <3>2, <3>3 DEF FlightsBuild
  <2>4. JoinersFollow'
    BY <2>1, <2>2 DEF FlightControl, JoinersFollow, Registry!TypeOK
  <2>5. LandedTells'
    BY <2>1, <2>2 DEF FlightControl, LandedTells, Shared, Registry!Told
  <2>6. AnswersLast'
    BY <2>1 DEF FlightControl, AnswersLast
  <2> QED
    BY <2>3, <2>4, <2>5, <2>6 DEF FlightControl
<1>6. ASSUME NEW r \in Requests, Registry!Join(r) PROVE FlightControl'
  <2>1. flights[want[r]] \in Requests
    BY <1>6, JoinEffect
  <2>3. \A f \in Requests : /\ flight'[f].event = flight[f].event
                            /\ flight'[f].result = flight[f].result
                            /\ flight'[f].error = flight[f].error
    BY <1>6, JoinEffect
  <2>4. pc[flights[want[r]]] = "build" /\ want[flights[want[r]]] = want[r]
    BY <1>6, <2>1
       DEF Registry!Join, FlightControl, FlightsBuild, Registry!TypeOK
  <2>5. FlightsBuild'
    BY <1>6, <2>1, <2>3, <2>4
       DEF Registry!Join, Registry!Goes, FlightControl, FlightsBuild,
           Registry!Resident, Registry!TypeOK
  <2>6. JoinersFollow'
    BY <1>6, <2>1, <2>3, <2>4
       DEF Registry!Join, Registry!Goes, FlightControl, FlightsBuild,
           JoinersFollow, Registry!TypeOK
  <2>7. LandedTells'
    BY <1>6, <2>1, <2>3, <2>4
       DEF Registry!Join, Registry!Goes, FlightControl, LandedTells,
           Registry!Told, Shared, Registry!TypeOK
  <2>8. AnswersLast'
    BY <1>6, <2>1, <2>3, <2>4
       DEF Registry!Join, Registry!Goes, FlightControl, AnswersLast,
           Registry!TypeOK
  <2> QED
    BY <2>5, <2>6, <2>7, <2>8 DEF FlightControl
<1>7. ASSUME NEW r \in Requests, Registry!EmbedBatch(r) PROVE FlightControl'
  <2>1. UNCHANGED <<want, deadline, pc, joined, completed, answer, indexes,
                    flights, flight>>
    BY <1>7 DEF Registry!EmbedBatch
  <2> QED
    BY <2>1
       DEF FlightControl, FlightsBuild, JoinersFollow, LandedTells,
           AnswersLast, Shared, Registry!Told, Registry!Resident
<1>8. ASSUME NEW r \in Requests, Registry!BuildFails(r) PROVE FlightControl'
  <2>1. PICK error \in Registry!BuildErrors :
                 Registry!Ends(r, Registry!Raised(error))
                     /\ Registry!Land(r, NoValue, error)
    BY <1>8 DEF Registry!BuildFails
  <2>2. /\ flight'[r].event
        /\ Registry!Told(flight'[r]) = Shared(Registry!Raised(error))
        /\ \A f \in Requests : f # r => flight'[f] = flight[f]
        /\ \A v \in Versions :
               flights'[v] = IF v = want[r] THEN NoValue ELSE flights[v]
    <3>1. /\ NoValue \in Registry!Index \cup {NoValue}
          /\ error \in Registry!BuildErrors \cup {NoValue}
          /\ (NoValue = NoValue) = (error # NoValue)
      BY BuiltType DEF Registry!IndexAssumption, Registry!BuildErrors
    <3>2. Registry!Told(flight'[r]) = Registry!Raised(error)
      BY <2>1, <3>1, LandTold
         DEF Registry!IndexAssumption, Registry!BuildErrors
    <3> QED
      BY <2>1, <3>1, <3>2, LandEffect, SharedFacts
  <2>3. flights[want[r]] = r /\ joined[r] = NoValue
    BY <1>8 DEF Registry!BuildFails, FlightControl, FlightsBuild
  <2>4. Registry!Resident' = Registry!Resident
    BY <1>8 DEF Registry!BuildFails, Registry!Resident
  <2>5. FlightsBuild'
    BY <1>8, <2>1, <2>2, <2>3, <2>4
       DEF Registry!BuildFails, Registry!Ends, FlightControl, FlightsBuild,
           JoinersFollow, LandedTells, AnswersLast, Registry!TypeOK
  <2>6. JoinersFollow'
    BY <1>8, <2>1, <2>2, <2>3
       DEF Registry!BuildFails, Registry!Ends, FlightControl, FlightsBuild,
           JoinersFollow, LandedTells, AnswersLast, Registry!TypeOK
  <2>7. LandedTells'
    BY <1>8, <2>1, <2>2, <2>3
       DEF Registry!BuildFails, Registry!Ends, FlightControl, FlightsBuild,
           JoinersFollow, LandedTells, AnswersLast, Registry!TypeOK
  <2>8. AnswersLast'
    BY <1>8, <2>1
       DEF Registry!BuildFails, Registry!Ends, FlightControl, FlightsBuild,
           JoinersFollow, LandedTells, AnswersLast, Registry!TypeOK
  <2> QED
    BY <2>5, <2>6, <2>7, <2>8 DEF FlightControl
<1>9. ASSUME NEW r \in Requests, Registry!BuildStops(r) PROVE FlightControl'
  <2>1. Registry!Ends(r, Registry!Raised(Registry!Cancelled))
            /\ Registry!Land(r, NoValue, Registry!BuildFailed)
    BY <1>9 DEF Registry!BuildStops
  <2>2. /\ flight'[r].event
        /\ Registry!Told(flight'[r])
               = Shared(Registry!Raised(Registry!Cancelled))
        /\ \A f \in Requests : f # r => flight'[f] = flight[f]
        /\ \A v \in Versions :
               flights'[v] = IF v = want[r] THEN NoValue ELSE flights[v]
    <3>1. /\ NoValue \in Registry!Index \cup {NoValue}
          /\ Registry!BuildFailed \in Registry!BuildErrors \cup {NoValue}
          /\ (NoValue = NoValue) = (Registry!BuildFailed # NoValue)
      BY BuiltType DEF Registry!IndexAssumption, Registry!BuildErrors
    <3>2. Registry!Told(flight'[r]) = Registry!Raised(Registry!BuildFailed)
      BY <2>1, <3>1, LandTold
         DEF Registry!IndexAssumption, Registry!BuildErrors
    <3> QED
      BY <2>1, <3>1, <3>2, LandEffect, SharedFacts
  <2>3. flights[want[r]] = r /\ joined[r] = NoValue
    BY <1>9 DEF Registry!BuildStops, FlightControl, FlightsBuild
  <2>4. Registry!Resident' = Registry!Resident
    BY <1>9 DEF Registry!BuildStops, Registry!Resident
  <2>5. FlightsBuild'
    BY <1>9, <2>1, <2>2, <2>3, <2>4
       DEF Registry!BuildStops, Registry!Ends, FlightControl, FlightsBuild,
           JoinersFollow, LandedTells, AnswersLast, Registry!TypeOK
  <2>6. JoinersFollow'
    BY <1>9, <2>1, <2>2, <2>3
       DEF Registry!BuildStops, Registry!Ends, FlightControl, FlightsBuild,
           JoinersFollow, LandedTells, AnswersLast, Registry!TypeOK
  <2>7. LandedTells'
    BY <1>9, <2>1, <2>2, <2>3
       DEF Registry!BuildStops, Registry!Ends, FlightControl, FlightsBuild,
           JoinersFollow, LandedTells, AnswersLast, Registry!TypeOK
  <2>8. AnswersLast'
    BY <1>9, <2>1
       DEF Registry!BuildStops, Registry!Ends, FlightControl, FlightsBuild,
           JoinersFollow, LandedTells, AnswersLast, Registry!TypeOK
  <2> QED
    BY <2>5, <2>6, <2>7, <2>8 DEF FlightControl
<1>10. ASSUME NEW r \in Requests, Registry!Publish(r) PROVE FlightControl'
  <2>1. Registry!Ends(r, Registry!Returned(Registry!Built(r)))
            /\ Registry!Land(r, Registry!Built(r), NoValue)
    BY <1>10 DEF Registry!Publish
  <2>2. /\ flight'[r].event
        /\ Registry!Told(flight'[r])
               = Shared(Registry!Returned(Registry!Built(r)))
        /\ \A f \in Requests : f # r => flight'[f] = flight[f]
        /\ \A v \in Versions :
               flights'[v] = IF v = want[r] THEN NoValue ELSE flights[v]
    <3>1. /\ Registry!Built(r) \in Registry!Index \cup {NoValue}
          /\ NoValue \in Registry!BuildErrors \cup {NoValue}
          /\ (Registry!Built(r) = NoValue) = (NoValue # NoValue)
      BY BuiltType DEF Registry!IndexAssumption, Registry!BuildErrors
    <3>2. Registry!Told(flight'[r]) = Registry!Returned(Registry!Built(r))
      BY <2>1, <3>1, LandTold
         DEF Registry!IndexAssumption, Registry!BuildErrors
    <3> QED
      BY <2>1, <3>1, <3>2, LandEffect, SharedFacts
  <2>3. flights[want[r]] = r /\ joined[r] = NoValue
    BY <1>10 DEF Registry!Publish, FlightControl, FlightsBuild
  <2>4. Registry!Resident' \subseteq Registry!Resident \cup {want[r]}
    BY <1>10, ResidentPublish
  <2>5. FlightsBuild'
    BY <1>10, <2>1, <2>2, <2>3, <2>4
       DEF Registry!Publish, Registry!Ends, FlightControl, FlightsBuild,
           JoinersFollow, LandedTells, AnswersLast, Registry!TypeOK
  <2>6. JoinersFollow'
    BY <1>10, <2>1, <2>2, <2>3
       DEF Registry!Publish, Registry!Ends, FlightControl, FlightsBuild,
           JoinersFollow, LandedTells, AnswersLast, Registry!TypeOK
  <2>7. LandedTells'
    BY <1>10, <2>1, <2>2, <2>3
       DEF Registry!Publish, Registry!Ends, FlightControl, FlightsBuild,
           JoinersFollow, LandedTells, AnswersLast, Registry!TypeOK
  <2>8. AnswersLast'
    BY <1>10, <2>1
       DEF Registry!Publish, Registry!Ends, FlightControl, FlightsBuild,
           JoinersFollow, LandedTells, AnswersLast, Registry!TypeOK
  <2> QED
    BY <2>5, <2>6, <2>7, <2>8 DEF FlightControl
<1>11. ASSUME NEW r \in Requests, Registry!TooLate(r) PROVE FlightControl'
  <2>5. FlightsBuild'
    BY <1>11
       DEF Registry!TooLate, Registry!Ends, FlightControl, FlightsBuild,
           Registry!Resident, Registry!TypeOK
  <2>6. JoinersFollow'
    BY <1>11
       DEF Registry!TooLate, Registry!Ends, FlightControl, FlightsBuild,
           JoinersFollow, Registry!TypeOK
  <2>7. LandedTells'
    BY <1>11
       DEF Registry!TooLate, Registry!Ends, FlightControl, LandedTells,
           Registry!Told, Shared, Registry!TypeOK
  <2>8. AnswersLast'
    BY <1>11
       DEF Registry!TooLate, Registry!Ends, FlightControl, AnswersLast,
           Registry!TypeOK
  <2> QED
    BY <2>5, <2>6, <2>7, <2>8 DEF FlightControl
<1>12. ASSUME NEW r \in Requests, Registry!Wait(r) PROVE FlightControl'
  <2>5. FlightsBuild'
    BY <1>12
       DEF Registry!Wait, Registry!Goes, FlightControl, FlightsBuild,
           Registry!Resident, Registry!TypeOK
  <2>6. JoinersFollow'
    BY <1>12
       DEF Registry!Wait, Registry!Goes, FlightControl, FlightsBuild,
           JoinersFollow, Registry!TypeOK
  <2>7. LandedTells'
    BY <1>12
       DEF Registry!Wait, Registry!Goes, FlightControl, LandedTells,
           Registry!Told, Shared, Registry!TypeOK
  <2>8. AnswersLast'
    BY <1>12
       DEF Registry!Wait, Registry!Goes, FlightControl, AnswersLast,
           Registry!TypeOK
  <2> QED
    BY <2>5, <2>6, <2>7, <2>8 DEF FlightControl
<1>13. ASSUME NEW r \in Requests, Registry!WaitReturns(r) PROVE FlightControl'
  <2>5. FlightsBuild'
    BY <1>13
       DEF Registry!WaitReturns, Registry!Goes, FlightControl, FlightsBuild,
           Registry!Resident, Registry!TypeOK
  <2>6. JoinersFollow'
    BY <1>13
       DEF Registry!WaitReturns, Registry!Goes, FlightControl, FlightsBuild,
           JoinersFollow, Registry!TypeOK
  <2>7. LandedTells'
    BY <1>13
       DEF Registry!WaitReturns, Registry!Goes, FlightControl, LandedTells,
           Registry!Told, Shared, Registry!TypeOK
  <2>8. AnswersLast'
    BY <1>13
       DEF Registry!WaitReturns, Registry!Goes, FlightControl, AnswersLast,
           Registry!TypeOK
  <2> QED
    BY <2>5, <2>6, <2>7, <2>8 DEF FlightControl
<1>14. ASSUME NEW r \in Requests, Registry!Leave(r) PROVE FlightControl'
  <2>1. joined[r] \in Requests
    BY <1>14, LeaveEffect DEF FlightControl
  <2>3. \A f \in Requests : /\ flight'[f].event = flight[f].event
                            /\ flight'[f].result = flight[f].result
                            /\ flight'[f].error = flight[f].error
    BY <1>14, LeaveEffect DEF FlightControl
  <2>5. FlightsBuild'
    BY <1>14, <2>1, <2>3
       DEF Registry!Leave, Registry!Goes, FlightControl, FlightsBuild,
           Registry!Resident, Registry!TypeOK
  <2>6. JoinersFollow'
    BY <1>14, <2>1, <2>3
       DEF Registry!Leave, Registry!Goes, FlightControl, FlightsBuild,
           JoinersFollow, Registry!TypeOK
  <2>7. LandedTells'
    BY <1>14, <2>1, <2>3
       DEF Registry!Leave, Registry!Goes, FlightControl, LandedTells,
           Registry!Told, Shared, Registry!TypeOK
  <2>8. AnswersLast'
    BY <1>14, <2>1, <2>3
       DEF Registry!Leave, Registry!Goes, FlightControl, AnswersLast,
           Registry!TypeOK
  <2> QED
    BY <2>5, <2>6, <2>7, <2>8 DEF FlightControl
<1>15. ASSUME NEW r \in Requests, Registry!Read(r) PROVE FlightControl'
  <2>5. FlightsBuild'
    BY <1>15
       DEF Registry!Read, Registry!Ends, FlightControl, FlightsBuild,
           Registry!Resident, Registry!TypeOK
  <2>6. JoinersFollow'
    BY <1>15
       DEF Registry!Read, Registry!Ends, FlightControl, FlightsBuild,
           JoinersFollow, Registry!TypeOK
  <2>7. LandedTells'
    BY <1>15
       DEF Registry!Read, Registry!Ends, FlightControl, LandedTells,
           Registry!Told, Shared, Registry!TypeOK
  <2>8. AnswersLast'
    BY <1>15
       DEF Registry!Read, Registry!Ends, FlightControl, AnswersLast,
           Registry!TypeOK
  <2> QED
    BY <2>5, <2>6, <2>7, <2>8 DEF FlightControl
<1> QED
  BY <1>1, <1>2, <1>3, <1>4, <1>5, <1>6, <1>7, <1>8, <1>9, <1>10, <1>11,
     <1>12, <1>13, <1>14, <1>15
     DEF Registry!Next, Registry!Lookup, Registry!Build, Registry!Follow,
         Registry!Finished

-----------------------------------------------------------------------------
(* Answers                                                                 *)

\* What stays for a request that is done.
Kept == \A o \in Requests : pc[o] = "done" =>
            /\ pc'[o] = "done" /\ answer'[o] = answer[o]
            /\ joined'[o] = joined[o] /\ want'[o] = want[o]
            /\ deadline'[o] = deadline[o]

LEMMA DoneKept ==
    Registry!TypeOK /\ FlightControl /\ [Registry!Next]_(Registry!vars) => Kept
<1> SUFFICES ASSUME Registry!TypeOK, FlightControl,
                    [Registry!Next]_(Registry!vars)
             PROVE  Kept
  OBVIOUS
<1>1. CASE UNCHANGED Registry!vars
  BY <1>1 DEF Registry!vars, Registry!requestVars, Kept
<1>2. ASSUME NEW r \in Requests, Registry!Expire(r) PROVE Kept
  BY <1>2 DEF Registry!Expire, Kept, Registry!TypeOK
<1>3. ASSUME NEW r \in Requests, Registry!Refuse(r) PROVE Kept
  BY <1>3 DEF Registry!Refuse, Registry!Ends, Kept, Registry!TypeOK
<1>4. ASSUME NEW r \in Requests, Registry!Hit(r) PROVE Kept
  BY <1>4 DEF Registry!Hit, Registry!Ends, Kept, Registry!TypeOK
<1>5. ASSUME NEW r \in Requests, Registry!StartBuild(r) PROVE Kept
  BY <1>5 DEF Registry!StartBuild, Registry!Goes, Kept, Registry!TypeOK
<1>6. ASSUME NEW r \in Requests, Registry!Join(r) PROVE Kept
  BY <1>6 DEF Registry!Join, Registry!Goes, Kept, Registry!TypeOK
<1>7. ASSUME NEW r \in Requests, Registry!EmbedBatch(r) PROVE Kept
  BY <1>7 DEF Registry!EmbedBatch, Kept, Registry!TypeOK
<1>8. ASSUME NEW r \in Requests, Registry!BuildFails(r) PROVE Kept
  BY <1>8 DEF Registry!BuildFails, Registry!Ends, Kept, Registry!TypeOK
<1>9. ASSUME NEW r \in Requests, Registry!BuildStops(r) PROVE Kept
  BY <1>9 DEF Registry!BuildStops, Registry!Ends, Kept, Registry!TypeOK
<1>10. ASSUME NEW r \in Requests, Registry!Publish(r) PROVE Kept
  BY <1>10 DEF Registry!Publish, Registry!Ends, Kept, Registry!TypeOK
<1>11. ASSUME NEW r \in Requests, Registry!TooLate(r) PROVE Kept
  BY <1>11 DEF Registry!TooLate, Registry!Ends, Kept, Registry!TypeOK
<1>12. ASSUME NEW r \in Requests, Registry!Wait(r) PROVE Kept
  BY <1>12 DEF Registry!Wait, Registry!Goes, Kept, Registry!TypeOK
<1>13. ASSUME NEW r \in Requests, Registry!WaitReturns(r) PROVE Kept
  BY <1>13 DEF Registry!WaitReturns, Registry!Goes, Kept, Registry!TypeOK
<1>14. ASSUME NEW r \in Requests, Registry!Leave(r) PROVE Kept
  BY <1>14 DEF Registry!Leave, Registry!Goes, Kept, Registry!TypeOK
<1>15. ASSUME NEW r \in Requests, Registry!Read(r) PROVE Kept
  BY <1>15 DEF Registry!Read, Registry!Ends, Kept, Registry!TypeOK
<1> QED
  BY <1>1, <1>2, <1>3, <1>4, <1>5, <1>6, <1>7, <1>8, <1>9, <1>10, <1>11,
     <1>12, <1>13, <1>14, <1>15
     DEF Registry!Next, Registry!Lookup, Registry!Build, Registry!Follow,
         Registry!Finished

\* A request ends with an outcome that fits the flight it joined, if any.
Fits(o) == \/ joined[o] = NoValue
           \/ /\ pc[joined[o]] = "done"
              /\ answer'[o] = Shared(answer[joined[o]])
           \/ answer'[o] = Registry!Raised(Registry!TimedOut)
                  /\ deadline[o] = "over"

LEMMA EndFits ==
    ASSUME Registry!TypeOK, FlightControl, [Registry!Next]_(Registry!vars),
           NEW o \in Requests,
           pc[o] # "done", pc'[o] = "done"
    PROVE  Fits(o) /\ joined'[o] = joined[o] /\ deadline'[o] = deadline[o]
<1> DEFINE Goal == Fits(o) /\ joined'[o] = joined[o]
               /\ deadline'[o] = deadline[o]
<1>1. CASE UNCHANGED Registry!vars
  BY <1>1 DEF Registry!vars, Registry!requestVars
<1>2. ASSUME NEW r \in Requests, Registry!Expire(r) PROVE Goal
  BY <1>2 DEF Registry!Expire
<1>3. ASSUME NEW r \in Requests, Registry!Refuse(r) PROVE Goal
  BY <1>3
     DEF Registry!Refuse, Registry!Ends, Fits, FlightControl, FlightsBuild,
         JoinersFollow, Registry!TypeOK
<1>4. ASSUME NEW r \in Requests, Registry!Hit(r) PROVE Goal
  BY <1>4
     DEF Registry!Hit, Registry!Ends, Fits, FlightControl, FlightsBuild,
         JoinersFollow, Registry!TypeOK
<1>5. ASSUME NEW r \in Requests, Registry!StartBuild(r) PROVE Goal
  BY <1>5 DEF Registry!StartBuild, Registry!Goes, Registry!TypeOK
<1>6. ASSUME NEW r \in Requests, Registry!Join(r) PROVE Goal
  BY <1>6 DEF Registry!Join, Registry!Goes, Registry!TypeOK
<1>7. ASSUME NEW r \in Requests, Registry!EmbedBatch(r) PROVE Goal
  BY <1>7 DEF Registry!EmbedBatch
<1>8. ASSUME NEW r \in Requests, Registry!BuildFails(r) PROVE Goal
  BY <1>8
     DEF Registry!BuildFails, Registry!Ends, Fits, FlightControl,
         FlightsBuild, JoinersFollow, Registry!TypeOK
<1>9. ASSUME NEW r \in Requests, Registry!BuildStops(r) PROVE Goal
  BY <1>9
     DEF Registry!BuildStops, Registry!Ends, Fits, FlightControl,
         FlightsBuild, JoinersFollow, Registry!TypeOK
<1>10. ASSUME NEW r \in Requests, Registry!Publish(r) PROVE Goal
  BY <1>10
     DEF Registry!Publish, Registry!Ends, Fits, FlightControl, FlightsBuild,
         JoinersFollow, Registry!TypeOK
<1>11. ASSUME NEW r \in Requests, Registry!TooLate(r) PROVE Goal
  BY <1>11
     DEF Registry!TooLate, Registry!Ends, Fits, FlightControl, FlightsBuild,
         JoinersFollow, Registry!TypeOK
<1>12. ASSUME NEW r \in Requests, Registry!Wait(r) PROVE Goal
  BY <1>12 DEF Registry!Wait, Registry!Goes, Registry!TypeOK
<1>13. ASSUME NEW r \in Requests, Registry!WaitReturns(r) PROVE Goal
  BY <1>13 DEF Registry!WaitReturns, Registry!Goes, Registry!TypeOK
<1>14. ASSUME NEW r \in Requests, Registry!Leave(r) PROVE Goal
  BY <1>14 DEF Registry!Leave, Registry!Goes, Registry!TypeOK
<1>15. ASSUME NEW r \in Requests, Registry!Read(r) PROVE Goal
  <2>1. o = r
    BY <1>15 DEF Registry!Read, Registry!Ends, Registry!TypeOK
  <2>2. joined[r] \in Requests
    BY <1>15 DEF Registry!Read, FlightControl, JoinersFollow, Registry!TypeOK
  <2>3. CASE completed[r]
    <3>1. answer'[r] = Registry!Told(flight[joined[r]])
      BY <1>15, <2>3 DEF Registry!Read, Registry!Ends, Registry!TypeOK
    <3>2. pc[joined[r]] = "done"
              /\ Registry!Told(flight[joined[r]]) = Shared(answer[joined[r]])
      BY <2>2, <2>3 DEF FlightControl, JoinersFollow, LandedTells
    <3> QED
      BY <1>15, <2>1, <3>1, <3>2 DEF Fits, Registry!Read
  <2>4. CASE ~completed[r]
    BY <1>15, <2>1, <2>4
       DEF Fits, Registry!Read, Registry!Ends, FlightControl, JoinersFollow,
           Registry!TypeOK
  <2> QED
    BY <2>3, <2>4
<1> QED
  BY <1>1, <1>2, <1>3, <1>4, <1>5, <1>6, <1>7, <1>8, <1>9, <1>10, <1>11,
     <1>12, <1>13, <1>14, <1>15
     DEF Registry!Next, Registry!Lookup, Registry!Build, Registry!Follow,
         Registry!Finished

LEMMA SameAnswerNext ==
    Registry!TypeOK /\ FlightControl /\ Registry!SameAnswer
        /\ [Registry!Next]_(Registry!vars) => Registry!SameAnswer'
<1> SUFFICES ASSUME Registry!TypeOK, FlightControl, Registry!SameAnswer,
                    [Registry!Next]_(Registry!vars),
                    NEW r \in Requests, pc'[r] = "done", joined'[r] # NoValue
             PROVE  \/ /\ pc'[joined'[r]] = "done"
                       /\ answer'[r] = Shared(answer'[joined'[r]])
                    \/ answer'[r] = Registry!Raised(Registry!TimedOut)
                           /\ deadline'[r] = "over"
  BY DEF Registry!SameAnswer, Shared
<1>1. Kept
  BY DoneKept
<1>2. CASE pc[r] = "done"
  <2>1. joined[r] \in Requests
    BY <1>1, <1>2 DEF Kept, Registry!TypeOK
  <2> QED
    BY <1>1, <1>2, <2>1 DEF Kept, Registry!SameAnswer, Shared
<1>3. CASE pc[r] # "done"
  <2>1. Fits(r) /\ joined'[r] = joined[r] /\ deadline'[r] = deadline[r]
    BY <1>3, EndFits
  <2>2. joined[r] \in Requests
    BY <2>1 DEF Registry!TypeOK
  <2> QED
    BY <1>1, <2>1, <2>2 DEF Fits, Kept
<1> QED
  BY <1>2, <1>3

-----------------------------------------------------------------------------
(* Whole indexes                                                           *)

\* An index with all documents that its builder returned.
Whole(index) == /\ index \in Registry!Index /\ index.size = Batches
                /\ answer[index.by] = Registry!Returned(index)

LEMMA WholeKept ==
    ASSUME Registry!IndexAssumption, Registry!TypeOK, FlightControl, Kept,
           NEW index, Whole(index)
    PROVE  Whole(index)'
<1>1. index.by \in Requests /\ index # NoValue
  BY DEF Registry!IndexAssumption, Whole, Registry!Index
<1>2. answer[index.by] # Registry!NoAnswer
  BY <1>1 DEF Whole, Registry!NoAnswer, Registry!Returned
<1>3. pc[index.by] = "done"
  BY <1>1, <1>2 DEF FlightControl, AnswersLast
<1> QED
  BY <1>1, <1>3 DEF Whole, Kept

\* Every index a request is given is whole and of its version.
Given(r) == answer[r].index # NoValue =>
                Whole(answer[r].index) /\ answer[r].index.version = want[r]

LEMMA OnlyWholeIs ==
    ASSUME Registry!TypeOK
    PROVE  Registry!OnlyWholeIndexes
               <=> /\ \A i \in 1..Len(indexes) : Whole(indexes[i])
                   /\ \A r \in Requests : Given(r)
<1>1. \A i \in 1..Len(indexes) : indexes[i] \in Registry!Index
  BY DEF Registry!TypeOK
<1>2. \A r \in Requests : answer[r].index # NoValue
          => answer[r].index \in Registry!Index
  BY DEF Registry!TypeOK, Registry!Answers
<1> QED
  BY <1>1, <1>2 DEF Registry!OnlyWholeIndexes, Whole, Given

\* The step of a request that ends gives it a whole index or none.
LEMMA GivenNext ==
    ASSUME Registry!IndexAssumption, Registry!TypeOK, FlightControl,
           Registry!OnlyWholeIndexes, [Registry!Next]_(Registry!vars), Kept,
           Registry!TypeOK',
           NEW o \in Requests
    PROVE  Given(o)'
<1> DEFINE Goal == Given(o)'
<1>1. ASSUME answer'[o] = answer[o], want'[o] = want[o] PROVE Goal
  BY <1>1, OnlyWholeIs, WholeKept DEF Given
<1>2. ASSUME answer'[o].index = NoValue PROVE Goal
  BY <1>2 DEF Given
<1>3. CASE UNCHANGED Registry!vars
  BY <1>1, <1>3 DEF Registry!vars, Registry!requestVars
<1>4. ASSUME NEW r \in Requests,
             Registry!Expire(r) \/ Registry!StartBuild(r) \/ Registry!Join(r)
                 \/ Registry!EmbedBatch(r)
                 \/ Registry!Wait(r) \/ Registry!WaitReturns(r)
                        \/ Registry!Leave(r)
      PROVE  Goal
  BY <1>1, <1>4
     DEF Registry!Expire, Registry!StartBuild, Registry!Join,
         Registry!EmbedBatch, Registry!Wait, Registry!WaitReturns,
         Registry!Leave, Registry!Goes
<1>5. ASSUME NEW r \in Requests,
             Registry!Refuse(r) \/ Registry!BuildFails(r)
                 \/ Registry!BuildStops(r) \/ Registry!TooLate(r)
      PROVE  Goal
  BY <1>1, <1>2, <1>5
     DEF Registry!Refuse, Registry!BuildFails, Registry!BuildStops,
         Registry!TooLate, Registry!Ends, Registry!Raised, Registry!TypeOK
<1>6. ASSUME NEW r \in Requests, Registry!Hit(r) PROVE Goal
  <2>1. PICK i \in 1..Len(indexes) :
            /\ indexes[i].version = want[r]
            /\ Registry!Ends(r, Registry!Returned(indexes[i]))
    BY <1>6 DEF Registry!Hit
  <2>2. want' = want /\ (o # r => answer'[o] = answer[o])
    BY <1>6, <2>1 DEF Registry!Hit, Registry!Ends, Registry!TypeOK
  <2>3. CASE o = r
    <3>1. answer'[o].index = indexes[i]
      BY <2>1, <2>3 DEF Registry!Ends, Registry!Returned, Registry!TypeOK
    <3>2. PICK x : x = indexes[i]
      OBVIOUS
    <3>3. Whole(x)'
      BY <3>2, OnlyWholeIs, WholeKept
    <3> QED
      BY <2>1, <2>2, <2>3, <3>1, <3>2, <3>3 DEF Given, Whole
  <2> QED
    BY <1>1, <2>2, <2>3
<1>7. ASSUME NEW r \in Requests, Registry!Publish(r) PROVE Goal
  <2>1. /\ want' = want /\ (o # r => answer'[o] = answer[o])
        /\ answer'[r] = Registry!Returned(Registry!Built(r))
        /\ embedded[r] = Batches
    BY <1>7 DEF Registry!Publish, Registry!Ends, Registry!TypeOK
  <2>2. CASE o = r
    <3>1. /\ answer'[o].index = Registry!Built(r)
          /\ Registry!Built(r) \in Registry!Index /\ Registry!Built(r).by = r
          /\ Registry!Built(r).size = Batches
          /\ Registry!Built(r).version = want[r]
      BY <2>1, <2>2, BuiltType DEF Registry!Returned, Registry!Built
    <3> QED
      BY <2>1, <2>2, <3>1 DEF Given, Whole
  <2> QED
    BY <1>1, <2>1, <2>2
<1>8. ASSUME NEW r \in Requests, Registry!Read(r) PROVE Goal
  <2>1. want' = want /\ (o # r => answer'[o] = answer[o])
    BY <1>8 DEF Registry!Read, Registry!Ends, Registry!TypeOK
  <2>2. CASE o = r
    <3>1. pc[r] # "done" /\ pc'[r] = "done" /\ joined[r] \in Requests
      BY <1>8
         DEF Registry!Read, Registry!Ends, FlightControl, JoinersFollow,
             Registry!TypeOK
    <3>2. Fits(r) /\ want[joined[r]] = want[r]
      BY <3>1, EndFits
         DEF Registry!IndexAssumption, FlightControl, JoinersFollow
    <3>3. CASE answer'[r].index = NoValue
      BY <1>2, <2>2, <3>3
    <3>4. CASE answer'[r].index # NoValue
      <4>1. answer'[r] = Shared(answer[joined[r]])
        BY <3>1, <3>2, <3>4
           DEF Registry!IndexAssumption, Fits, Registry!Raised
      <4>2. answer'[r] = answer[joined[r]]
        BY <3>4, <4>1 DEF Shared, Registry!Raised
      <4>3. Given(joined[r])
        BY <3>1, OnlyWholeIs
      <4> QED
        BY <2>1, <2>2, <3>2, <3>4, <4>2, <4>3, WholeKept DEF Given
    <3> QED
      BY <3>3, <3>4
  <2> QED
    BY <1>1, <2>1, <2>2
<1> QED
  BY <1>3, <1>4, <1>5, <1>6, <1>7, <1>8
     DEF Registry!Next, Registry!Lookup, Registry!Build, Registry!Follow,
         Registry!Finished

LEMMA OnlyWholeNext ==
    ASSUME Registry!IndexAssumption, Registry!TypeOK, FlightControl,
           Registry!OnlyWholeIndexes, [Registry!Next]_(Registry!vars), Kept,
           Registry!TypeOK'
    PROVE  Registry!OnlyWholeIndexes'
<1>1. \A o \in Requests : Given(o)'
  BY GivenNext
<1>2. ASSUME \A j \in 1..Len(indexes') :
                 \E k \in 1..Len(indexes) : indexes'[j] = indexes[k]
      PROVE  \A j \in 1..Len(indexes') : Whole(indexes[j])'
  <2> SUFFICES ASSUME NEW j \in 1..Len(indexes') PROVE Whole(indexes[j])'
    OBVIOUS
  <2>1. PICK x : x = indexes'[j]
    OBVIOUS
  <2>2. Whole(x)
    BY <1>2, <2>1, OnlyWholeIs
  <2>3. Whole(x)'
    BY <2>2, WholeKept
  <2> QED
    BY <2>1, <2>3 DEF Whole
<1>3. ASSUME \A j \in 1..Len(indexes') : Whole(indexes[j])'
      PROVE  Registry!OnlyWholeIndexes'
  BY <1>1, <1>3 DEF Registry!OnlyWholeIndexes, Whole, Given
<1>4. CASE indexes' = indexes
  BY <1>2, <1>3, <1>4
<1>5. ASSUME NEW r \in Requests, Registry!Hit(r)
      PROVE  Registry!OnlyWholeIndexes'
  <2>1. PICK i \in 1..Len(indexes) : indexes' = Registry!ToEnd(indexes, i)
    BY <1>5 DEF Registry!Hit
  <2>2. indexes \in Seq(Registry!Index)
    BY DEF Registry!TypeOK
  <2>3. Len(indexes') = Len(indexes)
    BY <2>1, <2>2, ToEndSeq
  <2>4. \A j \in 1..Len(indexes') : \E k \in 1..Len(indexes) :
            indexes'[j] = indexes[k]
    <3>1. \A j \in 1..Len(indexes) :
              \E k \in 1..Len(indexes) :
                  Registry!ToEnd(indexes, i)[j] = indexes[k]
      BY <2>2, ToEndRange
    <3> QED
      BY <2>1, <2>3, <3>1
  <2> QED
    BY <1>2, <1>3, <2>4
<1>6. ASSUME NEW r \in Requests, Registry!Publish(r)
      PROVE  Registry!OnlyWholeIndexes'
  <2>1. PICK built : built = Registry!Built(r)
    OBVIOUS
  <2>2. /\ built \in Registry!Index /\ built.by = r /\ built.size = embedded[r]
    BY <2>1, BuiltType DEF Registry!Built
  <2>3. answer'[r] = Registry!Returned(built) /\ embedded[r] = Batches
    BY <1>6, <2>1 DEF Registry!Publish, Registry!Ends, Registry!TypeOK
  <2>4. Whole(built)'
    BY <2>2, <2>3 DEF Whole
  <2>5. ASSUME NEW j \in 1..Len(indexes') PROVE Whole(indexes[j])'
    <3>1. PICK x : x = indexes'[j]
      OBVIOUS
    <3>2. x = built \/ \E k \in 1..Len(indexes) : x = indexes[k]
      BY <1>6, <2>1, <3>1, EntriesPublish
    <3>3. Whole(x)'
      BY <2>4, <3>2, OnlyWholeIs, WholeKept
    <3> QED
      BY <3>1, <3>3 DEF Whole
  <2> QED
    BY <1>3, <2>5
<1>7. \/ indexes' = indexes
      \/ \E r \in Requests : Registry!Hit(r) \/ Registry!Publish(r)
  BY DEF Registry!Next, Registry!Lookup, Registry!Build, Registry!Follow,
         Registry!Finished, Registry!vars, Registry!requestVars,
         Registry!Expire, Registry!Refuse, Registry!StartBuild, Registry!Join,
         Registry!EmbedBatch, Registry!BuildFails, Registry!BuildStops,
         Registry!TooLate, Registry!Wait, Registry!WaitReturns,
         Registry!Leave, Registry!Read
<1> QED
  BY <1>4, <1>5, <1>6, <1>7

-----------------------------------------------------------------------------
(* The order of eviction                                                   *)

LEMMA RecentHit ==
    ASSUME Registry!IndexAssumption, Registry!TypeOK,
           Registry!LeastRecentlyUsed, NEW r \in Requests, Registry!Hit(r)
    PROVE  \E i \in 1..Len(indexes), k \in 1..Len(recent) :
               /\ k = Len(recent) - Len(indexes) + i
               /\ indexes' = Registry!ToEnd(indexes, i)
               /\ recent' = Registry!ToEnd(recent, k)
<1>1. PICK i \in 1..Len(indexes) :
          indexes[i].version = want[r] /\ indexes' = Registry!ToEnd(indexes, i)
  BY DEF Registry!Hit
<1>2. Len(indexes) \in Nat /\ Len(recent) \in Nat /\ Len(indexes) <= Len(recent)
  BY DEF Registry!IndexAssumption, Registry!TypeOK, Registry!LeastRecentlyUsed
<1> DEFINE k == Len(recent) - Len(indexes) + i
<1>3. k \in 1..Len(recent)
  BY <1>2
<1>4. recent[k] = want[r]
  BY <1>1 DEF Registry!LeastRecentlyUsed
<1>5. \A j \in 1..Len(recent) : recent[j] = want[r] => j = k
  BY <1>3, <1>4 DEF Registry!LeastRecentlyUsed
<1>6. Registry!Use(want[r])
  BY DEF Registry!Hit
<1> HIDE DEF k
<1>7. recent' = Registry!ToEnd(recent, k)
  BY <1>3, <1>4, <1>5, <1>6 DEF Registry!Use
<1> QED
  BY <1>1, <1>3, <1>7 DEF k

\* Moving one entry to the end of a list without repetitions leaves it so.
LEMMA ToEndDistinct ==
    ASSUME NEW S, NEW s \in Seq(S), NEW k \in 1..Len(s),
           \A i, j \in 1..Len(s) : s[i] = s[j] => i = j
    PROVE  \A i, j \in 1..Len(s) :
               Registry!ToEnd(s, k)[i] = Registry!ToEnd(s, k)[j] => i = j
<1> DEFINE from(j) == IF j < k THEN j ELSE IF j < Len(s) THEN j + 1 ELSE k
<1>1. Len(s) \in Nat
  OBVIOUS
<1>2. \A j \in 1..Len(s) : from(j) \in 1..Len(s)
  BY <1>1
<1>3. \A j \in 1..Len(s) : Registry!ToEnd(s, k)[j] = s[from(j)]
  BY ToEndSeq
<1>4. \A i, j \in 1..Len(s) : from(i) = from(j) => i = j
  BY <1>1
<1> HIDE DEF from
<1> QED
  BY <1>2, <1>3, <1>4

LEMMA OrderHit ==
    ASSUME Registry!IndexAssumption, Registry!TypeOK,
           Registry!LeastRecentlyUsed, NEW r \in Requests, Registry!Hit(r)
    PROVE  Registry!LeastRecentlyUsed'
<1>1. PICK i \in 1..Len(indexes), k \in 1..Len(recent) :
          /\ k = Len(recent) - Len(indexes) + i
          /\ indexes' = Registry!ToEnd(indexes, i)
          /\ recent' = Registry!ToEnd(recent, k)
  BY RecentHit
<1>2. indexes \in Seq(Registry!Index) /\ recent \in Seq(Versions)
  BY DEF Registry!TypeOK
<1>3. /\ Len(indexes) \in Nat /\ Len(recent) \in Nat
      /\ Len(indexes') = Len(indexes) /\ Len(recent') = Len(recent)
      /\ Len(indexes) <= Len(recent)
  <2>1. Len(indexes') = Len(indexes) /\ Len(recent') = Len(recent)
    BY <1>1, <1>2, ToEndSeq
  <2>2. Len(indexes) \in Nat /\ Len(recent) \in Nat
    BY <1>2
  <2> QED
    BY <2>1, <2>2 DEF Registry!IndexAssumption, Registry!LeastRecentlyUsed
<1>4. ASSUME NEW j \in 1..Len(indexes)
      PROVE  indexes'[j].version = recent'[Len(recent) - Len(indexes) + j]
  <2> DEFINE place == Len(recent) - Len(indexes) + j
  <2>1. place \in 1..Len(recent)
    BY <1>3
  <2>2. /\ indexes'[j] = IF j < i THEN indexes[j]
                         ELSE IF j < Len(indexes) THEN indexes[j + 1]
                             ELSE indexes[i]
        /\ recent'[place] = IF place < k THEN recent[place]
                            ELSE IF place < Len(recent) THEN recent[place + 1]
                                ELSE recent[k]
    <3>1. \A l \in 1..Len(indexes) : Registry!ToEnd(indexes, i)[l] =
              IF l < i THEN indexes[l]
              ELSE IF l < Len(indexes) THEN indexes[l + 1] ELSE indexes[i]
      BY <1>2, ToEndSeq
    <3>2. \A l \in 1..Len(recent) : Registry!ToEnd(recent, k)[l] =
              IF l < k THEN recent[l]
              ELSE IF l < Len(recent) THEN recent[l + 1] ELSE recent[k]
      BY <1>2, ToEndSeq
    <3> HIDE DEF place
    <3> QED
      BY <1>1, <2>1, <3>1, <3>2
  <2>3. /\ (j < i) = (place < k) /\ (j < Len(indexes)) = (place < Len(recent))
        /\ place + 1 = Len(recent) - Len(indexes) + (j + 1)
    BY <1>1, <1>3
  <2>4. j < Len(indexes) => j + 1 \in 1..Len(indexes)
    BY <1>3
  <2>5. \A m \in 1..Len(indexes) :
            indexes[m].version = recent[Len(recent) - Len(indexes) + m]
    BY DEF Registry!LeastRecentlyUsed
  <2>6. /\ indexes[j].version = recent[place] /\ indexes[i].version = recent[k]
        /\ j < Len(indexes) => indexes[j + 1].version = recent[place + 1]
    BY <1>1, <2>3, <2>4, <2>5
  <2> HIDE DEF place
  <2> QED
    BY <2>2, <2>3, <2>6 DEF place
<1>5. \A m, n \in 1..Len(recent) : recent'[m] = recent'[n] => m = n
  BY <1>1, <1>2, ToEndDistinct DEF Registry!LeastRecentlyUsed
<1> QED
  BY <1>3, <1>4, <1>5 DEF Registry!LeastRecentlyUsed

LEMMA EvictFull ==
    ASSUME Registry!IndexAssumption, NEW S, NEW s \in Seq(S), NEW x \in S,
           Len(s) = MaxEntries
    PROVE  /\ Len(Registry!Evict(Append(s, x))) = MaxEntries
           /\ \A j \in 1..MaxEntries : Registry!Evict(Append(s, x))[j] =
                  IF j = MaxEntries THEN x ELSE s[j + 1]
<1> DEFINE longer == Append(s, x)
<1>1. /\ longer \in Seq(S) /\ Len(longer) = MaxEntries + 1
      /\ \A j \in 1..MaxEntries : longer[j] = s[j]
      /\ longer[MaxEntries + 1] = x
  OBVIOUS
<1>2. MaxEntries \in Nat \ {0} /\ MaxEntries + 1 > MaxEntries
  BY DEF Registry!IndexAssumption
<1> HIDE DEF longer
<1>3. Len(Registry!Evict(longer)) = MaxEntries
  BY <1>1, <1>2, EvictSeq
<1>4. \A j \in 1..MaxEntries :
          Registry!Evict(longer)[j] = longer[MaxEntries + 1 - MaxEntries + j]
  BY <1>1, <1>3, EvictSeq
<1>5. \A j \in 1..MaxEntries :
          /\ MaxEntries + 1 - MaxEntries + j = j + 1
          /\ IF j = MaxEntries THEN j + 1 = MaxEntries + 1
             ELSE j + 1 \in 1..MaxEntries
  BY <1>2
<1>6. \A j \in 1..MaxEntries : Registry!Evict(longer)[j] = longer[j + 1]
  BY <1>4, <1>5
<1> QED
  BY <1>1, <1>3, <1>5, <1>6 DEF longer

\* The entry added is of a version that is not resident.
LEMMA NewEntry ==
    ASSUME Registry!TypeOK, FlightsBuild, Registry!LeastRecentlyUsed,
           NEW r \in Requests, Registry!Publish(r)
    PROVE  /\ Registry!Built(r) \in Registry!Index
           /\ Registry!Built(r).version = want[r]
           /\ want[r] \in Versions /\ Registry!Use(want[r])
           /\ \A i \in 1..Len(indexes) :
                  recent[Len(recent) - Len(indexes) + i] # want[r]
<1>1. Registry!Built(r) \in Registry!Index
          /\ Registry!Built(r).version = want[r] /\ want[r] \in Versions
  BY BuiltType DEF Registry!TypeOK, Registry!Built
<1>2. Registry!Use(want[r]) /\ want[r] \notin Registry!Resident
  BY DEF Registry!Publish, FlightsBuild
<1>3. \A i \in 1..Len(indexes) : indexes[i].version # want[r]
  BY <1>2 DEF Registry!Resident
<1>4. \A i \in 1..Len(indexes) :
          indexes[i].version = recent[Len(recent) - Len(indexes) + i]
  BY DEF Registry!LeastRecentlyUsed
<1> QED
  BY <1>1, <1>2, <1>3, <1>4

\* There is room: nothing was ever evicted, so the version is new.
LEMMA OrderRoom ==
    ASSUME Registry!IndexAssumption, Registry!TypeOK,
           Registry!LeastRecentlyUsed, FlightsBuild,
           NEW r \in Requests, Registry!Publish(r),
           Len(indexes) # MaxEntries
    PROVE  Registry!LeastRecentlyUsed'
<1>1. indexes \in Seq(Registry!Index) /\ recent \in Seq(Versions)
  BY DEF Registry!TypeOK
<1>2. PICK n \in Nat : n = Len(indexes)
  BY <1>1
<1>3. MaxEntries \in Nat /\ n < MaxEntries /\ Len(recent) = n
  BY <1>1, <1>2 DEF Registry!IndexAssumption, Registry!LeastRecentlyUsed
<1>4. \A i \in 1..n : n - n + i = i
  OBVIOUS
<1>5. /\ \A i \in 1..n : indexes[i].version = recent[i]
      /\ \A i, j \in 1..n : recent[i] = recent[j] => i = j
  BY <1>2, <1>3, <1>4 DEF Registry!LeastRecentlyUsed
<1>6. \A i \in 1..n : recent[i] # want[r]
  BY <1>2, <1>3, <1>4, NewEntry
<1>7. recent' = Append(recent, want[r])
  BY <1>3, <1>6, NewEntry DEF Registry!Use
<1>8. indexes' = Append(indexes, Registry!Built(r))
  BY <1>1, <1>2, <1>3, NewEntry DEF Registry!Publish, Registry!Evict
<1>9. /\ Len(indexes') = n + 1 /\ Len(recent') = n + 1
      /\ \A i \in 1..n : indexes'[i] = indexes[i] /\ recent'[i] = recent[i]
      /\ indexes'[n + 1] = Registry!Built(r) /\ recent'[n + 1] = want[r]
  BY <1>1, <1>2, <1>3, <1>7, <1>8, NewEntry
<1>10. \A i \in 1..n + 1 :
           (n + 1) - (n + 1) + i = i /\ (i \in 1..n \/ i = n + 1)
  OBVIOUS
<1>11. \A i \in 1..n + 1 : indexes'[i].version = recent'[i]
  BY <1>5, <1>9, <1>10, NewEntry
<1>12. ASSUME NEW i \in 1..n + 1, NEW j \in 1..n + 1, recent'[i] = recent'[j]
       PROVE  i = j
  <2>1. (i \in 1..n \/ i = n + 1) /\ (j \in 1..n \/ j = n + 1)
    BY <1>10
  <2>2. CASE i \in 1..n /\ j \in 1..n
    BY <1>5, <1>9, <1>12, <2>2
  <2>3. CASE i \in 1..n /\ j = n + 1
    BY <1>6, <1>9, <1>12, <2>3
  <2>4. CASE i = n + 1 /\ j \in 1..n
    BY <1>6, <1>9, <1>12, <2>4
  <2> QED
    BY <2>1, <2>2, <2>3, <2>4
<1>13. n + 1 = IF n + 1 < MaxEntries THEN n + 1 ELSE MaxEntries
  BY <1>3
<1>14. \A i \in 1..Len(indexes') :
          indexes'[i].version = recent'[Len(recent') - Len(indexes') + i]
  BY <1>9, <1>10, <1>11
<1>15. Len(indexes') = IF Len(recent') < MaxEntries THEN Len(recent')
           ELSE MaxEntries
  BY <1>9, <1>13
<1>16. \A i, j \in 1..Len(recent') : recent'[i] = recent'[j] => i = j
  BY <1>9, <1>12
<1> QED
  BY <1>14, <1>15, <1>16 DEF Registry!LeastRecentlyUsed

\* There is none: the first entry goes, whether the version is new or returns.
LEMMA OrderFull ==
    ASSUME Registry!IndexAssumption, Registry!TypeOK,
           Registry!LeastRecentlyUsed, FlightsBuild,
           NEW r \in Requests, Registry!Publish(r),
           Len(indexes) = MaxEntries
    PROVE  Registry!LeastRecentlyUsed'
<1>1. indexes \in Seq(Registry!Index) /\ recent \in Seq(Versions)
  BY DEF Registry!TypeOK
<1>2. PICK n \in Nat, m \in Nat : n = MaxEntries /\ m = Len(recent)
  BY <1>1 DEF Registry!IndexAssumption
<1>3. n >= 1 /\ n <= m
  BY <1>1, <1>2 DEF Registry!IndexAssumption, Registry!LeastRecentlyUsed
<1>4. PICK gone \in Nat : gone = m - n /\ m = gone + n
  BY <1>3
<1>5. /\ \A i \in 1..n : indexes[i].version = recent[gone + i]
      /\ \A i, j \in 1..m : recent[i] = recent[j] => i = j
  BY <1>2, <1>4 DEF Registry!LeastRecentlyUsed
<1>6. \A i \in 1..n : recent[gone + i] # want[r]
  BY <1>2, <1>4, NewEntry
<1>7. /\ Len(indexes') = n
      /\ \A j \in 1..n :
             indexes'[j] = IF j = n THEN Registry!Built(r) ELSE indexes[j + 1]
  <2>1. indexes' = Registry!Evict(Append(indexes, Registry!Built(r)))
    BY DEF Registry!Publish
  <2>2. Registry!Built(r) \in Registry!Index /\ Len(indexes) = MaxEntries
    BY NewEntry
  <2> QED
    BY <1>1, <1>2, <2>1, <2>2, EvictFull
<1>8. ASSUME NEW j \in 1..n
      PROVE  indexes'[j].version = IF j = n THEN want[r]
                 ELSE recent[gone + j + 1]
  <2>1. CASE j = n
    BY <1>7, <2>1, NewEntry
  <2>2. CASE j # n
    <3>1. j + 1 \in 1..n /\ gone + (j + 1) = gone + j + 1
      BY <2>2
    <3> QED
      BY <1>5, <1>7, <2>2, <3>1
  <2> QED
    BY <2>1, <2>2
<1>9. CASE \E k \in 1..m : recent[k] = want[r]
  <2>1. PICK k \in 1..m :
                 recent[k] = want[r] /\ recent' = Registry!ToEnd(recent, k)
    BY <1>2, <1>9, NewEntry DEF Registry!Use
  <2>2. k <= gone
    <3>1. SUFFICES ASSUME k > gone PROVE FALSE
      OBVIOUS
    <3>2. k - gone \in 1..n /\ gone + (k - gone) = k
      BY <1>4, <3>1
    <3> QED
      BY <1>6, <2>1, <3>2
  <2>3. /\ Len(recent') = m
        /\ \A j \in 1..m : recent'[j] = IF j < k THEN recent[j]
                               ELSE IF j < m THEN recent[j + 1] ELSE recent[k]
    BY <1>1, <1>2, <2>1, ToEndSeq
  <2>4. \A i, j \in 1..m : recent'[i] = recent'[j] => i = j
    <3>1. recent \in Seq(Versions) /\ k \in 1..Len(recent)
      BY <1>1, <1>2, <2>1
    <3>2. \A i, j \in 1..Len(recent) : recent[i] = recent[j] => i = j
      BY <1>2, <1>5
    <3>3. \A i, j \in 1..Len(recent) : Registry!ToEnd(recent, k)[i]
              = Registry!ToEnd(recent, k)[j] => i = j
      BY <3>1, <3>2, ToEndDistinct
    <3> QED
      BY <1>2, <2>1, <3>3
  <2>5. \A j \in 1..n : /\ gone + j \in 1..m /\ ~(gone + j < k)
                        /\ (gone + j < m) = (j # n)
    BY <1>4, <2>2
  <2>6. \A j \in 1..n : indexes'[j].version = recent'[gone + j]
    BY <1>8, <2>1, <2>3, <2>5
  <2>7. m - n = gone /\ n = IF m < n THEN m ELSE n
    BY <1>3, <1>4
  <2> QED
    BY <1>2, <1>7, <2>3, <2>4, <2>6, <2>7 DEF Registry!LeastRecentlyUsed
<1>10. CASE ~\E k \in 1..m : recent[k] = want[r]
  <2>1. recent' = Append(recent, want[r])
    BY <1>2, <1>10, NewEntry DEF Registry!Use
  <2>2. /\ Len(recent') = m + 1 /\ recent'[m + 1] = want[r]
        /\ \A j \in 1..m : recent'[j] = recent[j]
    BY <1>1, <1>2, <2>1, NewEntry
  <2>3. \A i \in 1..m + 1 : i \in 1..m \/ i = m + 1
    OBVIOUS
  <2>4. \A i, j \in 1..m + 1 : recent'[i] = recent'[j] => i = j
    BY <1>5, <1>10, <2>2, <2>3
  <2>5. \A j \in 1..n : IF j = n THEN gone + j + 1 = m + 1
                        ELSE gone + j + 1 \in 1..m
    BY <1>4
  <2>6. \A j \in 1..n : indexes'[j].version = recent'[gone + j + 1]
    BY <1>8, <2>2, <2>5
  <2>7. /\ n = IF m + 1 < n THEN m + 1 ELSE n
        /\ \A j \in 1..n : m + 1 - n + j = gone + j + 1
    BY <1>3, <1>4
  <2>8. \A j \in 1..Len(indexes') :
            indexes'[j].version = recent'[Len(recent') - Len(indexes') + j]
    <3> SUFFICES ASSUME NEW j \in 1..n
                 PROVE  indexes'[j].version = recent'[m + 1 - n + j]
      BY <1>7, <2>2
    <3>1. m + 1 - n + j = gone + j + 1
      BY <2>7
    <3> QED
      BY <2>6, <3>1
  <2>9. Len(indexes') = IF Len(recent') < MaxEntries THEN Len(recent')
            ELSE MaxEntries
    BY <1>2, <1>7, <2>2, <2>7
  <2>10. \A i, j \in 1..Len(recent') : recent'[i] = recent'[j] => i = j
    BY <2>2, <2>4
  <2> QED
    BY <2>8, <2>9, <2>10 DEF Registry!LeastRecentlyUsed
<1> QED
  BY <1>9, <1>10

LEMMA OrderNext ==
    ASSUME Registry!IndexAssumption, Registry!TypeOK, FlightControl,
           Registry!LeastRecentlyUsed, [Registry!Next]_(Registry!vars)
    PROVE  Registry!LeastRecentlyUsed'
<1>1. \/ indexes' = indexes /\ recent' = recent
      \/ \E r \in Requests : Registry!Hit(r) \/ Registry!Publish(r)
  BY DEF Registry!Next, Registry!Lookup, Registry!Build, Registry!Follow,
         Registry!Finished, Registry!vars, Registry!requestVars,
         Registry!Expire, Registry!Refuse, Registry!StartBuild, Registry!Join,
         Registry!EmbedBatch, Registry!BuildFails, Registry!BuildStops,
         Registry!TooLate, Registry!Wait, Registry!WaitReturns,
         Registry!Leave, Registry!Read
<1>2. CASE indexes' = indexes /\ recent' = recent
  BY <1>2 DEF Registry!LeastRecentlyUsed
<1> QED
  BY <1>1, <1>2, OrderHit, OrderRoom, OrderFull DEF FlightControl

-----------------------------------------------------------------------------
(* The count of the waiters                                                *)

LEMMA CountsAlike ==
    /\ \A S : Registry!Cardinality(S) = Cardinality(S)
    /\ \A S : Registry!IsFiniteSet(S) = IsFiniteSet(S)
BY DEF Registry!Cardinality, Cardinality, Registry!IsFiniteSet, IsFiniteSet

\* WaitersCounted, with the cardinality the library's theorems are about.
Counted == \A f \in Requests :
               Cardinality(Registry!Waiting(f)) <= flight[f].waiter_count

LEMMA CountedAlike == /\ Registry!WaitersCounted <=> Counted
                      /\ Registry!WaitersCounted' <=> Counted'
BY CountsAlike DEF Registry!WaitersCounted, Counted

LEMMA WaitingFinite ==
    ASSUME Registry!IndexAssumption, NEW f \in Requests
    PROVE  IsFiniteSet(Registry!Waiting(f))
               /\ Cardinality(Registry!Waiting(f)) \in Nat
<1>1. Registry!Waiting(f) \subseteq Requests
  BY DEF Registry!Waiting
<1> QED
  BY <1>1, CountsAlike, FS_Subset, FS_CardinalityType
     DEF Registry!IndexAssumption

\* A step after which nobody else waits and the counts are the same.
LEMMA CountKept ==
    ASSUME Registry!IndexAssumption, Registry!TypeOK, Registry!TypeOK',
           Registry!WaitersCounted,
           \A f \in Requests :
               /\ flight'[f].waiter_count = flight[f].waiter_count
               /\ Registry!Waiting(f)' \subseteq Registry!Waiting(f)
    PROVE  Registry!WaitersCounted'
<1> SUFFICES ASSUME NEW f \in Requests
             PROVE  Cardinality(Registry!Waiting(f)') <= flight'[f].waiter_count
  BY CountedAlike DEF Counted
<1>1. PICK waiting, before :
               waiting = Registry!Waiting(f)' /\ before = Registry!Waiting(f)
  OBVIOUS
<1>2. /\ IsFiniteSet(before) /\ Cardinality(before) \in Nat
      /\ waiting \subseteq before
      /\ Cardinality(before) <= flight[f].waiter_count
  BY <1>1, WaitingFinite, CountedAlike DEF Counted
<1>3. Cardinality(waiting) \in Nat
          /\ Cardinality(waiting) <= Cardinality(before)
  BY <1>2, FS_Subset, FS_CardinalityType
<1>4. flight[f].waiter_count \in Nat
  BY DEF Registry!TypeOK, Registry!Flight
<1> QED
  BY <1>1, <1>2, <1>3, <1>4

LEMMA CountNext ==
    ASSUME Registry!IndexAssumption, Registry!TypeOK, Registry!TypeOK',
           FlightControl, Registry!WaitersCounted,
           [Registry!Next]_(Registry!vars)
    PROVE  Registry!WaitersCounted'
<1>1. ASSUME NEW r \in Requests, Registry!Join(r) PROVE Registry!WaitersCounted'
  <2>1. PICK f \in Requests : f = flights[want[r]]
    BY <1>1 DEF Registry!Join, Registry!TypeOK
  <2>2. flight[f].waiter_count + 1 \in Nat /\ flight[f].waiter_count \in Nat
    BY <2>1 DEF Registry!TypeOK, Registry!Flight
  <2>3. \A g \in Requests : flight'[g].waiter_count =
             IF g = f THEN flight[g].waiter_count + 1
                 ELSE flight[g].waiter_count
    BY <1>1, <2>1, JoinEffect
  <2>4. /\ Registry!Waiting(f)' = Registry!Waiting(f) \cup {r}
        /\ r \notin Registry!Waiting(f)
        /\ \A g \in Requests : g # f
               => Registry!Waiting(g)' = Registry!Waiting(g)
    BY <1>1, <2>1
       DEF Registry!Join, Registry!Goes, Registry!Waiting, Registry!TypeOK
  <2>5. Cardinality(Registry!Waiting(f) \cup {r})
            = Cardinality(Registry!Waiting(f)) + 1
    BY <2>4, WaitingFinite, FS_AddElement
  <2>6. Cardinality(Registry!Waiting(f)) \in Nat
        /\ Cardinality(Registry!Waiting(f)) <= flight[f].waiter_count
    BY WaitingFinite, CountedAlike DEF Counted
  <2>7. Cardinality(Registry!Waiting(f)') <= flight'[f].waiter_count
    BY <2>2, <2>3, <2>4, <2>5, <2>6
  <2>8. \A g \in Requests : g # f
            => Cardinality(Registry!Waiting(g)') <= flight'[g].waiter_count
    BY <2>3, <2>4, CountedAlike DEF Counted
  <2> QED
    BY <2>7, <2>8, CountedAlike DEF Counted
<1>2. ASSUME NEW r \in Requests, Registry!Leave(r)
      PROVE  Registry!WaitersCounted'
  <2>1. PICK f \in Requests : f = joined[r]
    BY <1>2 DEF Registry!Leave, FlightControl, JoinersFollow, Registry!TypeOK
  <2>2. flight[f].waiter_count \in Nat
    BY <2>1 DEF Registry!TypeOK, Registry!Flight
  <2>3. /\ Registry!Waiting(f)' = Registry!Waiting(f) \ {r}
        /\ r \in Registry!Waiting(f)
        /\ \A g \in Requests : g # f
               => Registry!Waiting(g)' = Registry!Waiting(g)
    BY <1>2, <2>1
       DEF Registry!Leave, Registry!Goes, Registry!Waiting, Registry!TypeOK
  <2>4. Cardinality(Registry!Waiting(f) \ {r})
            = Cardinality(Registry!Waiting(f)) - 1
    BY <2>3, WaitingFinite, FS_RemoveElement
  <2>5. Cardinality(Registry!Waiting(f) \ {r}) \in Nat
    BY WaitingFinite, FS_RemoveElement, FS_CardinalityType
  <2>6. Cardinality(Registry!Waiting(f)) \in Nat
        /\ Cardinality(Registry!Waiting(f)) <= flight[f].waiter_count
    BY WaitingFinite, CountedAlike DEF Counted
  <2>7. flight[f].waiter_count # 0 /\ flight[f].waiter_count - 1 \in Nat
    BY <2>2, <2>4, <2>5, <2>6
  <2>8. \A g \in Requests : flight'[g].waiter_count =
             IF g = f THEN flight[g].waiter_count - 1
                 ELSE flight[g].waiter_count
    BY <1>2, <2>1, <2>7, LeaveEffect DEF FlightControl
  <2>9. Cardinality(Registry!Waiting(f)') <= flight'[f].waiter_count
    BY <2>2, <2>3, <2>4, <2>6, <2>8
  <2>10. \A g \in Requests : g # f
             => Cardinality(Registry!Waiting(g)') <= flight'[g].waiter_count
    BY <2>3, <2>8, CountedAlike DEF Counted
  <2> QED
    BY <2>9, <2>10, CountedAlike DEF Counted
<1>3. ASSUME NEW r \in Requests,
             Registry!Expire(r) \/ Registry!Refuse(r) \/ Registry!Hit(r)
                 \/ Registry!StartBuild(r) \/ Registry!EmbedBatch(r)
                 \/ Registry!TooLate(r) \/ Registry!Wait(r)
                        \/ Registry!WaitReturns(r) \/ Registry!Read(r)
      PROVE  Registry!WaitersCounted'
  <2>1. flight' = flight /\ joined' = joined
    BY <1>3
       DEF Registry!Expire, Registry!Refuse, Registry!Hit,
           Registry!StartBuild, Registry!EmbedBatch, Registry!TooLate,
           Registry!Wait, Registry!WaitReturns, Registry!Read
  <2>2. \A o \in Requests : pc'[o] \in {"joined", "wait", "leave"} =>
                                pc[o] \in {"joined", "wait", "leave"}
    BY <1>3
       DEF Registry!Expire, Registry!Refuse, Registry!Hit,
           Registry!StartBuild, Registry!EmbedBatch, Registry!TooLate,
           Registry!Wait, Registry!WaitReturns, Registry!Read, Registry!Ends,
           Registry!Goes, Registry!TypeOK
  <2> QED
    BY <2>1, <2>2, CountKept DEF Registry!Waiting
<1>4. ASSUME NEW r \in Requests,
             Registry!BuildFails(r) \/ Registry!BuildStops(r)
                 \/ Registry!Publish(r)
      PROVE  Registry!WaitersCounted'
  <2>1. \A f \in Requests : flight'[f].waiter_count = flight[f].waiter_count
    <3>1. PICK result \in Registry!Index \cup {NoValue}, error
                   \in Registry!BuildErrors \cup {NoValue} :
              Registry!Land(r, result, error)
      BY <1>4, BuiltType
         DEF Registry!BuildFails, Registry!BuildStops, Registry!Publish,
             Registry!BuildErrors
    <3> QED
      BY <3>1, LandEffect
  <2>2. joined' = joined
    BY <1>4 DEF Registry!BuildFails, Registry!BuildStops, Registry!Publish
  <2>3. \A o \in Requests : pc'[o] \in {"joined", "wait", "leave"} =>
                                pc[o] \in {"joined", "wait", "leave"}
    BY <1>4
       DEF Registry!BuildFails, Registry!BuildStops, Registry!Publish,
           Registry!Ends, Registry!TypeOK
  <2> QED
    BY <2>1, <2>2, <2>3, CountKept DEF Registry!Waiting
<1>5. CASE UNCHANGED Registry!vars
  BY <1>5
     DEF Registry!vars, Registry!requestVars, Registry!WaitersCounted,
         Registry!Waiting
<1> QED
  BY <1>1, <1>2, <1>3, <1>4, <1>5
     DEF Registry!Next, Registry!Lookup, Registry!Build, Registry!Follow,
         Registry!Finished

-----------------------------------------------------------------------------
(* The theorems                                                            *)

LEMMA RegistryBegins ==
    ASSUME Registry!IndexAssumption
    PROVE  Registry!Init => RegistryInv
<1> SUFFICES ASSUME Registry!Init PROVE RegistryInv
  OBVIOUS
<1>1. Registry!TypeOK /\ FlightControl
  BY RegistryTyped, FlightsBegin
<1>2. Registry!SameAnswer /\ Registry!OnlyWholeIndexes
  BY DEF Registry!Init, Registry!SameAnswer, Registry!OnlyWholeIndexes,
         Registry!NoAnswer, Registry!Returned
<1>3. Registry!LeastRecentlyUsed
  BY DEF Registry!IndexAssumption, Registry!Init, Registry!LeastRecentlyUsed
<1>4. ASSUME NEW f \in Requests
      PROVE  Cardinality(Registry!Waiting(f)) <= flight[f].waiter_count
  <2>1. Registry!Waiting(f) = {} /\ flight[f].waiter_count = 0
    BY DEF Registry!Init, Registry!Waiting, Registry!NewFlight
  <2> QED
    BY <2>1, FS_EmptySet
<1> QED
  BY <1>1, <1>2, <1>3, <1>4, CountedAlike
     DEF RegistryInv, FlightControl, Counted

LEMMA RegistryKeeps ==
    ASSUME Registry!IndexAssumption
    PROVE  RegistryInv /\ [Registry!Next]_(Registry!vars) => RegistryInv'
<1> SUFFICES ASSUME RegistryInv, [Registry!Next]_(Registry!vars)
             PROVE  RegistryInv'
  OBVIOUS
<1>1. Registry!TypeOK /\ FlightControl
  BY DEF RegistryInv, FlightControl
<1>2. Registry!TypeOK' /\ FlightControl' /\ Kept
  BY <1>1, RegistryStaysTyped, FlightsKeep, DoneKept DEF FlightControl
<1>3. Registry!SameAnswer' /\ Registry!OnlyWholeIndexes'
  BY <1>1, <1>2, SameAnswerNext, OnlyWholeNext DEF RegistryInv
<1>4. Registry!LeastRecentlyUsed' /\ Registry!WaitersCounted'
  BY <1>1, <1>2, OrderNext, CountNext DEF RegistryInv
<1> QED
  BY <1>2, <1>3, <1>4 DEF RegistryInv, FlightControl

\* The invariant holds in every state of every run, for any number of requests
\* and versions, any limit of entries and any number of batches.
THEOREM RegistryInvariant == Registry!Spec => []RegistryInv
<1>1. Registry!Init => RegistryInv
  BY RegistryBegins, RegistryAssumption
<1>2. RegistryInv /\ [Registry!Next]_(Registry!vars) => RegistryInv'
  BY RegistryKeeps, RegistryAssumption
<1> QED
  BY <1>1, <1>2, PTL DEF Registry!Spec

\* The fields of requests, flights and indexes keep their types.
THEOREM RegistryTypeCorrect == RegistrySpec => []RegistryTypeOK
<1>1. RegistryInv => RegistryTypeOK
  BY DEF RegistryInv, RegistryTypeOK
<1> QED
  BY <1>1, RegistryInvariant, PTL DEF RegistrySpec

\* A version is built by one request at a time, and never while resident.
THEOREM BuiltOnce == Registry!Spec => []Registry!OneBuilder
<1>1. RegistryInv => Registry!OneBuilder
  <2> SUFFICES ASSUME RegistryInv PROVE Registry!OneBuilder
    OBVIOUS
  <2>1. FlightsBuild
    BY DEF RegistryInv
  <2> QED
    BY <2>1 DEF FlightsBuild, Registry!OneBuilder
<1> QED
  BY <1>1, RegistryInvariant, PTL

\* Every waiter without a result waits for a request that is building.
THEOREM WaitersServed == Registry!Spec => []Registry!NobodyStranded
<1>1. RegistryInv => Registry!NobodyStranded
  <2> SUFFICES ASSUME RegistryInv PROVE Registry!NobodyStranded
    OBVIOUS
  <2>1. FlightsBuild /\ JoinersFollow /\ Registry!TypeOK
    BY DEF RegistryInv
  <2> QED
    BY <2>1
       DEF FlightsBuild, JoinersFollow, Registry!NobodyStranded,
           Registry!TypeOK
<1> QED
  BY <1>1, RegistryInvariant, PTL

\* Requests that share a flight share its outcome.
THEOREM OutcomeShared == Registry!Spec => []Registry!SameAnswer
<1>1. RegistryInv => Registry!SameAnswer
  BY DEF RegistryInv
<1> QED
  BY <1>1, RegistryInvariant, PTL

\* Neither the registry nor a request ever gets a partial or foreign index.
THEOREM IndexesWhole == Registry!Spec => []Registry!OnlyWholeIndexes
<1>1. RegistryInv => Registry!OnlyWholeIndexes
  BY DEF RegistryInv
<1> QED
  BY <1>1, RegistryInvariant, PTL

\* The registry holds exactly the MaxEntries versions used last.
THEOREM EvictsOldest == RegistrySpec => []LeastRecentlyUsed
<1>1. RegistryInv => LeastRecentlyUsed
  BY DEF RegistryInv, LeastRecentlyUsed
<1> QED
  BY <1>1, RegistryInvariant, PTL DEF RegistrySpec

\* waiting_build_count is never below the number of waiters.
THEOREM NoneMissed == Registry!Spec => []Registry!WaitersCounted
<1>1. RegistryInv => Registry!WaitersCounted
  BY DEF RegistryInv
<1> QED
  BY <1>1, RegistryInvariant, PTL

\* What a flight says after it has landed never changes.
THEOREM FlightsFixed == Registry!Spec => Registry!LandedForGood
<1> DEFINE Fixed == \A f \in Requests : flight[f].event =>
                        /\ flight'[f].event
                        /\ flight'[f].result = flight[f].result
                        /\ flight'[f].error = flight[f].error
<1>1. RegistryInv /\ [Registry!Next]_(Registry!vars) => [Fixed]_(Registry!vars)
  <2> SUFFICES ASSUME RegistryInv, [Registry!Next]_(Registry!vars),
                      Registry!vars' # Registry!vars
               PROVE  Fixed
    OBVIOUS
  <2>1. Registry!TypeOK /\ FlightControl
    BY DEF RegistryInv, FlightControl
  <2>2. CASE flight' = flight
    BY <2>2
  <2>3. ASSUME NEW r \in Requests, Registry!Join(r) PROVE Fixed
    BY <2>1, <2>3, JoinEffect
  <2>4. ASSUME NEW r \in Requests, Registry!Leave(r) PROVE Fixed
    BY <2>1, <2>4, LeaveEffect DEF FlightControl
  <2>5. ASSUME NEW r \in Requests,
               Registry!BuildFails(r) \/ Registry!BuildStops(r)
                   \/ Registry!Publish(r)
        PROVE  Fixed
    <3>1. ~flight[r].event
      BY <2>1, <2>5
         DEF Registry!BuildFails, Registry!BuildStops, Registry!Publish,
             FlightControl, FlightsBuild
    <3>2. \A f \in Requests : f # r => flight'[f] = flight[f]
      BY <2>1, <2>5
         DEF Registry!BuildFails, Registry!BuildStops, Registry!Publish,
             Registry!Land, Registry!TypeOK
    <3> QED
      BY <3>1, <3>2
  <2>6. \/ flight' = flight
        \/ \E r \in Requests :
               Registry!Join(r) \/ Registry!Leave(r) \/ Registry!BuildFails(r)
                                            \/ Registry!BuildStops(r)
                                                   \/ Registry!Publish(r)
    BY DEF Registry!Next, Registry!Lookup, Registry!Build, Registry!Follow,
           Registry!Finished, Registry!vars, Registry!requestVars,
           Registry!Expire, Registry!Refuse, Registry!Hit,
           Registry!StartBuild, Registry!EmbedBatch, Registry!TooLate,
           Registry!Wait, Registry!WaitReturns, Registry!Read
  <2> QED
    BY <2>2, <2>3, <2>4, <2>5, <2>6
<1> QED
  BY <1>1, RegistryInvariant, PTL DEF Registry!Spec, Registry!LandedForGood

\* One builder for a version, and every waiter served and counted.
THEOREM FlightsStaySound == RegistrySpec => []FlightsSound
<1>1. FlightsSound
          <=> Registry!OneBuilder /\ Registry!NobodyStranded
              /\ Registry!WaitersCounted
  BY DEF FlightsSound
<1> QED
  BY <1>1, BuiltOnce, WaitersServed, NoneMissed, PTL DEF RegistrySpec

\* The answers of one flight are the same, and are whole indexes.
THEOREM AnswersStayTrue == RegistrySpec => []AnswersTrue
<1>1. AnswersTrue <=> Registry!SameAnswer /\ Registry!OnlyWholeIndexes
  BY DEF AnswersTrue
<1> QED
  BY <1>1, OutcomeShared, IndexesWhole, PTL DEF RegistrySpec
=============================================================================
