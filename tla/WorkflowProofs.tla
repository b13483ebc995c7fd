--------------------------- MODULE WorkflowProofs ---------------------------
(***************************************************************************)
(* The inductive invariant of Workflow and its proof.  What a node finds   *)
(* when it runs depends on the path to it, so the invariant says for each  *)
(* node what all paths to it have in common, and how many steps they took. *)
(* Then what the steps do to the attempt history, and the refinement.      *)
(***************************************************************************)
EXTENDS Workflow, TLAPS, SequenceTheorems

\* The steps taken before each node, after n attempts: a repair that links
\* the schema again takes seven.
StepBudget ==
    /\ node = "request_preprocess" => step_count = 0
    /\ node = "permission_resolve" => step_count <= 1
    /\ node = "schema_linking" /\ decision = None => step_count <= 7 * Len(attempts) + 2
    /\ node = "complexity_route" => step_count <= 7 * Len(attempts) + 3
    /\ node = "schema_linking" => step_count <= 7 * Len(attempts) + 4
    /\ node = "generate_sql" => step_count <= 7 * Len(attempts) + 5
    /\ node = "validate_sql" => step_count + 1 <= 7 * Len(attempts)
    /\ node = "execute_sql" => step_count <= 7 * Len(attempts)
    /\ node = "reflect_sql" => step_count <= 7 * Len(attempts) + 1
    /\ node = "clarification" => step_count <= 7 * MaxRepairs + 6
    /\ node = "finalize" => step_count <= 7 * MaxRepairs + 9
    /\ step_count <= 7 * MaxRepairs + 10

\* What was established for the nodes from schema_linking on.
Established ==
    /\ node \notin {"request_preprocess", "clarification", "finalize", "end"} =>
           normalized
    /\ node \notin {"request_preprocess", "permission_resolve", "clarification",
                    "finalize", "end"} => granted
    /\ node \in {"complexity_route", "generate_sql", "validate_sql",
                 "execute_sql", "reflect_sql"} \/ decision # None =>
           /\ link.snapshot # None
           /\ Dense => link.pool # None
    /\ node \in {"generate_sql", "validate_sql", "execute_sql",
                 "reflect_sql"} => decision # None
    /\ node \in {"request_preprocess", "permission_resolve",
                 "complexity_route"} => decision = None
    /\ \/ node \in {"request_preprocess", "permission_resolve"}
       \/ node = "schema_linking" /\ decision = None
       => link.pool = None
    /\ node \in {"request_preprocess", "permission_resolve", "schema_linking",
                 "complexity_route"} => link.selected = {}

\* Before generate_sql has answered, the error at hand is that of the attempt
\* under repair, if there is one.
BeforeAnswer ==
    /\ node \in {"request_preprocess", "permission_resolve"} => attempts = <<>>
    /\ node \in {"request_preprocess", "permission_resolve", "schema_linking",
                 "complexity_route", "generate_sql"} =>
          IF attempts = <<>>
          THEN error_type = None /\ repair_strategy = None /\ ~Failed
          ELSE /\ error_type = AttemptError(current)
               /\ error_type \in Repairable
               /\ repair_count < MaxRepairs
               /\ repair_strategy = Strategy(error_type, repair_count)
               /\ node # "generate_sql" => repair_strategy = "RELINK_SCHEMA"
               /\ decision # None /\ repair_strategy = "RELINK_SCHEMA" =>
                      decision = "complex"
    /\ node = "complexity_route" => ~Failed
    /\ node = "schema_linking" /\ decision # None => ~Failed

\* From validate_sql to reflect_sql: how far the current attempt got.
AfterAnswer ==
    /\ node \in {"validate_sql", "execute_sql"} =>
          /\ attempts # <<>> /\ error_type = None /\ ~Failed
          /\ ~current.executed /\ current.database_error = None
    /\ node = "validate_sql" => current.validation = None
    /\ node = "execute_sql" => current.validation = "valid"
    /\ node = "reflect_sql" =>
          /\ attempts # <<>> /\ Failed /\ public_error.type = error_type
          /\ error_type = AttemptError(current) /\ error_type \in Repairable
    /\ node \in {"validate_sql", "execute_sql", "reflect_sql"} =>
          repair_strategy = None
    /\ current.executed => node \in {"finalize", "end"}
    /\ \A i \in 1..Len(attempts) : i # Len(attempts) => ~attempts[i].executed

\* The verdict finalize will turn into a status.
Verdict ==
    /\ node = "clarification" => error_type \in Semantic
    /\ node \notin {"finalize", "end"} => clarification = None
    /\ (node = "end") = (final_status # None)
    /\ node = "finalize" =>
          \/ /\ current.executed /\ error_type = None /\ ~Failed
             /\ clarification = None
          \/ /\ ~current.executed /\ clarification # None
             /\ error_type \in Semantic /\ ~Failed
          \/ /\ ~current.executed /\ Failed
             /\ public_error.type = error_type /\ clarification = None

Late ==
    node = "end" /\ expired =>
        /\ ~current.executed
        /\ clarification = None
        /\ final_status = "FAILED_TIMEOUT" \/ public_error = InternalError

CallBudget ==
    /\ calls.generation <= calls.routing
    /\ calls.routing <= MaxRepairs + 1
    /\ node \notin {"clarification", "finalize", "end"} => calls.routing = Len(attempts)

IInv ==
    /\ TypeOK /\ StateValid /\ TerminalValid /\ CutStops
    /\ StepBudget /\ Established /\ BeforeAnswer /\ AfterAnswer /\ Verdict
    /\ Late /\ CallBudget

-----------------------------------------------------------------------------
(* Facts the steps share                                                   *)

LEMMA NoneIsNew ==
    /\ None \notin ErrorTypes /\ None \notin Strategies /\ None \notin Levels
    /\ None \notin Statuses /\ None \notin Versions /\ None # "valid"
    /\ Semantic \subseteq ErrorTypes /\ Repairable \subseteq ErrorTypes
    /\ Repairable \cap Semantic = {}
  BY WorkflowAssumption DEF ErrorTypes, Semantic, Repairable

Bounds ==
    /\ MaxRepairs \in Nat /\ MaxSteps \in Nat
    /\ 7 * MaxRepairs + 11 <= MaxSteps
    /\ step_count \in Nat /\ repair_count \in Nat
    /\ Len(attempts) \in Nat /\ Len(attempts) <= MaxRepairs + 1
    /\ attempts = <<>> => Len(attempts) = 0 /\ repair_count = 0
    /\ attempts # <<>> => Len(attempts) = repair_count + 1

LEMMA Sizes == IInv => Bounds
  BY WorkflowAssumption DEF IInv, TypeOK, StateValid, HistoryValid, Bounds

LEMMA SameHistory ==
  ASSUME HistoryValid, UNCHANGED attemptVars PROVE HistoryValid'
  BY DEF HistoryValid, attemptVars

LEMMA SameLink ==
  ASSUME StateValid, UNCHANGED <<link, attemptVars>> PROVE StateValid'
  BY SameHistory DEF StateValid, RetrievalValid

\* No request is finished before finalize ran.
LEMMA StillOpen ==
  ASSUME IInv, node # "end", UNCHANGED final_status
  PROVE  TerminalValid'
  BY NoneIsNew DEF IInv, Verdict, TerminalValid, Statuses

-----------------------------------------------------------------------------
(* Every run of a node that ends in an error no repair answers has the same *)
(* effect on the invariant.                                                 *)

Stops ==
    /\ node \notin {"finalize", "end"} /\ node' = "finalize"
    /\ step_count' = step_count + 1 /\ expired' = expired
    /\ public_error' \in PublicErrors /\ error_type' = public_error'.type
    /\ repair_strategy' \in Optional(Strategies)
    /\ link' \in SchemaLink /\ RetrievalValid'
    /\ link'.selected \subseteq link'.fields
    /\ decision # None => link'.snapshot = link.snapshot /\ link'.pool = link.pool
    /\ calls' \in [routing : Nat, generation : Nat]
    /\ calls'.generation <= calls'.routing
    /\ calls'.routing <= MaxRepairs + 1
    /\ retries' \in [counted : Nat, reported : Nat]
    /\ UNCHANGED <<scopeVars, decision, attemptVars, terminalVars>>

LEMMA StopsStep == ASSUME IInv, Stops PROVE IInv'
<1> USE DEF Stops, scopeVars, attemptVars, terminalVars
<1>1. /\ Bounds /\ TypeOK /\ StateValid /\ StepBudget /\ BeforeAnswer
      /\ AfterAnswer /\ Verdict /\ CallBudget /\ Established
  BY Sizes DEF IInv
<1>2. Failed' /\ error_type' \in ErrorTypes
  BY NoneIsNew DEF PublicErrors, Failed, NoPublicError, PublicError
<1>3. node \in NodeNames \cup {"end"}
  BY <1>1 DEF TypeOK
<1>4. StepBudget' /\ step_count' \in 0..MaxSteps
  <2>1. step_count <= 7 * MaxRepairs + 8
    BY <1>1, <1>3 DEF NodeNames, Bounds, StepBudget, BeforeAnswer
  <2>2. /\ step_count' \in 0..MaxSteps
        /\ step_count' <= 7 * MaxRepairs + 9 /\ step_count' <= 7 * MaxRepairs + 10
    BY <1>1, <2>1 DEF Bounds
  <2>3. node' = "finalize"
    OBVIOUS
  <2>4. QED
    BY <2>2, <2>3 DEF StepBudget
<1>5. TypeOK'
  BY <1>1, <1>2, <1>4 DEF TypeOK, NodeNames, Optional
<1>6. StateValid'
  BY <1>1, SameHistory DEF StateValid
<1>7. TerminalValid'
  BY StillOpen
<1>8. CutStops' /\ Established' /\ BeforeAnswer'
  BY <1>1 DEF CutStops, Established, BeforeAnswer
<1>9. AfterAnswer' /\ Verdict' /\ Late' /\ CallBudget'
  BY <1>1, <1>2 DEF AfterAnswer, Verdict, Late, CallBudget
<1> QED BY <1>4, <1>5, <1>6, <1>7, <1>8, <1>9 DEF IInv

\* Whatever node is cut or raises, its route leads to finalize: the fields the
\* routes also read say that its work is not done.
LEMMA CutRoute ==
  ASSUME IInv, NEW n \in NodeNames \ {"finalize"}, node = n,
         UNCHANGED workVars, Failed', error_type' \in {"UNKNOWN", "TIMEOUT"}
  PROVE  Route'[n] = "finalize"
<1>1. /\ n = "validate_sql" => current.validation # "valid"
      /\ n = "execute_sql" => ~current.executed
      /\ n = "reflect_sql" => repair_strategy = None
  BY NoneIsNew DEF IInv, AfterAnswer
<1>2. current' = current /\ repair_strategy' = repair_strategy
  BY DEF workVars, attemptVars
<1>3. error_type' \notin Reflectable \cup Semantic
  BY DEF Reflectable, Repairable, Semantic
<1>4. CASE n \in {"request_preprocess", "permission_resolve",
                   "complexity_route", "generate_sql", "clarification"}
  BY <1>3, <1>4 DEF Route, Semantic
<1>5. CASE n = "schema_linking"
  BY <1>3, <1>5 DEF Route, SchemaRoute, Semantic
<1>6. CASE n \in {"validate_sql", "execute_sql"}
  BY <1>1, <1>2, <1>3, <1>6 DEF Route, ValidationRoute, ExecutionRoute
<1>7. CASE n = "reflect_sql"
  BY <1>1, <1>2, <1>3, <1>7, NoneIsNew DEF Route, ReflectionRoute, Semantic, Strategies
<1> QED
  BY <1>4, <1>5, <1>6, <1>7 DEF NodeNames

LEMMA CutStopsNode ==
  ASSUME IInv, NEW n \in NodeNames, Interrupted(n) \/ NodeRaises(n)
  PROVE  Stops
<1> USE DEF workVars, scopeVars, attemptVars, terminalVars, Step
<1>1. /\ node = n /\ n \in NodeNames \ {"finalize"} /\ UNCHANGED workVars
      /\ public_error' \in {StepLimitError, TimeoutError, InternalError}
      /\ error_type' = public_error'.type
  BY DEF Interrupted, NodeRaises, Runs, Fail
<1>2. /\ public_error' \in PublicErrors /\ Failed'
      /\ error_type' \in {"UNKNOWN", "TIMEOUT"}
  BY <1>1, NoneIsNew DEF StepLimitError, TimeoutError, InternalError, PublicErrors,
     PublicError, Codes, ErrorTypes, Failed, NoPublicError
<1>3. node' = "finalize" /\ step_count' = step_count + 1 /\ expired' = expired
  BY <1>1, <1>2, CutRoute DEF Interrupted, NodeRaises
<1>4. TypeOK /\ StateValid /\ CallBudget
  BY DEF IInv
<1>5. RetrievalValid'
  BY <1>1, <1>4 DEF StateValid, RetrievalValid
<1> QED
  BY <1>1, <1>2, <1>3, <1>4, <1>5 DEF Stops, TypeOK, StateValid, CallBudget, NodeNames

\* The errors collaborators report are ones the nodes may publish.
LEMMA Published ==
    /\ \A e \in DatabaseErrors : PublicError(e, "DATABASE") \in PublicErrors
    /\ \A e \in EmbeddingErrors : PublicError(e, "EMBEDDING") \in PublicErrors
    /\ \A e \in ModelErrors : PublicError(e, "MODEL") \in PublicErrors
    /\ \A e \in ValidationIssues : PublicError(e, "VALIDATION") \in PublicErrors
    /\ \A e \in ErrorTypes : ExhaustedError(e) \in PublicErrors
    /\ {InternalError, TimeoutError, StepLimitError, NoSchemaError, ContextError,
        DuplicateError, PublicError("UNKNOWN", "WORKFLOW_INVALID_REQUEST"),
        PublicError("PERMISSION_DENIED", "WORKFLOW_PERMISSION_DENIED")}
       \subseteq PublicErrors
  BY DEF PublicErrors, PublicError, DatabaseErrors, EmbeddingErrors, ModelErrors,
         ValidationIssues, ErrorTypes, Codes, CollaboratorCodes, InternalError,
         TimeoutError, StepLimitError, NoSchemaError, ContextError,
         DuplicateError, ExhaustedError

LEMMA PublishedFails ==
  ASSUME public_error' \in PublicErrors PROVE Failed'
  BY NoneIsNew DEF PublicErrors, Failed, NoPublicError, PublicError

LEMMA RetriedType ==
  ASSUME TypeOK, NEW n \in 0..MaxRetries, NEW c \in BOOLEAN, Retried(n, c)
  PROVE  retries' \in [counted : Nat, reported : Nat]
  BY WorkflowAssumption DEF TypeOK, Retried

LEMMA RequestFailsStop == ASSUME IInv, InvalidRequest \/ PermissionDenied PROVE Stops
<1>1. /\ node \in {"request_preprocess", "permission_resolve"}
      /\ public_error' \in PublicErrors /\ error_type' = public_error'.type
      /\ UNCHANGED workVars /\ Step(node)
  BY Published DEF InvalidRequest, PermissionDenied, Runs, Fail
<1>2. node' = "finalize" /\ step_count' = step_count + 1 /\ expired' = expired
  BY <1>1, PublishedFails DEF Step, Route
<1>3. TypeOK /\ StateValid /\ CallBudget
  BY DEF IInv
<1> QED
  BY <1>1, <1>2, <1>3 DEF Stops, workVars, scopeVars, attemptVars, terminalVars,
     TypeOK, StateValid, RetrievalValid, CallBudget

LEMMA SchemaFailsStop ==
  ASSUME IInv, \/ MetadataFails \/ RetrievalFails
               \/ NoCandidates /\ repair_strategy = "RELINK_SCHEMA"
  PROVE  Stops
<1>1. /\ node = "schema_linking" /\ decision = None
      /\ UNCHANGED UnlinkedVars /\ Step("schema_linking")
      /\ public_error' \in PublicErrors /\ error_type' = public_error'.type
      /\ error_type' # "BUSINESS_KNOWLEDGE_MISSING"
  BY Published DEF MetadataFails, RetrievalFails, NoCandidates, Links, Runs, Fail,
     PublicError, DatabaseErrors, EmbeddingErrors, InternalError
<1>2. TypeOK /\ StateValid /\ CallBudget /\ link.pool = None
  BY <1>1 DEF IInv, Established
<1>3. link' = link \/ \E v \in Versions : link' = [link EXCEPT !.snapshot = v, !.failure = v]
  BY DEF MetadataFails, RetrievalFails, NoCandidates
<1>4. /\ link' \in SchemaLink /\ RetrievalValid'
      /\ link'.selected \subseteq link'.fields
  <2>1. link \in SchemaLink /\ RetrievalValid /\ link.selected \subseteq link.fields
    BY <1>2 DEF TypeOK, StateValid
  <2>2. CASE link' = link
    BY <2>1, <2>2 DEF RetrievalValid
  <2>3. ASSUME NEW v \in Versions, link' = [link EXCEPT !.snapshot = v, !.failure = v]
        PROVE  /\ link' \in SchemaLink /\ RetrievalValid'
               /\ link'.selected \subseteq link'.fields
    <3>1. link' \in SchemaLink
      BY <2>1, <2>3 DEF SchemaLink, Optional
    <3>2. link'.selected = link.selected /\ link'.fields = link.fields
      BY <2>1, <2>3 DEF SchemaLink
    <3>3. RetrievalValid'
      BY <1>2, <2>1, <2>3 DEF RetrievalValid, SchemaLink
    <3> QED
      BY <2>1, <3>1, <3>2, <3>3
  <2> QED
    BY <1>3, <2>2, <2>3
<1>5. retries' \in [counted : Nat, reported : Nat]
  BY <1>2, RetriedType DEF MetadataFails, RetrievalFails, NoCandidates
<1>6. node' = "finalize" /\ step_count' = step_count + 1 /\ expired' = expired
  BY <1>1, PublishedFails DEF Step, Route, SchemaRoute
<1> QED
  BY <1>1, <1>2, <1>4, <1>5, <1>6 DEF Stops, UnlinkedVars, scopeVars, attemptVars,
     terminalVars, TypeOK, CallBudget

LEMMA GenerationFailsStop ==
  ASSUME IInv, ContextOverflows \/ ModelFails PROVE Stops
<1>1. /\ node = "generate_sql" /\ Observe(FALSE)
      /\ UNCHANGED <<repair_strategy, scopeVars, decision, attemptVars, retries,
                     terminalVars>>
      /\ public_error' \in PublicErrors /\ error_type' = public_error'.type
      /\ Step("generate_sql")
  BY Published DEF ContextOverflows, ModelFails, Generates, Runs, Fail
<1>2. \E fs \in SUBSET link.fields : link' = [link EXCEPT !.selected = fs]
  BY DEF ContextOverflows, ModelFails, Select
<1>3. TypeOK /\ StateValid /\ CallBudget /\ Bounds /\ BeforeAnswer
  BY Sizes DEF IInv
<1>4. /\ link' \in SchemaLink /\ RetrievalValid'
      /\ link'.selected \subseteq link'.fields
      /\ link'.snapshot = link.snapshot /\ link'.pool = link.pool
  BY <1>2, <1>3 DEF TypeOK, StateValid, RetrievalValid, SchemaLink, Optional
<1>5. node' = "finalize" /\ step_count' = step_count + 1 /\ expired' = expired
  BY <1>1, PublishedFails DEF Step, Route
<1>6. calls.routing <= MaxRepairs
  BY <1>1, <1>3 DEF CallBudget, BeforeAnswer, Bounds
<1>7. calls' \in [routing : Nat, generation : Nat]
      /\ calls'.generation <= calls'.routing /\ calls'.routing <= MaxRepairs + 1
  BY <1>1, <1>3, <1>6 DEF Observe, CallBudget, TypeOK, Bounds
<1> QED
  BY <1>1, <1>3, <1>4, <1>5, <1>7 DEF Stops, TypeOK

-----------------------------------------------------------------------------
(* The runs of request_preprocess and permission_resolve that go on          *)

LEMMA PreprocessStep == ASSUME IInv, Preprocess PROVE IInv'
<1>1. /\ Bounds /\ TypeOK /\ StateValid /\ StepBudget /\ BeforeAnswer
      /\ AfterAnswer /\ Verdict /\ CallBudget /\ Established
  BY Sizes DEF IInv
<1>2. /\ node = "request_preprocess" /\ step_count = 0 /\ step_count' = 1
      /\ normalized' /\ public_error' = NoPublicError /\ expired' = expired
      /\ error_type = None /\ error_type' \in {None, "AMBIGUOUS_SEMANTICS"}
      /\ UNCHANGED <<repair_strategy, granted, decision, link, attemptVars,
                     calls, retries, terminalVars>>
  BY <1>1 DEF Preprocess, Runs, Step, StepBudget, BeforeAnswer
<1>3. node' = IF error_type' = "AMBIGUOUS_SEMANTICS" THEN "clarification"
              ELSE "permission_resolve"
  BY <1>2 DEF Preprocess, Step, Route, Failed
<1> USE DEF attemptVars, terminalVars
<1>4. TypeOK' /\ StepBudget'
  BY <1>1, <1>2, <1>3, WorkflowAssumption
     DEF TypeOK, StepBudget, NodeNames, Optional, ErrorTypes, Bounds
<1>5. StateValid' /\ TerminalValid'
  BY <1>1, <1>2, SameLink, StillOpen
<1>6. CutStops' /\ Established' /\ BeforeAnswer' /\ AfterAnswer'
  BY <1>1, <1>2, <1>3 DEF CutStops, Established, BeforeAnswer, AfterAnswer,
     Failed, NoPublicError, InternalError, TimeoutError, StepLimitError,
     PublicError
<1>7. Verdict' /\ Late' /\ CallBudget'
  BY <1>1, <1>2, <1>3 DEF Verdict, Late, CallBudget, Semantic
<1> QED BY <1>4, <1>5, <1>6, <1>7 DEF IInv

LEMMA PermissionGrantedStep == ASSUME IInv, PermissionGranted PROVE IInv'
<1>1. /\ Bounds /\ TypeOK /\ StateValid /\ StepBudget /\ BeforeAnswer
      /\ AfterAnswer /\ Verdict /\ CallBudget /\ Established
  BY Sizes DEF IInv
<1>2. /\ node = "permission_resolve" /\ step_count <= 1
      /\ step_count' = step_count + 1
      /\ granted' /\ error_type' = None /\ public_error' = NoPublicError
      /\ expired' = expired
      /\ UNCHANGED <<repair_strategy, normalized, decision, link, attemptVars,
                     calls, retries, terminalVars>>
  BY <1>1 DEF PermissionGranted, Runs, Step, StepBudget, Clear
<1>3. node' = "schema_linking"
  BY <1>2 DEF PermissionGranted, Step, Route, Failed
<1> USE DEF attemptVars, terminalVars
<1>4. TypeOK' /\ StepBudget'
  BY <1>1, <1>2, <1>3, WorkflowAssumption
     DEF TypeOK, StepBudget, NodeNames, Optional, Bounds
<1>5. StateValid' /\ TerminalValid'
  BY <1>1, <1>2, SameLink, StillOpen
<1>6. CutStops' /\ Established' /\ BeforeAnswer' /\ AfterAnswer'
  BY <1>1, <1>2, <1>3 DEF CutStops, Established, BeforeAnswer, AfterAnswer,
     Failed, NoPublicError, InternalError, TimeoutError, StepLimitError,
     PublicError
<1>7. Verdict' /\ Late' /\ CallBudget'
  BY <1>1, <1>2, <1>3 DEF Verdict, Late, CallBudget
<1> QED BY <1>4, <1>5, <1>6, <1>7 DEF IInv

-----------------------------------------------------------------------------
(* schema_linking and complexity_route                                       *)

LEMMA ProbeStep == ASSUME IInv, Probe PROVE IInv'
<1>1. /\ Bounds /\ TypeOK /\ StateValid /\ StepBudget /\ BeforeAnswer
      /\ AfterAnswer /\ Verdict /\ CallBudget /\ Established
  BY Sizes DEF IInv
<1>2. /\ node = "schema_linking" /\ decision = None
      /\ step_count' = step_count + 1 /\ expired' = expired
      /\ public_error' = NoPublicError
      /\ UNCHANGED <<error_type, UnlinkedVars>>
  BY DEF Probe, Links, Runs, Step, Linked
<1>3. PICK v \in Versions, fs \in SUBSET Fields :
          link' = [link EXCEPT !.snapshot = v,
                               !.version = IF Dense THEN v ELSE None,
                               !.pool = IF Dense THEN v ELSE None,
                               !.failure = None,
                               !.probed = TRUE \/ @, !.fields = fs]
  BY DEF Probe, Linked
<1>4. node' = "complexity_route"
  BY <1>2 DEF Probe, Step, Route, SchemaRoute, Failed, UnlinkedVars
<1>5. retries' \in [counted : Nat, reported : Nat]
  BY <1>1, RetriedType DEF Probe
<1>6. /\ link' \in SchemaLink /\ RetrievalValid'
      /\ link'.snapshot # None /\ (Dense => link'.pool # None)
  BY <1>1, <1>3, WorkflowAssumption DEF TypeOK, SchemaLink, Optional, RetrievalValid
<1> USE DEF attemptVars, terminalVars, UnlinkedVars, scopeVars
<1>7. TypeOK' /\ StepBudget'
  BY <1>1, <1>2, <1>4, <1>5, <1>6, WorkflowAssumption
     DEF TypeOK, StepBudget, NodeNames, Bounds
<1>8. HistoryValid' /\ link'.selected = {}
  BY <1>1, <1>2, <1>3, SameHistory DEF StateValid, Established, TypeOK, SchemaLink
<1>9. StateValid' /\ TerminalValid'
  BY <1>2, <1>6, <1>8, StillOpen DEF StateValid
<1>10. CutStops' /\ Established' /\ BeforeAnswer' /\ AfterAnswer'
  BY <1>1, <1>2, <1>4, <1>6, <1>8 DEF CutStops, Established, BeforeAnswer, AfterAnswer,
     Failed, NoPublicError, InternalError, TimeoutError, StepLimitError,
     PublicError
<1>11. Verdict' /\ Late' /\ CallBudget'
  BY <1>1, <1>2, <1>4 DEF Verdict, Late, CallBudget
<1> QED BY <1>7, <1>9, <1>10, <1>11 DEF IInv

LEMMA MaterializeStep == ASSUME IInv, Materialize PROVE IInv'
<1>1. /\ Bounds /\ TypeOK /\ StateValid /\ StepBudget /\ BeforeAnswer
      /\ AfterAnswer /\ Verdict /\ CallBudget /\ Established
  BY Sizes DEF IInv
<1>2. /\ node = "schema_linking" /\ decision # None
      /\ step_count' = step_count + 1 /\ expired' = expired
      /\ public_error' = NoPublicError
      /\ UNCHANGED <<error_type, UnlinkedVars, retries>>
  BY DEF Materialize, Links, Runs, Step, Linked
<1>3. PICK fs \in SUBSET Fields :
          link' = [link EXCEPT !.snapshot = link.snapshot, !.version = link.pool,
                               !.pool = link.pool, !.failure = None,
                               !.probed = FALSE \/ @, !.fields = fs]
  BY DEF Materialize, Linked
<1>4. node' = "generate_sql"
  BY <1>2 DEF Materialize, Step, Route, SchemaRoute, Failed, UnlinkedVars
<1>5. Len(attempts) <= MaxRepairs
  BY <1>1, <1>2 DEF BeforeAnswer, Bounds
<1>6. /\ link' \in SchemaLink /\ RetrievalValid'
      /\ link'.snapshot # None /\ (Dense => link'.pool # None)
  BY <1>1, <1>2, <1>3 DEF TypeOK, StateValid, SchemaLink, Optional,
     RetrievalValid, Established
<1> USE DEF attemptVars, terminalVars, UnlinkedVars, scopeVars
<1>7. TypeOK' /\ StepBudget'
  BY <1>1, <1>2, <1>4, <1>5, <1>6, WorkflowAssumption
     DEF TypeOK, StepBudget, NodeNames, Bounds
<1>8. HistoryValid' /\ link'.selected = {}
  BY <1>1, <1>2, <1>3, SameHistory DEF StateValid, Established, TypeOK, SchemaLink
<1>9. StateValid' /\ TerminalValid'
  BY <1>2, <1>6, <1>8, StillOpen DEF StateValid
<1>10. CutStops' /\ Established' /\ BeforeAnswer' /\ AfterAnswer'
  BY <1>1, <1>2, <1>4, <1>6 DEF CutStops, Established, BeforeAnswer, AfterAnswer,
     Failed, NoPublicError, InternalError, TimeoutError, StepLimitError,
     PublicError
<1>11. Verdict' /\ Late' /\ CallBudget'
  BY <1>1, <1>2, <1>4 DEF Verdict, Late, CallBudget
<1> QED BY <1>7, <1>9, <1>10, <1>11 DEF IInv

LEMMA ComplexityRouteStep == ASSUME IInv, ComplexityRoute PROVE IInv'
<1>1. /\ Bounds /\ TypeOK /\ StateValid /\ StepBudget /\ BeforeAnswer
      /\ AfterAnswer /\ Verdict /\ CallBudget /\ Established
  BY Sizes DEF IInv
<1>2. /\ node = "complexity_route"
      /\ step_count' = step_count + 1 /\ expired' = expired
      /\ UNCHANGED <<verdictVars, repair_strategy, scopeVars, link, attemptVars,
                     calls, retries, terminalVars>>
      /\ decision' \in Levels
      /\ attempts # <<>> /\ repair_strategy # None => decision' = "complex"
  BY DEF ComplexityRoute, Runs, Step, Levels, PossibleLevels
<1> USE DEF attemptVars, terminalVars, scopeVars, verdictVars
<1>3. node' = "schema_linking"
  BY <1>1, <1>2 DEF ComplexityRoute, Step, Route, Failed, BeforeAnswer
<1>4. decision' # None
  BY <1>2, NoneIsNew
<1>5. Len(attempts) <= MaxRepairs
  BY <1>1, <1>2 DEF BeforeAnswer, Bounds
<1>6. TypeOK' /\ StepBudget'
  BY <1>1, <1>2, <1>3, <1>4, <1>5, WorkflowAssumption
     DEF TypeOK, StepBudget, NodeNames, Bounds, Optional
<1>7. StateValid' /\ TerminalValid'
  BY <1>1, <1>2, SameLink, StillOpen
<1>8. CutStops' /\ Established'
  BY <1>1, <1>2, <1>3, <1>4 DEF IInv, CutStops, Established
<1>9. BeforeAnswer' /\ AfterAnswer'
  BY <1>1, <1>2, <1>3, <1>4, NoneIsNew DEF BeforeAnswer, AfterAnswer, Failed,
     Strategies
<1>10. Verdict' /\ Late' /\ CallBudget'
  BY <1>1, <1>2, <1>3 DEF Verdict, Late, CallBudget
<1> QED BY <1>6, <1>7, <1>8, <1>9, <1>10 DEF IInv

\* The first linking that finds no table asks for the business knowledge.
LEMMA NoCandidatesStep ==
  ASSUME IInv, NoCandidates, repair_strategy # "RELINK_SCHEMA" PROVE IInv'
<1>1. /\ Bounds /\ TypeOK /\ StateValid /\ StepBudget /\ BeforeAnswer
      /\ AfterAnswer /\ Verdict /\ CallBudget /\ Established
  BY Sizes DEF IInv
<1>2. /\ node = "schema_linking" /\ decision = None
      /\ step_count' = step_count + 1 /\ expired' = expired
      /\ public_error' = NoSchemaError
      /\ error_type' = "BUSINESS_KNOWLEDGE_MISSING"
      /\ UNCHANGED <<link, UnlinkedVars>>
      /\ attempts = <<>>
  BY <1>1 DEF NoCandidates, Links, Runs, Step, Fail, NoSchemaError, PublicError,
     BeforeAnswer
<1>3. public_error' \in PublicErrors /\ Failed'
  BY <1>2, Published, PublishedFails
<1>4. node' = "clarification"
  BY <1>2, <1>3 DEF NoCandidates, Step, Route, SchemaRoute
<1>5. retries' \in [counted : Nat, reported : Nat]
  BY <1>1, RetriedType DEF NoCandidates
<1> USE DEF attemptVars, terminalVars, UnlinkedVars, scopeVars
<1>6. TypeOK' /\ StepBudget'
  BY <1>1, <1>2, <1>3, <1>4, <1>5, WorkflowAssumption
     DEF TypeOK, StepBudget, NodeNames, Bounds, Optional, ErrorTypes
<1>7. StateValid' /\ TerminalValid'
  BY <1>1, <1>2, SameLink, StillOpen
<1>8. CutStops' /\ Established' /\ BeforeAnswer' /\ AfterAnswer'
  BY <1>1, <1>2, <1>4 DEF CutStops, Established, BeforeAnswer, AfterAnswer,
     NoSchemaError, InternalError, TimeoutError, StepLimitError, PublicError
<1>9. Verdict' /\ Late' /\ CallBudget'
  BY <1>1, <1>2, <1>4 DEF Verdict, Late, CallBudget, Semantic
<1> QED BY <1>6, <1>7, <1>8, <1>9 DEF IInv

LEMMA ClarifyStep == ASSUME IInv, Clarify PROVE IInv'
<1>1. /\ Bounds /\ TypeOK /\ StateValid /\ StepBudget /\ BeforeAnswer
      /\ AfterAnswer /\ Verdict /\ CallBudget /\ Established
  BY Sizes DEF IInv
<1>2. /\ node = "clarification" /\ error_type \in Semantic
      /\ step_count' = step_count + 1 /\ expired' = expired
      /\ public_error' = NoPublicError /\ clarification' \in Semantic
      /\ UNCHANGED <<error_type, repair_strategy, scopeVars, decision, link,
                     attemptVars, calls, retries, final_status>>
  BY <1>1 DEF Clarify, Runs, Step, Verdict, Semantic
<1>3. node' = "finalize"
  BY <1>2 DEF Clarify, Step, Route
<1>4. clarification' # None
  BY <1>2, NoneIsNew
<1> USE DEF attemptVars, scopeVars
<1>5. TypeOK' /\ StepBudget'
  BY <1>1, <1>2, <1>3, WorkflowAssumption
     DEF TypeOK, StepBudget, NodeNames, Bounds, Optional, Semantic
<1>6. StateValid' /\ TerminalValid'
  BY <1>1, <1>2, SameLink, StillOpen
<1>7. CutStops' /\ Established' /\ BeforeAnswer' /\ AfterAnswer'
  BY <1>1, <1>2, <1>3 DEF CutStops, Established, BeforeAnswer, AfterAnswer
<1>8. Verdict' /\ Late' /\ CallBudget'
  BY <1>1, <1>2, <1>3, <1>4 DEF Verdict, Late, CallBudget, Failed, AfterAnswer
<1> QED BY <1>5, <1>6, <1>7, <1>8 DEF IInv

-----------------------------------------------------------------------------
(* The history: adding an attempt and replacing the last one               *)

LEMMA RegisterHistory ==
  ASSUME TypeOK, HistoryValid, NEW fp \in Fingerprints, fp \notin seen,
         Register(fp)
  PROVE  /\ attempts' \in Seq(SQLAttempt) /\ seen' \subseteq Fingerprints
         /\ HistoryValid'
         /\ Len(attempts') = Len(attempts) + 1 /\ repair_count' = Len(attempts)
         /\ current' = NewAttempt(fp)
         /\ \A i \in 1..Len(attempts) : attempts'[i] = attempts[i]
<1>1. /\ attempts \in Seq(SQLAttempt) /\ NewAttempt(fp) \in SQLAttempt
      /\ Len(attempts) \in Nat
  BY DEF TypeOK, SQLAttempt, NewAttempt
<1>2. /\ attempts' = Append(attempts, NewAttempt(fp)) /\ seen' = seen \cup {fp}
      /\ current' = Last(attempts')
      /\ repair_count' = IF attempts = <<>> THEN 0 ELSE repair_count + 1
  BY DEF Register, HistoryUpdate
<1>3. /\ attempts' \in Seq(SQLAttempt) /\ Len(attempts') = Len(attempts) + 1
      /\ \A i \in 1..Len(attempts) : attempts'[i] = attempts[i]
      /\ attempts'[Len(attempts) + 1] = NewAttempt(fp)
  BY <1>1, <1>2, AppendProperties
<1>4. /\ attempts = <<>> => Len(attempts) = 0 /\ repair_count = 0
      /\ attempts # <<>> => repair_count = Len(attempts) - 1
      /\ seen = {attempts[i].sql : i \in 1..Len(attempts)}
      /\ \A i, j \in 1..Len(attempts) : attempts[i].sql = attempts[j].sql => i = j
      /\ \A i \in 1..Len(attempts) :
            /\ ~(attempts[i].executed /\ attempts[i].database_error # None)
            /\ attempts[i].executed \/ attempts[i].database_error # None =>
                   attempts[i].validation = "valid"
  BY <1>1 DEF HistoryValid
<1>5. current' = NewAttempt(fp) /\ repair_count' = Len(attempts)
  BY <1>1, <1>2, <1>3, <1>4 DEF Last
<1>6. NewAttempt(fp).sql = fp /\ ~NewAttempt(fp).executed
      /\ NewAttempt(fp).database_error = None
  BY DEF NewAttempt
<1>7. 1..Len(attempts') = (1..Len(attempts)) \cup {Len(attempts) + 1}
  BY <1>1, <1>3
<1>8. \A i \in 1..Len(attempts) : attempts[i].sql # fp
  BY <1>4
<1>9. seen' = {attempts'[i].sql : i \in 1..Len(attempts')}
  BY <1>2, <1>3, <1>4, <1>6, <1>7
<1>10. \A i, j \in 1..Len(attempts') : attempts'[i].sql = attempts'[j].sql => i = j
  BY <1>3, <1>4, <1>6, <1>7, <1>8
<1>11. \A i \in 1..Len(attempts') :
            /\ ~(attempts'[i].executed /\ attempts'[i].database_error # None)
            /\ attempts'[i].executed \/ attempts'[i].database_error # None =>
                   attempts'[i].validation = "valid"
  BY <1>3, <1>4, <1>6, <1>7
<1>12. attempts' # <<>> /\ repair_count' = Len(attempts') - 1
  BY <1>1, <1>3, <1>5
<1>13. seen' \subseteq Fingerprints
  BY <1>2 DEF TypeOK
<1> QED
  BY <1>2, <1>3, <1>5, <1>9, <1>10, <1>11, <1>12, <1>13 DEF HistoryValid

\* a is the last attempt with what validation or execution found.
LEMMA ReplaceHistory ==
  ASSUME TypeOK, HistoryValid, attempts # <<>>, NEW a \in SQLAttempt,
         a.sql = current.sql, ~(a.executed /\ a.database_error # None),
         a.executed \/ a.database_error # None => a.validation = "valid",
         ReplaceCurrent(a)
  PROVE  /\ attempts' \in Seq(SQLAttempt) /\ HistoryValid'
         /\ Len(attempts') = Len(attempts) /\ attempts' # <<>>
         /\ seen' = seen /\ repair_count' = repair_count /\ current' = a
         /\ attempts'[Len(attempts)] = a
         /\ \A i \in 1..Len(attempts) :
               i # Len(attempts) => attempts'[i] = attempts[i]
<1>1. attempts \in Seq(SQLAttempt) /\ Len(attempts) \in Nat \ {0}
  BY DEF TypeOK
<1>2. /\ attempts' = [attempts EXCEPT ![Len(attempts)] = a] /\ seen' = seen
      /\ current' = Last(attempts') /\ repair_count' = repair_count
  BY DEF ReplaceCurrent, HistoryUpdate
<1>3. /\ attempts' \in Seq(SQLAttempt) /\ Len(attempts') = Len(attempts)
      /\ \A i \in 1..Len(attempts) :
            attempts'[i] = IF i = Len(attempts) THEN a ELSE attempts[i]
  BY <1>1, <1>2, ExceptSeq
<1>4. /\ repair_count = Len(attempts) - 1
      /\ seen = {attempts[i].sql : i \in 1..Len(attempts)}
      /\ \A i, j \in 1..Len(attempts) : attempts[i].sql = attempts[j].sql => i = j
      /\ current = attempts[Len(attempts)]
      /\ \A i \in 1..Len(attempts) :
            /\ ~(attempts[i].executed /\ attempts[i].database_error # None)
            /\ attempts[i].executed \/ attempts[i].database_error # None =>
                   attempts[i].validation = "valid"
  BY <1>1 DEF HistoryValid, Last
<1>5. \A i \in 1..Len(attempts) : attempts'[i].sql = attempts[i].sql
  BY <1>1, <1>3, <1>4
<1>6. current' = a /\ attempts' # <<>>
  BY <1>1, <1>2, <1>3 DEF Last
<1>7. \A i \in 1..Len(attempts') :
            /\ ~(attempts'[i].executed /\ attempts'[i].database_error # None)
            /\ attempts'[i].executed \/ attempts'[i].database_error # None =>
                   attempts'[i].validation = "valid"
  BY <1>3, <1>4
<1>8. seen' = {attempts'[i].sql : i \in 1..Len(attempts')}
  <2>1. seen' = {attempts[i].sql : i \in 1..Len(attempts)}
    BY <1>2, <1>4
  <2>2. {attempts[i].sql : i \in 1..Len(attempts)}
           = {attempts'[i].sql : i \in 1..Len(attempts)}
    BY <1>5
  <2>3. QED
    BY <1>3, <2>1, <2>2
<1>9. \A i, j \in 1..Len(attempts') :
            attempts'[i].sql = attempts'[j].sql => i = j
  BY <1>3, <1>4, <1>5
<1>10. HistoryValid'
  <2>1. current' = Last(attempts') /\ repair_count' = Len(attempts') - 1
    BY <1>2, <1>3, <1>4
  <2>2. QED
    BY <1>6, <1>7, <1>8, <1>9, <2>1 DEF HistoryValid
<1>11. Len(attempts) \in 1..Len(attempts)
  BY <1>1
<1> QED
  BY <1>2, <1>3, <1>6, <1>10, <1>11

-----------------------------------------------------------------------------
(* generate_sql                                                              *)

LEMMA ModelAsksStep == ASSUME IInv, ModelAsks PROVE IInv'
<1>1. /\ Bounds /\ TypeOK /\ StateValid /\ StepBudget /\ BeforeAnswer
      /\ AfterAnswer /\ Verdict /\ CallBudget /\ Established
  BY Sizes DEF IInv
<1>2. /\ node = "generate_sql"
      /\ step_count' = step_count + 1 /\ expired' = expired
      /\ error_type' = "AMBIGUOUS_SEMANTICS" /\ public_error' = NoPublicError
      /\ repair_strategy' = None
      /\ calls' = [routing |-> calls.routing + 1, generation |-> calls.generation + 1]
      /\ UNCHANGED <<scopeVars, decision, attemptVars, retries, terminalVars>>
  BY DEF ModelAsks, Generates, Runs, Step, Observe
<1>3. PICK fs \in SUBSET link.fields : link' = [link EXCEPT !.selected = fs]
  BY DEF ModelAsks, Select
<1>4. node' = "clarification"
  BY <1>2 DEF ModelAsks, Step, Route, Failed, Semantic
<1>5. Len(attempts) <= MaxRepairs
  BY <1>1, <1>2 DEF BeforeAnswer, Bounds
<1>6. /\ link' \in SchemaLink /\ RetrievalValid'
      /\ link'.selected \subseteq link'.fields
      /\ link'.snapshot = link.snapshot /\ link'.pool = link.pool
  BY <1>1, <1>3 DEF TypeOK, StateValid, RetrievalValid, SchemaLink, Optional
<1> USE DEF attemptVars, terminalVars, scopeVars
<1>7. TypeOK' /\ StepBudget'
  <2>1. step_count' <= 7 * MaxRepairs + 6 /\ step_count' \in 0..MaxSteps
    <3>1. step_count <= 7 * Len(attempts) + 5
      BY <1>1, <1>2 DEF StepBudget
    <3>2. /\ step_count \in Nat /\ Len(attempts) \in Nat /\ MaxRepairs \in Nat
          /\ MaxSteps \in Nat /\ 7 * MaxRepairs + 11 <= MaxSteps
      BY <1>1 DEF Bounds
    <3> QED
      BY <1>2, <1>5, <3>1, <3>2
  <2>2. calls' \in [routing : Nat, generation : Nat]
    BY <1>1, <1>2 DEF TypeOK
  <2>3. StepBudget'
    BY <1>1, <1>4, <2>1 DEF StepBudget, Bounds
  <2>4. QED
    BY <1>1, <1>2, <1>4, <1>6, <2>1, <2>2, <2>3 DEF TypeOK, NodeNames, Optional, ErrorTypes
<1>8. StateValid' /\ TerminalValid'
  BY <1>1, <1>2, <1>6, SameHistory, StillOpen DEF StateValid
<1>9. CutStops' /\ Established' /\ BeforeAnswer' /\ AfterAnswer'
  BY <1>1, <1>2, <1>4, <1>6 DEF CutStops, Established, BeforeAnswer, AfterAnswer,
     NoPublicError, InternalError, TimeoutError, StepLimitError, PublicError
<1>10. Verdict' /\ Late'
  BY <1>1, <1>2, <1>4 DEF Verdict, Late, Semantic
<1>11. CallBudget'
  BY <1>1, <1>2, <1>4, <1>5 DEF CallBudget, Bounds, TypeOK
<1> QED BY <1>7, <1>8, <1>9, <1>10, <1>11 DEF IInv

LEMMA ModelAnswersStep == ASSUME IInv, ModelAnswers PROVE IInv'
<1>1. /\ Bounds /\ TypeOK /\ StateValid /\ StepBudget /\ BeforeAnswer
      /\ AfterAnswer /\ Verdict /\ CallBudget /\ Established
  BY Sizes DEF IInv
<1>2. PICK fp \in Fingerprints : Answer(fp)
  BY DEF ModelAnswers
<1>3. PICK fs \in SUBSET link.fields : link' = [link EXCEPT !.selected = fs]
  BY DEF ModelAnswers, Select
<1>4. /\ node = "generate_sql"
      /\ step_count' = step_count + 1 /\ expired' = expired
      /\ calls' = [routing |-> calls.routing + 1, generation |-> calls.generation + 1]
      /\ UNCHANGED <<scopeVars, decision, retries, terminalVars>>
      /\ node' = Route'["generate_sql"]
  BY DEF ModelAnswers, Generates, Runs, Step, Observe
<1>5. /\ Len(attempts) <= MaxRepairs
      /\ attempts # <<>> => repair_count < MaxRepairs
  BY <1>1, <1>4 DEF BeforeAnswer, Bounds
<1>6. /\ link' \in SchemaLink /\ RetrievalValid'
      /\ link'.selected \subseteq link'.fields
      /\ link'.snapshot = link.snapshot /\ link'.pool = link.pool
  BY <1>1, <1>3 DEF TypeOK, StateValid, RetrievalValid, SchemaLink, Optional
<1>7. /\ calls' \in [routing : Nat, generation : Nat]
      /\ calls'.generation <= calls'.routing /\ calls'.routing <= MaxRepairs + 1
      /\ calls'.routing = Len(attempts) + 1
  BY <1>1, <1>4, <1>5 DEF TypeOK, CallBudget, Bounds
<1>8. CASE attempts # <<>> /\ fp \in seen
  <2>1. /\ public_error' \in PublicErrors /\ error_type' = public_error'.type
        /\ UNCHANGED <<attemptVars, repair_strategy>>
    BY <1>2, <1>8, Published DEF Answer, Fail
  <2>2. node' = "finalize"
    BY <1>4, <2>1, PublishedFails DEF Route
  <2>3. Stops
    BY <1>1, <1>4, <1>6, <1>7, <2>1, <2>2 DEF Stops, TypeOK
  <2>4. QED
    BY <2>3, StopsStep
<1>9. CASE ~(attempts # <<>> /\ fp \in seen)
  <2>1. fp \notin seen /\ HistoryValid
    BY <1>1, <1>9 DEF StateValid, HistoryValid
  <2>2. /\ Register(fp) /\ error_type' = None /\ public_error' = NoPublicError
        /\ repair_strategy' = None
    BY <1>1, <1>2, <1>5, <1>9 DEF Answer, Clear, Bounds
  <2>3. node' = "validate_sql"
    BY <1>4, <2>2, NoneIsNew DEF Route, Failed, Semantic
  <2>4. /\ attempts' \in Seq(SQLAttempt) /\ seen' \subseteq Fingerprints
        /\ HistoryValid' /\ repair_count' = Len(attempts)
        /\ Len(attempts') = Len(attempts) + 1 /\ attempts' # <<>>
        /\ current' = NewAttempt(fp) /\ current' \in SQLAttempt
        /\ ~current'.executed /\ current'.database_error = None
        /\ current'.validation = None
        /\ \A i \in 1..Len(attempts) : attempts'[i] = attempts[i]
    <3>1. NewAttempt(fp) \in SQLAttempt
      BY DEF NewAttempt, SQLAttempt
    <3>2. /\ attempts' \in Seq(SQLAttempt) /\ seen' \subseteq Fingerprints
          /\ HistoryValid' /\ repair_count' = Len(attempts)
          /\ Len(attempts') = Len(attempts) + 1 /\ current' = NewAttempt(fp)
          /\ \A i \in 1..Len(attempts) : attempts'[i] = attempts[i]
      BY <1>1, <2>1, <2>2, RegisterHistory
    <3>3. attempts' # <<>>
      BY <1>1, <3>2 DEF Bounds
    <3>4. QED
      BY <3>1, <3>2, <3>3 DEF NewAttempt
  <2>5. \A i \in 1..Len(attempts) : ~attempts[i].executed
    BY <1>1, <1>4 DEF AfterAnswer, StateValid, HistoryValid, Last, Bounds
  <2>6. step_count' + 1 <= 7 * Len(attempts') /\ step_count' \in 0..MaxSteps
        /\ step_count' <= 7 * MaxRepairs + 10
    BY <1>1, <1>4, <1>5, <2>4 DEF StepBudget, Bounds
  <2>7. StepBudget'
    BY <2>3, <2>6 DEF StepBudget
  <2>8. TypeOK'
    BY <1>1, <1>4, <1>5, <1>6, <1>7, <2>2, <2>3, <2>4, <2>6
       DEF TypeOK, NodeNames, Optional, scopeVars, terminalVars, Bounds
  <2>9. StateValid' /\ TerminalValid'
    BY <1>4, <1>6, <2>4, StillOpen DEF StateValid, terminalVars
  <2>10. CutStops' /\ Established' /\ BeforeAnswer'
    BY <1>1, <1>4, <1>6, <2>2, <2>3 DEF CutStops, Established, BeforeAnswer,
       scopeVars, Failed, NoPublicError, InternalError, TimeoutError,
       StepLimitError, PublicError
  <2>11. AfterAnswer'
    <3>1. \A i \in 1..Len(attempts') : i # Len(attempts') => ~attempts'[i].executed
      BY <2>4, <2>5, <1>1 DEF Bounds
    <3>2. QED
      BY <2>2, <2>3, <2>4, <3>1 DEF AfterAnswer, Failed
  <2>12. Verdict' /\ Late' /\ CallBudget'
    BY <1>1, <1>4, <1>7, <2>3, <2>4 DEF Verdict, Late, CallBudget, terminalVars
  <2>13. QED
    BY <2>7, <2>8, <2>9, <2>10, <2>11, <2>12 DEF IInv
<1> QED BY <1>8, <1>9

-----------------------------------------------------------------------------
(* validate_sql, execute_sql, reflect_sql                                  *)

\* What both nodes do to the current attempt: they add a verdict to it.
Judges(n, a) ==
    /\ n \in {"validate_sql", "execute_sql"} /\ node = n
    /\ step_count' = step_count + 1 /\ expired' = expired
    /\ attempts # <<>> /\ ReplaceCurrent(a)
    /\ a \in SQLAttempt /\ a.sql = current.sql
    /\ ~(a.executed /\ a.database_error # None)
    /\ a.executed \/ a.database_error # None => a.validation = "valid"
    /\ retries' \in [counted : Nat, reported : Nat]
    /\ UNCHANGED <<repair_strategy, scopeVars, decision, link, calls,
                   terminalVars>>
    /\ \/ n = "validate_sql" /\ node' = "execute_sql" /\ error_type' = None
          /\ public_error' = NoPublicError
          /\ a.validation = "valid" /\ ~a.executed /\ a.database_error = None
       \/ n = "execute_sql" /\ node' = "finalize" /\ error_type' = None
          /\ public_error' = NoPublicError /\ a.executed
       \/ /\ node' = IF error_type' \in Repairable THEN "reflect_sql" ELSE "finalize"
          /\ public_error' \in PublicErrors /\ error_type' = public_error'.type
          /\ public_error'.code \in CollaboratorCodes
          /\ error_type' = AttemptError(a) /\ ~a.executed

LEMMA JudgesStep ==
  ASSUME IInv, NEW n, NEW a, Judges(n, a) PROVE IInv'
<1>1. /\ Bounds /\ TypeOK /\ StateValid /\ StepBudget /\ BeforeAnswer
      /\ AfterAnswer /\ Verdict /\ CallBudget /\ Established
  BY Sizes DEF IInv
<1>2. /\ attempts' \in Seq(SQLAttempt) /\ HistoryValid'
      /\ Len(attempts') = Len(attempts) /\ attempts' # <<>>
      /\ seen' = seen /\ repair_count' = repair_count /\ current' = a
      /\ \A i \in 1..Len(attempts) :
            i # Len(attempts) => attempts'[i] = attempts[i]
  BY <1>1, ReplaceHistory DEF Judges, StateValid
<1>3. /\ n \in {"validate_sql", "execute_sql"} /\ node = n
      /\ step_count' = step_count + 1 /\ expired' = expired /\ attempts # <<>>
      /\ a \in SQLAttempt /\ retries' \in [counted : Nat, reported : Nat]
      /\ UNCHANGED <<repair_strategy, scopeVars, decision, link, calls,
                     terminalVars>>
      /\ node' \in {"execute_sql", "reflect_sql", "finalize"}
      /\ node' = "execute_sql" => n = "validate_sql"
  BY DEF Judges
<1>4. /\ error_type' = None \/ error_type' \in ErrorTypes
      /\ public_error' \in PublicErrors \cup {NoPublicError}
  BY DEF Judges, PublicErrors
<1>5. public_error' \notin {InternalError, TimeoutError, StepLimitError}
  BY DEF Judges, CollaboratorCodes, InternalError, TimeoutError, StepLimitError,
         PublicError, NoPublicError
<1>6. /\ step_count' \in 0..MaxSteps
      /\ step_count' <= 7 * Len(attempts) + 1
      /\ node' = "execute_sql" => step_count' <= 7 * Len(attempts)
      /\ step_count' <= 7 * MaxRepairs + 9 /\ step_count' <= 7 * MaxRepairs + 10
  BY <1>1, <1>3 DEF StepBudget, Bounds
<1>7. StepBudget'
  BY <1>2, <1>3, <1>6 DEF StepBudget
<1>8. TypeOK'
  BY <1>1, <1>2, <1>3, <1>4, <1>6
     DEF TypeOK, NodeNames, Optional, scopeVars, terminalVars
<1>9. StateValid' /\ TerminalValid'
  BY <1>1, <1>2, <1>3, StillOpen DEF StateValid, RetrievalValid, terminalVars
<1>10. CutStops' /\ Established' /\ BeforeAnswer'
  BY <1>1, <1>3, <1>5 DEF CutStops, Established, BeforeAnswer, scopeVars
<1>11. AfterAnswer'
  <2>1. \A i \in 1..Len(attempts') : i # Len(attempts') => ~attempts'[i].executed
    BY <1>1, <1>2 DEF AfterAnswer
  <2>2. node' = "execute_sql" =>
            /\ error_type' = None /\ ~Failed' /\ ~a.executed
            /\ a.database_error = None /\ a.validation = "valid"
    BY DEF Judges, Failed
  <2>3. node' = "reflect_sql" =>
            /\ Failed' /\ public_error'.type = error_type'
            /\ error_type' = AttemptError(a) /\ error_type' \in Repairable
    BY PublishedFails DEF Judges
  <2>4. a.executed => node' = "finalize"
    BY DEF Judges
  <2>5. repair_strategy' = None
    BY <1>1, <1>3 DEF AfterAnswer
  <2>6. QED
    BY <1>2, <1>3, <2>1, <2>2, <2>3, <2>4, <2>5 DEF AfterAnswer, AttemptError
<1>12. Verdict' /\ Late' /\ CallBudget'
  <2>1. node' = "finalize" =>
            \/ a.executed /\ error_type' = None /\ ~Failed'
            \/ ~a.executed /\ Failed' /\ public_error'.type = error_type'
    BY PublishedFails DEF Judges, Failed
  <2>2. QED
    BY <1>1, <1>2, <1>3, <2>1 DEF Verdict, Late, CallBudget, terminalVars
<1> QED
  BY <1>7, <1>8, <1>9, <1>10, <1>11, <1>12 DEF IInv

LEMMA ValidatesStep ==
  ASSUME IInv, ValidationPasses \/ ValidationRejects PROVE IInv'
<1>1. TypeOK /\ StateValid /\ AfterAnswer
  BY DEF IInv
<1>2. /\ node = "validate_sql" /\ attempts # <<>> /\ current \in SQLAttempt
      /\ ~current.executed /\ current.database_error = None
      /\ step_count' = step_count + 1 /\ expired' = expired
      /\ UNCHANGED <<repair_strategy, scopeVars, decision, link, calls, retries,
                     terminalVars>>
      /\ retries' \in [counted : Nat, reported : Nat]
      /\ node' = ValidationRoute'
  <2>1. attempts # <<>> => current \in SQLAttempt
    BY <1>1 DEF StateValid, HistoryValid, TypeOK, Last
  <2>2. QED
    BY <1>1, <2>1 DEF ValidationPasses, ValidationRejects, Validates, Runs, Step,
       Route, AfterAnswer, TypeOK
<1>3. CASE ValidationPasses
  <2> DEFINE a == [current EXCEPT !.validation = "valid"]
  <2>1. /\ a \in SQLAttempt /\ a.sql = current.sql /\ a.validation = "valid"
        /\ ~a.executed /\ a.database_error = None
    BY <1>2 DEF SQLAttempt
  <2>2. ReplaceCurrent(a) /\ error_type' = None /\ public_error' = NoPublicError
    BY <1>3 DEF ValidationPasses, Clear
  <2>3. current' = a
    BY <1>1, <1>2, <2>1, <2>2, ReplaceHistory DEF StateValid
  <2>4. node' = "execute_sql"
    BY <1>2, <2>1, <2>3 DEF ValidationRoute
  <2>5. Judges("validate_sql", a)
    BY <1>2, <2>1, <2>2, <2>4 DEF Judges
  <2>6. QED
    BY <2>5, JudgesStep
<1>4. CASE ValidationRejects
  <2>1. PICK e \in ValidationIssues :
            /\ ReplaceCurrent([current EXCEPT !.validation = e])
            /\ Fail(PublicError(e, "VALIDATION"))
    BY <1>4 DEF ValidationRejects
  <2> DEFINE a == [current EXCEPT !.validation = e]
  <2>2. /\ a \in SQLAttempt /\ a.sql = current.sql /\ a.validation = e
        /\ ~a.executed /\ a.database_error = None
    BY <1>2 DEF SQLAttempt
  <2>3. current' = a
    BY <1>1, <1>2, <2>1, <2>2, ReplaceHistory DEF StateValid
  <2>4. /\ public_error' \in PublicErrors /\ error_type' = public_error'.type
        /\ public_error'.code \in CollaboratorCodes /\ error_type' = e
    BY <2>1, Published DEF Fail, PublicError, CollaboratorCodes
  <2>5. e # "valid" /\ e \notin Semantic /\ e # None
    BY WorkflowAssumption DEF ValidationIssues, Semantic, ErrorTypes
  <2>6. node' = IF error_type' \in Repairable THEN "reflect_sql" ELSE "finalize"
    BY <1>2, <2>2, <2>3, <2>4, <2>5 DEF ValidationRoute, Reflectable
  <2>7. AttemptError(a) = e
    BY <2>2 DEF AttemptError
  <2>8. Judges("validate_sql", a)
    BY <1>2, <2>1, <2>2, <2>4, <2>6, <2>7 DEF Judges
  <2>9. QED
    BY <2>8, JudgesStep
<1> QED
  BY <1>3, <1>4

LEMMA ExecutesStep ==
  ASSUME IInv, ExecutionSucceeds \/ ExecutionFails PROVE IInv'
<1>1. TypeOK /\ StateValid /\ AfterAnswer
  BY DEF IInv
<1>2. /\ node = "execute_sql" /\ attempts # <<>> /\ current \in SQLAttempt
      /\ ~current.executed /\ current.database_error = None
      /\ current.validation = "valid"
      /\ step_count' = step_count + 1 /\ expired' = expired
      /\ UNCHANGED <<repair_strategy, scopeVars, decision, link, calls,
                     terminalVars>>
      /\ retries' \in [counted : Nat, reported : Nat]
      /\ node' = ExecutionRoute'
  <2>1. attempts # <<>> => current \in SQLAttempt
    BY <1>1 DEF StateValid, HistoryValid, TypeOK, Last
  <2>2. Executes /\ Step("execute_sql")
    BY DEF ExecutionSucceeds, ExecutionFails
  <2>3. retries' \in [counted : Nat, reported : Nat]
    BY <1>1, <2>2, RetriedType DEF Executes
  <2>4. QED
    BY <1>1, <2>1, <2>2, <2>3 DEF Executes, Runs, Step, Route, AfterAnswer
<1>3. CASE ExecutionSucceeds
  <2> DEFINE a == [current EXCEPT !.executed = TRUE]
  <2>1. /\ a \in SQLAttempt /\ a.sql = current.sql /\ a.validation = "valid"
        /\ a.executed /\ a.database_error = None
    BY <1>2 DEF SQLAttempt
  <2>2. ReplaceCurrent(a) /\ error_type' = None /\ public_error' = NoPublicError
    BY <1>3 DEF ExecutionSucceeds, Clear
  <2>3. current' = a
    BY <1>1, <1>2, <2>1, <2>2, ReplaceHistory DEF StateValid
  <2>4. node' = "finalize"
    BY <1>2, <2>1, <2>3 DEF ExecutionRoute
  <2>5. Judges("execute_sql", a)
    BY <1>2, <2>1, <2>2, <2>4 DEF Judges
  <2>6. QED
    BY <2>5, JudgesStep
<1>4. CASE ExecutionFails
  <2>1. PICK e \in DatabaseErrors :
            /\ ReplaceCurrent([current EXCEPT !.database_error = e])
            /\ Fail(PublicError(e, "DATABASE"))
    BY <1>4 DEF ExecutionFails
  <2> DEFINE a == [current EXCEPT !.database_error = e]
  <2>2. /\ a \in SQLAttempt /\ a.sql = current.sql /\ a.validation = "valid"
        /\ ~a.executed /\ a.database_error = e
    BY <1>2 DEF SQLAttempt
  <2>3. current' = a
    BY <1>1, <1>2, <2>1, <2>2, ReplaceHistory DEF StateValid
  <2>4. /\ public_error' \in PublicErrors /\ error_type' = public_error'.type
        /\ public_error'.code \in CollaboratorCodes /\ error_type' = e
    BY <2>1, Published DEF Fail, PublicError, CollaboratorCodes
  <2>5. e \notin Semantic /\ e # None
    BY WorkflowAssumption DEF DatabaseErrors, Semantic, ErrorTypes
  <2>6. node' = IF error_type' \in Repairable THEN "reflect_sql" ELSE "finalize"
    BY <1>2, <2>2, <2>3, <2>4, <2>5 DEF ExecutionRoute, Reflectable
  <2>7. AttemptError(a) = e
    BY <2>2, <2>5 DEF AttemptError
  <2>8. Judges("execute_sql", a)
    BY <1>2, <2>1, <2>2, <2>4, <2>6, <2>7 DEF Judges
  <2>9. QED
    BY <2>8, JudgesStep
<1> QED
  BY <1>3, <1>4

LEMMA ReflectStep == ASSUME IInv, ReflectSql PROVE IInv'
<1>1. /\ Bounds /\ TypeOK /\ StateValid /\ StepBudget /\ BeforeAnswer /\ CutStops
      /\ AfterAnswer /\ Verdict /\ CallBudget /\ Established
  BY Sizes DEF IInv
<1>2. /\ node = "reflect_sql" /\ step_count' = step_count + 1 /\ expired' = expired
      /\ attempts # <<>> /\ Failed /\ public_error.type = error_type
      /\ error_type = AttemptError(current) /\ error_type \in Repairable
      /\ repair_strategy' = Strategy(error_type, repair_count)
      /\ UNCHANGED <<error_type, scopeVars, attemptVars, calls, retries,
                     terminalVars>>
      /\ node' = ReflectionRoute'
  BY <1>1 DEF ReflectSql, Runs, Step, AfterAnswer, Route
<1>3. CASE Exhausted(error_type, repair_count)
  <2>1. /\ public_error' = ExhaustedError(error_type) /\ repair_strategy' = None
        /\ UNCHANGED <<decision, link>>
    BY <1>2, <1>3, NoneIsNew DEF ReflectSql, Strategy, Strategies
  <2>2. public_error' \in PublicErrors /\ error_type' = public_error'.type
    BY <1>2, <2>1, Published, NoneIsNew DEF ExhaustedError, PublicError
  <2>3. node' = "finalize"
    BY <1>2, <2>1, NoneIsNew DEF ReflectionRoute, Strategies
  <2>4. Stops
    BY <1>1, <1>2, <2>1, <2>2, <2>3 DEF Stops, TypeOK, StateValid, RetrievalValid,
       CallBudget, Optional
  <2>5. QED
    BY <2>4, StopsStep
<1>4. CASE ~Exhausted(error_type, repair_count)
  <2>1. /\ repair_strategy' \in Strategies /\ repair_strategy' # None
        /\ repair_count < MaxRepairs /\ public_error' = public_error
    BY <1>1, <1>2, <1>4, NoneIsNew DEF ReflectSql, Strategy, Exhausted, RepairRoutes,
       Strategies, Repairable, Bounds
  <2>2. node' = IF repair_strategy' = "RELINK_SCHEMA" THEN "schema_linking"
                ELSE "generate_sql"
    BY <1>2, <2>1 DEF ReflectionRoute
  <2>3. /\ decision' = IF repair_strategy' = "RELINK_SCHEMA" THEN None ELSE decision
        /\ link' = IF repair_strategy' = "RELINK_SCHEMA" THEN Forget(link) ELSE link
    BY DEF ReflectSql
  <2>4. /\ link' \in SchemaLink /\ RetrievalValid'
        /\ link'.selected \subseteq link'.fields
        /\ repair_strategy' = "RELINK_SCHEMA" => link'.pool = None /\ link'.selected = {}
    BY <1>1, <2>3 DEF TypeOK, StateValid, RetrievalValid, SchemaLink, Optional, Forget
  <2>5. /\ step_count' \in 0..MaxSteps /\ step_count' <= 7 * Len(attempts) + 2
        /\ step_count' <= 7 * MaxRepairs + 10
    BY <1>1, <1>2 DEF StepBudget, Bounds
  <2>6. StepBudget'
    BY <1>1, <1>2, <2>2, <2>5 DEF StepBudget, Bounds, attemptVars
  <2>7. TypeOK'
    BY <1>1, <1>2, <2>1, <2>2, <2>3, <2>4, <2>5
       DEF TypeOK, NodeNames, Optional, scopeVars, terminalVars, attemptVars
  <2>8. StateValid' /\ TerminalValid'
    BY <1>1, <1>2, <2>4, SameHistory, StillOpen DEF StateValid, terminalVars
  <2>9. CutStops' /\ Established'
    BY <1>1, <1>2, <2>1, <2>2, <2>3, <2>4 DEF CutStops, Established, scopeVars
  <2>10. BeforeAnswer' /\ AfterAnswer'
    BY <1>1, <1>2, <2>1, <2>2, <2>3, NoneIsNew
       DEF BeforeAnswer, AfterAnswer, attemptVars, Failed
  <2>11. Verdict' /\ Late' /\ CallBudget'
    BY <1>1, <1>2, <2>2 DEF Verdict, Late, CallBudget, terminalVars, attemptVars
  <2>12. QED
    BY <2>6, <2>7, <2>8, <2>9, <2>10, <2>11 DEF IInv
<1> QED
  BY <1>3, <1>4

-----------------------------------------------------------------------------
(* finalize, and the steps that run no node                                *)

LEMMA FinalizeStep == ASSUME IInv, Finalize PROVE IInv'
<1>1. /\ Bounds /\ TypeOK /\ StateValid /\ StepBudget /\ AfterAnswer /\ Verdict
      /\ CallBudget
  BY Sizes DEF IInv
<1>2. /\ node = "finalize" /\ step_count' = step_count + 1 /\ expired' = expired
      /\ ~expired /\ final_status' = FinalStatus
      /\ UNCHANGED <<error_type, repair_strategy, scopeVars, decision, link,
                     attemptVars, calls, retries, clarification>>
      /\ node' = "end"
  BY DEF Finalize, Step, Route
<1>3. public_error' = IF final_status' \in Successes \cup {"CLARIFICATION_REQUIRED"}
                      THEN NoPublicError ELSE IF Failed THEN public_error
                      ELSE InternalError
  BY DEF Finalize
<1>4. /\ final_status' \in Statuses
      /\ current.executed =>
            final_status' = IF repair_count > 0 THEN "SUCCEEDED_REPAIRED"
                            ELSE "SUCCEEDED_FIRST_PASS"
      /\ ~current.executed /\ clarification # None =>
            final_status' = "CLARIFICATION_REQUIRED"
      /\ ~current.executed /\ clarification = None =>
            final_status' \in Failures
  BY <1>2 DEF FinalStatus, FailureStatus, Statuses, Successes, Failures
<1>5. final_status' # None
  BY <1>4, NoneIsNew
<1>6. StepBudget' /\ step_count' \in 0..MaxSteps
  BY <1>1, <1>2 DEF StepBudget, Bounds
<1>7. TypeOK'
  <2>1. public_error' \in PublicErrors \cup {NoPublicError}
    BY <1>1, <1>3, Published DEF TypeOK
  <2>2. QED
    BY <1>1, <1>2, <1>4, <1>6, <2>1
       DEF TypeOK, NodeNames, Optional, scopeVars, attemptVars
<1>8. StateValid'
  BY <1>1, <1>2, SameLink
<1>9. TerminalValid'
  <2>1. CASE current.executed
    <3>1. /\ error_type = None /\ clarification = None
      BY <1>1, <1>2, <2>1 DEF Verdict
    <3>2. current.database_error = None
      BY <1>1, <2>1 DEF StateValid, HistoryValid, Last, NoAttempt, NewAttempt, Bounds
    <3>3. final_status' \in Successes /\ final_status' \notin Failures
          /\ final_status' # "CLARIFICATION_REQUIRED"
          /\ public_error' = NoPublicError
      BY <1>3, <1>4, <2>1 DEF Successes, Failures
    <3>4. (final_status' = "SUCCEEDED_REPAIRED") = (repair_count > 0)
      BY <1>4, <2>1
    <3>5. QED
      BY <1>2, <2>1, <3>1, <3>2, <3>3, <3>4 DEF TerminalValid, attemptVars, Failed
  <2>2. CASE ~current.executed /\ clarification # None
    <3>1. error_type \in Semantic
      BY <1>1, <1>2, <2>2 DEF Verdict
    <3>2. /\ final_status' = "CLARIFICATION_REQUIRED"
          /\ final_status' \notin Successes \cup Failures
          /\ public_error' = NoPublicError
      BY <1>3, <1>4, <2>2 DEF Successes, Failures
    <3>3. QED
      BY <1>2, <2>2, <3>1, <3>2 DEF TerminalValid, attemptVars, Failed
  <2>3. CASE ~current.executed /\ clarification = None
    <3>1. Failed /\ public_error.type = error_type
      BY <1>1, <1>2, <2>3 DEF Verdict
    <3>2. /\ final_status' \in Failures /\ final_status' \notin Successes
          /\ final_status' # "CLARIFICATION_REQUIRED"
      BY <1>4, <2>3 DEF Successes, Failures
    <3>3. public_error' = public_error /\ Failed'
      BY <1>3, <3>1, <3>2 DEF Failed
    <3>4. /\ \A e \in DOMAIN FailureStatus :
                (final_status' = FailureStatus[e]) = (error_type = e)
          /\ (final_status' = "FAILED_REPAIR_EXHAUSTED") =
                Exhausted(error_type, repair_count)
      BY <1>2, <2>3 DEF FinalStatus, FailureStatus, Exhausted, Repairable
    <3>5. Exhausted(error_type, repair_count) =
              (error_type \in Repairable /\ repair_count = MaxRepairs)
      BY <1>1 DEF Exhausted, TypeOK, Bounds
    <3>6. QED
      BY <1>2, <2>3, <3>1, <3>2, <3>3, <3>4, <3>5 DEF TerminalValid, attemptVars
  <2>4. QED
    BY <2>1, <2>2, <2>3
<1>10. CutStops' /\ Established' /\ BeforeAnswer' /\ AfterAnswer'
  <2>1. decision # None => link.snapshot # None /\ (Dense => link.pool # None)
    BY DEF IInv, Established
  <2>2. QED
    BY <1>1, <1>2, <2>1 DEF CutStops, Established, BeforeAnswer, AfterAnswer,
       attemptVars
<1>11. Verdict' /\ Late' /\ CallBudget'
  BY <1>1, <1>2, <1>5 DEF Verdict, Late, CallBudget
<1> QED BY <1>6, <1>7, <1>8, <1>9, <1>10, <1>11 DEF IInv

LEMMA FinalizeRaisesStep == ASSUME IInv, FinalizeRaises PROVE IInv'
<1>1. /\ Bounds /\ TypeOK /\ StateValid /\ StepBudget /\ CallBudget
  BY Sizes DEF IInv
<1>2. /\ node = "finalize" /\ step_count' = step_count + 1 /\ expired' = expired
      /\ error_type' = "UNKNOWN" /\ public_error' = InternalError
      /\ attempts' = <<>> /\ seen' = {} /\ repair_count' = 0
      /\ current' = NoAttempt /\ repair_strategy' = None /\ clarification' = None
      /\ final_status' = "FAILED_INTERNAL"
      /\ UNCHANGED <<scopeVars, decision, link, calls, retries>>
      /\ node' = "end"
  BY DEF FinalizeRaises, Step, Route, Fail, InternalError, PublicError
<1>3. StepBudget' /\ step_count' \in 0..MaxSteps
  BY <1>1, <1>2 DEF StepBudget, Bounds
<1>4. public_error' \in PublicErrors /\ Failed' /\ public_error'.type = "UNKNOWN"
  BY <1>2, Published, PublishedFails DEF InternalError, PublicError
<1>5. TypeOK'
  BY <1>1, <1>2, <1>3, <1>4, WorkflowAssumption DEF TypeOK, NodeNames, Optional,
     scopeVars, ErrorTypes, Statuses, Failures
<1>6. StateValid'
  BY <1>1, <1>2 DEF StateValid, RetrievalValid, HistoryValid
<1>7. ~current'.executed
  BY <1>2 DEF NoAttempt, NewAttempt
<1>8. TerminalValid'
  BY <1>2, <1>4, <1>7 DEF TerminalValid, Successes, Failures, FailureStatus, Repairable
<1>9. CutStops' /\ Established' /\ BeforeAnswer'
  <2>1. decision # None => link.snapshot # None /\ (Dense => link.pool # None)
    BY DEF IInv, Established
  <2>2. QED
    BY <1>2, <2>1 DEF CutStops, Established, BeforeAnswer
<1>10. AfterAnswer'
  BY <1>2, <1>7 DEF AfterAnswer
<1>11. Verdict' /\ Late' /\ CallBudget'
  BY <1>1, <1>2, <1>7, NoneIsNew DEF Verdict, Late, CallBudget, Statuses, Failures
<1> QED BY <1>3, <1>5, <1>6, <1>8, <1>9, <1>10, <1>11 DEF IInv

LEMMA FinalizeLateStep == ASSUME IInv, FinalizeLate PROVE IInv'
<1>1. /\ Bounds /\ TypeOK /\ StateValid /\ StepBudget /\ AfterAnswer /\ CallBudget
  BY Sizes DEF IInv
<1>2. /\ node = "finalize" /\ step_count' = step_count + 1 /\ expired' = expired
      /\ error_type' = "TIMEOUT" /\ public_error' = TimeoutError
      /\ clarification' = None /\ final_status' = "FAILED_TIMEOUT"
      /\ UNCHANGED <<repair_strategy, scopeVars, decision, link, calls, retries>>
      /\ node' = "end"
  BY DEF FinalizeLate, Step, Route, Fail, TimeoutError, PublicError
<1>3. /\ attempts' \in Seq(SQLAttempt) /\ seen' \subseteq Fingerprints
      /\ repair_count' \in 0..MaxRepairs /\ current' \in SQLAttempt \cup {NoAttempt}
      /\ HistoryValid' /\ ~current'.executed /\ Len(attempts') = Len(attempts)
      /\ \A i \in 1..Len(attempts') : i # Len(attempts') => ~attempts'[i].executed
  <2>1. CASE ~current.executed
    <3>1. UNCHANGED attemptVars
      BY <2>1 DEF FinalizeLate, Withhold
    <3>2. QED
      BY <1>1, <2>1, <3>1, SameHistory DEF attemptVars, TypeOK, StateValid, AfterAnswer
  <2>2. CASE current.executed
    <3> DEFINE a == [current EXCEPT !.executed = FALSE]
    <3>1. attempts # <<>> /\ current \in SQLAttempt /\ current.database_error = None
      BY <1>1, <2>2 DEF StateValid, HistoryValid, TypeOK, Last, NoAttempt, NewAttempt,
         Bounds
    <3>2. /\ a \in SQLAttempt /\ a.sql = current.sql
          /\ ~a.executed /\ a.database_error = None
      BY <3>1 DEF SQLAttempt
    <3>3. ReplaceCurrent(a)
      BY <2>2 DEF FinalizeLate, Withhold
    <3>4. /\ attempts' \in Seq(SQLAttempt) /\ HistoryValid'
          /\ Len(attempts') = Len(attempts) /\ seen' = seen
          /\ repair_count' = repair_count /\ current' = a
          /\ \A i \in 1..Len(attempts) :
                i # Len(attempts) => attempts'[i] = attempts[i]
      BY <1>1, <3>1, <3>2, <3>3, ReplaceHistory DEF StateValid
    <3>5. \A i \in 1..Len(attempts) : i # Len(attempts) => ~attempts[i].executed
      BY <1>1 DEF AfterAnswer
    <3>6. seen \subseteq Fingerprints /\ repair_count \in 0..MaxRepairs
      BY <1>1 DEF TypeOK
    <3>7. QED
      BY <3>2, <3>4, <3>5, <3>6
  <2>3. QED
    BY <2>1, <2>2
<1>4. StepBudget' /\ step_count' \in 0..MaxSteps
  BY <1>1, <1>2 DEF StepBudget, Bounds
<1>5. public_error' \in PublicErrors /\ Failed' /\ public_error'.type = "TIMEOUT"
  BY <1>2, Published, PublishedFails DEF TimeoutError, PublicError
<1>6. TypeOK'
  BY <1>1, <1>2, <1>3, <1>4, <1>5 DEF TypeOK, NodeNames, Optional,
     scopeVars, ErrorTypes, Statuses, Failures
<1>7. StateValid'
  BY <1>1, <1>2, <1>3 DEF StateValid, RetrievalValid
<1>8. TerminalValid'
  BY <1>2, <1>3, <1>5 DEF TerminalValid, Successes, Failures, FailureStatus, Repairable
<1>9. CutStops' /\ Established' /\ BeforeAnswer' /\ AfterAnswer'
  <2>1. decision # None => link.snapshot # None /\ (Dense => link.pool # None)
    BY DEF IInv, Established
  <2>2. QED
    BY <1>2, <1>3, <2>1 DEF CutStops, Established, BeforeAnswer, AfterAnswer
<1>10. Verdict' /\ Late' /\ CallBudget'
  BY <1>1, <1>2, <1>3, NoneIsNew DEF Verdict, Late, CallBudget, Statuses, Failures
<1> QED BY <1>4, <1>6, <1>7, <1>8, <1>9, <1>10 DEF IInv

LEMMA ExpireStep == ASSUME IInv, Expire PROVE IInv'
<1>1. /\ TypeOK /\ StateValid /\ TerminalValid /\ CutStops
      /\ StepBudget /\ Established /\ BeforeAnswer /\ AfterAnswer /\ Verdict
      /\ CallBudget
  BY DEF IInv
<1>2. /\ node # "end" /\ expired'
      /\ UNCHANGED <<node, step_count, verdictVars, workVars>>
  BY DEF Expire
<1> USE DEF verdictVars, workVars, scopeVars, attemptVars, terminalVars
<1>3. TypeOK' /\ StepBudget' /\ CutStops' /\ CallBudget' /\ Late'
  BY <1>1, <1>2 DEF TypeOK, StepBudget, CutStops, CallBudget, Late
<1>4. StateValid' /\ TerminalValid'
  BY <1>1, <1>2, SameLink, StillOpen
<1>5. Established' /\ BeforeAnswer' /\ AfterAnswer' /\ Verdict'
  BY <1>1, <1>2 DEF Established, BeforeAnswer, AfterAnswer, Verdict, Failed
<1> QED BY <1>3, <1>4, <1>5 DEF IInv

LEMMA StutterStep == ASSUME IInv, UNCHANGED vars PROVE IInv'
<1>1. /\ TypeOK /\ StateValid /\ TerminalValid /\ CutStops
      /\ StepBudget /\ Established /\ BeforeAnswer /\ AfterAnswer /\ Verdict
      /\ CallBudget /\ Late
  BY DEF IInv
<1> USE DEF vars, verdictVars, workVars, scopeVars, attemptVars, terminalVars
<1>2. TypeOK' /\ StepBudget' /\ CutStops' /\ CallBudget' /\ Late'
  BY <1>1 DEF TypeOK, StepBudget, CutStops, CallBudget, Late
<1>3. StateValid' /\ TerminalValid'
  BY <1>1, SameLink DEF TerminalValid, Failed
<1>4. Established' /\ BeforeAnswer' /\ AfterAnswer' /\ Verdict'
  BY <1>1 DEF Established, BeforeAnswer, AfterAnswer, Verdict, Failed
<1> QED BY <1>2, <1>3, <1>4 DEF IInv

-----------------------------------------------------------------------------
(* The invariant is inductive                                              *)

LEMMA InitInv == Init => IInv
<1> SUFFICES ASSUME Init PROVE IInv
  OBVIOUS
<1>1. TypeOK
  <2>1. link \in SchemaLink
    BY DEF Init, NoLink, SchemaLink, Optional
  <2>2. attempts \in Seq(SQLAttempt) /\ step_count \in 0..MaxSteps
        /\ repair_count \in 0..MaxRepairs
    BY WorkflowAssumption DEF Init
  <2>3. QED
    BY <2>1, <2>2 DEF Init, TypeOK, NodeNames, Optional
<1>2. StateValid
  BY DEF Init, StateValid, RetrievalValid, HistoryValid, NoLink
<1>3. TerminalValid
  BY NoneIsNew DEF Init, TerminalValid, Statuses
<1>4. StepBudget
  <2>1. step_count = 0 /\ node = "request_preprocess"
    BY DEF Init
  <2>2. QED
    BY <2>1, WorkflowAssumption DEF StepBudget
<1>5. CutStops /\ Established /\ Late
  BY DEF Init, CutStops, Established, Late, NoLink, NoPublicError, InternalError,
     TimeoutError, StepLimitError, PublicError
<1>6. BeforeAnswer /\ AfterAnswer /\ Verdict
  BY DEF Init, BeforeAnswer, AfterAnswer, Verdict, Failed, NoAttempt, NewAttempt
<1>7. CallBudget
  BY WorkflowAssumption DEF Init, CallBudget
<1> QED BY <1>1, <1>2, <1>3, <1>4, <1>5, <1>6, <1>7 DEF IInv

LEMMA NextInv == IInv /\ [Next]_vars => IInv'
<1> SUFFICES ASSUME IInv, [Next]_vars PROVE IInv'
  OBVIOUS
<1>1. CASE \E n \in NodeNames : Interrupted(n) \/ NodeRaises(n)
  BY <1>1, CutStopsNode, StopsStep
<1>2. CASE InvalidRequest \/ Preprocess \/ PermissionDenied \/ PermissionGranted
  BY <1>2, RequestFailsStop, StopsStep, PreprocessStep, PermissionGrantedStep
<1>3. CASE MetadataFails \/ RetrievalFails \/ NoCandidates \/ Probe \/ Materialize
  BY <1>3, SchemaFailsStop, StopsStep, NoCandidatesStep, ProbeStep, MaterializeStep
<1>4. CASE ComplexityRoute
  BY <1>4, ComplexityRouteStep
<1>5. CASE ContextOverflows \/ ModelFails \/ ModelAsks \/ ModelAnswers
  BY <1>5, GenerationFailsStop, StopsStep, ModelAsksStep, ModelAnswersStep
<1>6. CASE ValidationPasses \/ ValidationRejects \/ ExecutionSucceeds \/ ExecutionFails
  BY <1>6, ValidatesStep, ExecutesStep
<1>7. CASE ReflectSql \/ Clarify
  BY <1>7, ReflectStep, ClarifyStep
<1>8. CASE Finalize \/ FinalizeLate \/ FinalizeRaises
  BY <1>8, FinalizeStep, FinalizeLateStep, FinalizeRaisesStep
<1>9. CASE Expire \/ Returned \/ UNCHANGED vars
  BY <1>9, ExpireStep, StutterStep DEF Returned
<1> QED
  BY <1>1, <1>2, <1>3, <1>4, <1>5, <1>6, <1>7, <1>8, <1>9 DEF Next, RunNode

\* Every state of a request satisfies the inductive invariant: what a node
\* finds when it runs is what all paths to it have in common.
THEOREM Invariant == Spec => []IInv
<1> QED BY InitInv, NextInv, PTL DEF Spec

-----------------------------------------------------------------------------
(* What the invariant is for                                               *)

\* The fields of SQLTaskState keep the types and bounds models.py declares.
THEOREM TypeCorrect == Spec => []TypeOK
<1>1. IInv => TypeOK
  BY DEF IInv
<1> QED BY <1>1, Invariant, PTL

\* validate_workflow_invariants accepts the state every node leaves: LangGraph
\* never loses a request to it, and a finished request tells one story.
THEOREM ValidatorAccepts == Spec => []StateAccepted
<1>1. IInv => StateAccepted
  BY DEF IInv, StateAccepted
<1> QED BY <1>1, Invariant, PTL

\* No assertion and no internal guard of a node's own code ever fails.
THEOREM ChecksHold == Spec => []OwnChecksHold
<1>1. IInv => OwnChecksHold
  <2> SUFFICES ASSUME IInv, Runs(node) PROVE Checks(node)
    BY DEF OwnChecksHold
  <2>1. /\ Bounds /\ TypeOK /\ Established /\ BeforeAnswer /\ AfterAnswer
        /\ node \in NodeNames \cup {"end"}
    BY Sizes DEF IInv, TypeOK
  <2>2. \A e \in Repairable : e # None
    BY NoneIsNew
  <2>3. error_type \in Repairable /\ repair_count < MaxRepairs =>
            Strategy(error_type, repair_count) # None
    BY NoneIsNew, <2>1 DEF Strategy, Exhausted, RepairRoutes, Strategies, Repairable,
       Bounds
  <2>4. node \in {"schema_linking", "complexity_route"} => Checks(node)
    BY <2>1 DEF Checks, Established
  <2>5. node = "generate_sql" => Checks(node)
    <3> SUFFICES ASSUME node = "generate_sql" PROVE Checks(node)
      OBVIOUS
    <3>1. normalized /\ decision # None /\ link.snapshot # None
      BY <2>1 DEF Established
    <3>2. attempts # <<>> =>
              /\ error_type # None /\ repair_strategy # None
              /\ AttemptError(current) \in Repairable /\ Len(attempts) <= MaxRepairs
      BY <2>1, <2>2, <2>3 DEF BeforeAnswer, Bounds
    <3>3. QED
      BY <3>1, <3>2 DEF Checks
  <2>6. node \in {"validate_sql", "execute_sql"} => Checks(node)
    BY <2>1 DEF Checks, Established, AfterAnswer
  <2>7. node = "reflect_sql" => Checks(node)
    BY <2>1, <2>2 DEF Checks, AfterAnswer
  <2>8. node \notin {"schema_linking", "complexity_route", "generate_sql",
                     "validate_sql", "execute_sql", "reflect_sql"} => Checks(node)
    BY DEF Checks
  <2> QED BY <2>4, <2>5, <2>6, <2>7, <2>8
<1> QED BY <1>1, Invariant, PTL

\* MAX_WORKFLOW_STEPS leaves room for every repair, whatever each of them links.
THEOREM StepLimitSpare == Spec => []StepLimitUnreached
<1>1. IInv => StepLimitUnreached
  <2> SUFFICES ASSUME IInv, node \notin {"finalize", "end"} PROVE ~StepLimitReached
    BY DEF StepLimitUnreached
  <2>1. Bounds /\ StepBudget /\ BeforeAnswer /\ node \in NodeNames
    BY Sizes DEF IInv, TypeOK
  <2>2. step_count <= 7 * MaxRepairs + 8
    BY <2>1 DEF NodeNames, Bounds, StepBudget, BeforeAnswer
  <2> QED BY <2>1, <2>2 DEF StepLimitReached, Bounds
<1> QED BY <1>1, Invariant, PTL

\* The model is called once per attempt and at most MaxRepairs + 1 times.
THEOREM CallsBounded == Spec => []CallsMatchAttempts
<1>1. IInv => CallsMatchAttempts
  BY DEF IInv, CallBudget, CallsMatchAttempts
<1> QED BY <1>1, Invariant, PTL

\* A request stays within its steps and its model calls.
THEOREM LimitsKept == Spec => []WithinLimits
<1>1. WithinLimits <=> StepLimitUnreached /\ CallsMatchAttempts
  BY DEF WithinLimits
<1> QED BY <1>1, StepLimitSpare, CallsBounded, PTL

\* What a cut or raising node leaves behind leads the routes to finalize.
THEOREM CutsStop == Spec => []CutStops
<1>1. IInv => CutStops
  BY DEF IInv
<1> QED BY <1>1, Invariant, PTL

\* A repair is generated for the last attempt's own error, relinked or not.
THEOREM RepairMatches == Spec => []RepairContextMatches
<1>1. IInv => RepairContextMatches
  <2> SUFFICES ASSUME IInv, node = "generate_sql", attempts # <<>>
               PROVE  /\ error_type = AttemptError(Last(attempts))
                      /\ repair_strategy = Strategy(error_type, repair_count)
                      /\ repair_strategy = "RELINK_SCHEMA" => decision = "complex"
    BY DEF RepairContextMatches
  <2>1. current = Last(attempts)
    BY DEF IInv, StateValid, HistoryValid
  <2>2. BeforeAnswer /\ decision # None
    BY DEF IInv, Established
  <2> QED BY <2>1, <2>2 DEF BeforeAnswer
<1> QED BY <1>1, Invariant, PTL

\* finalize always finds rows, a clarification or a published error.
THEOREM VerdictReady == Spec => []VerdictAtFinalize
<1>1. IInv => VerdictAtFinalize
  BY DEF IInv, Verdict, VerdictAtFinalize
<1> QED BY <1>1, Invariant, PTL

\* A late request returns no rows of any attempt.
THEOREM LateRefused == Spec => []LateIsTimeout
<1>1. IInv => LateIsTimeout
  <2> SUFFICES ASSUME IInv, node = "end", expired
               PROVE  /\ \A i \in 1..Len(attempts) : ~attempts[i].executed
                      /\ clarification = None
                      /\ final_status = "FAILED_TIMEOUT" \/ public_error = InternalError
    BY DEF LateIsTimeout
  <2>1. Late /\ AfterAnswer /\ StateValid /\ Bounds
    BY Sizes DEF IInv
  <2>2. attempts # <<>> => ~attempts[Len(attempts)].executed
    BY <2>1 DEF Late, StateValid, HistoryValid, Last
  <2> QED BY <2>1, <2>2 DEF Late, AfterAnswer, Bounds
<1> QED BY <1>1, Invariant, PTL

\* Cuts lead to finalize alone, finalize has a verdict, lateness no result.
THEOREM EndTold == Spec => []EndsAsTold
<1>1. EndsAsTold <=> CutStops /\ VerdictAtFinalize /\ LateIsTimeout
  BY DEF EndsAsTold
<1> QED BY <1>1, CutsStop, VerdictReady, LateRefused, PTL

-----------------------------------------------------------------------------
(* What the steps do to the attempt history, and that they are steps of    *)
(* RequestContract.  Both follow from one lemma, which says what each step *)
(* does to the part of the state the contract sees.                        *)

\* Nothing the contract sees changes, but the scope may be granted.
Silent ==
    /\ UNCHANGED <<attemptVars, final_status>>
    /\ granted' = granted \/ (final_status = None /\ granted' = TRUE)

\* The model's answer becomes the next attempt.
Adds(fp) ==
    /\ final_status = None /\ final_status' = None
    /\ granted /\ granted' = granted
    /\ Len(attempts) <= MaxRepairs /\ ~current.executed
    /\ fp \in Fingerprints /\ fp \notin seen /\ Register(fp)

\* A verdict that the current attempt did not have is added to it.
Verdicts(a) ==
    /\ final_status = None /\ final_status' = None /\ granted' = granted
    /\ attempts # <<>> /\ current \in SQLAttempt /\ a \in SQLAttempt
    /\ ~current.executed /\ current.database_error = None
    /\ \/ /\ current.validation = None
          /\ \E e \in ValidationIssues \cup {"valid"} :
                a = [current EXCEPT !.validation = e]
       \/ /\ current.validation = "valid"
          /\ \/ a = [current EXCEPT !.executed = TRUE]
             \/ \E e \in DatabaseErrors : a = [current EXCEPT !.database_error = e]
    /\ ReplaceCurrent(a)

\* The request ends with what the last attempt holds.
Ends ==
    /\ final_status = None /\ granted' = granted /\ UNCHANGED attemptVars
    /\ final_status' \in Statuses
    /\ final_status' \in Successes <=> current.executed

\* The request ends and its rows are dropped.
EndsLate ==
    /\ final_status = None /\ granted' = granted
    /\ final_status' = "FAILED_TIMEOUT" /\ Withhold

\* The request ends and its history is dropped.
EndsRaised ==
    /\ final_status = None /\ granted' = granted
    /\ final_status' = "FAILED_INTERNAL"
    /\ attempts' = <<>> /\ current' = NoAttempt

LEMMA StepEffects ==
  ASSUME IInv, [Next]_vars
  PROVE  \/ Silent \/ Ends \/ EndsLate \/ EndsRaised
         \/ \E fp \in Fingerprints : Adds(fp)
         \/ \E a \in SQLAttempt : Verdicts(a)
<1>1. /\ Bounds /\ TypeOK /\ StateValid /\ TerminalValid /\ Established
      /\ BeforeAnswer /\ AfterAnswer /\ Verdict
  BY Sizes DEF IInv
<1>2. node # "end" => final_status = None
  BY <1>1 DEF Verdict
<1>3. attempts # <<>> => current \in SQLAttempt
  BY <1>1 DEF StateValid, HistoryValid, TypeOK, Last
<1>4. CASE \/ \E n \in NodeNames : Interrupted(n) \/ NodeRaises(n)
           \/ InvalidRequest \/ Preprocess \/ PermissionDenied \/ PermissionGranted
           \/ MetadataFails \/ RetrievalFails \/ NoCandidates
           \/ Probe \/ Materialize \/ ComplexityRoute
           \/ ContextOverflows \/ ModelFails \/ ModelAsks \/ ReflectSql \/ Clarify
           \/ Expire \/ Returned \/ UNCHANGED vars
  <2>1. Silent
    BY <1>2, <1>4 DEF Runs, Interrupted, NodeRaises, InvalidRequest, Preprocess,
       PermissionDenied, PermissionGranted, MetadataFails, RetrievalFails,
       NoCandidates, Probe, Materialize, ComplexityRoute, ContextOverflows,
       ModelFails, ModelAsks, ReflectSql, Clarify, Expire, Returned, Linked,
       Silent, UnlinkedVars, workVars, scopeVars, terminalVars, vars
  <2>2. QED
    BY <2>1
<1>5. CASE ModelAnswers
  <2>1. PICK fp \in Fingerprints : Answer(fp)
    BY <1>5 DEF ModelAnswers
  <2>2. /\ node = "generate_sql" /\ granted /\ granted' = granted
        /\ final_status = None /\ final_status' = None
    BY <1>1, <1>2, <1>5 DEF ModelAnswers, Generates, Runs, Established, scopeVars,
       terminalVars
  <2>3. UNCHANGED attemptVars \/ (Register(fp) /\ ~(attempts # <<>> /\ fp \in seen))
    BY <2>1 DEF Answer
  <2>4. /\ Len(attempts) <= MaxRepairs /\ ~current.executed
        /\ attempts = <<>> => seen = {}
    BY <1>1, <2>2 DEF BeforeAnswer, AfterAnswer, Bounds, StateValid, HistoryValid
  <2>5. QED
    BY <2>2, <2>3, <2>4 DEF Silent, Adds
<1>6. CASE ValidationPasses \/ ValidationRejects
  <2>1. PICK e \in ValidationIssues \cup {"valid"} :
            ReplaceCurrent([current EXCEPT !.validation = e])
    BY <1>6 DEF ValidationPasses, ValidationRejects
  <2>2. /\ node = "validate_sql" /\ granted' = granted
        /\ final_status' = final_status
    BY <1>6 DEF ValidationPasses, ValidationRejects, Validates, Runs, scopeVars,
       terminalVars
  <2>3. /\ attempts # <<>> /\ current.validation = None
        /\ ~current.executed /\ current.database_error = None
    BY <1>1, <2>2 DEF AfterAnswer
  <2>4. [current EXCEPT !.validation = e] \in SQLAttempt
    BY <1>3, <2>3 DEF SQLAttempt
  <2>5. Verdicts([current EXCEPT !.validation = e])
    BY <1>2, <1>3, <2>1, <2>2, <2>3, <2>4 DEF Verdicts
  <2>6. QED
    BY <2>4, <2>5
<1>7. CASE ExecutionSucceeds \/ ExecutionFails
  <2>1. PICK a : /\ ReplaceCurrent(a)
                 /\ \/ a = [current EXCEPT !.executed = TRUE]
                    \/ \E e \in DatabaseErrors : a = [current EXCEPT !.database_error = e]
    BY <1>7 DEF ExecutionSucceeds, ExecutionFails
  <2>2. /\ node = "execute_sql" /\ granted' = granted
        /\ final_status' = final_status
    BY <1>7 DEF ExecutionSucceeds, ExecutionFails, Executes, Runs, scopeVars,
       terminalVars
  <2>3. /\ attempts # <<>> /\ current.validation = "valid"
        /\ ~current.executed /\ current.database_error = None
    BY <1>1, <2>2 DEF AfterAnswer
  <2>4. a \in SQLAttempt
    BY <1>3, <2>1, <2>3 DEF SQLAttempt
  <2>5. Verdicts(a)
    BY <1>2, <1>3, <2>1, <2>2, <2>3, <2>4 DEF Verdicts
  <2>6. QED
    BY <2>4, <2>5
<1>8. CASE Finalize
  <2>1. /\ node = "finalize" /\ granted' = granted /\ UNCHANGED attemptVars
        /\ final_status' = FinalStatus
    BY <1>8 DEF Finalize, scopeVars
  <2>2. FinalStatus \in Statuses /\ (FinalStatus \in Successes <=> current.executed)
    BY DEF FinalStatus, FailureStatus, Statuses, Successes, Failures
  <2>3. QED
    BY <1>2, <2>1, <2>2 DEF Ends
<1>9. CASE FinalizeLate
  BY <1>2, <1>9 DEF FinalizeLate, EndsLate, scopeVars
<1>10. CASE FinalizeRaises
  BY <1>2, <1>10 DEF FinalizeRaises, EndsRaised, scopeVars
<1> QED
  BY <1>4, <1>5, <1>6, <1>7, <1>8, <1>9, <1>10 DEF Next, RunNode

-----------------------------------------------------------------------------
(* The history                                                             *)

LEMMA HistoryStep == IInv /\ [Next]_vars => HistoryGrows
<1> SUFFICES ASSUME IInv, [Next]_vars PROVE HistoryGrows
  OBVIOUS
<1>1. /\ TypeOK /\ StateValid /\ HistoryValid /\ Bounds
  BY Sizes DEF IInv, StateValid
<1>2. CASE UNCHANGED attemptVars
  BY <1>1, <1>2 DEF HistoryGrows, attemptVars, Bounds
<1>3. CASE EndsRaised
  BY <1>3 DEF EndsRaised, HistoryGrows
<1>4. CASE \E fp \in Fingerprints : Adds(fp)
  <2>1. PICK fp \in Fingerprints : Adds(fp)
    BY <1>4
  <2>2. /\ Len(attempts') = Len(attempts) + 1
        /\ \A i \in 1..Len(attempts) : attempts'[i] = attempts[i]
    BY <1>1, <2>1, RegisterHistory DEF Adds
  <2>3. QED
    BY <1>1, <2>2 DEF HistoryGrows, Bounds
<1>5. ASSUME NEW a \in SQLAttempt, attempts # <<>>, ReplaceCurrent(a),
             a.sql = current.sql,
             current.validation # None => a.validation = current.validation,
             current.database_error # None => a.database_error = current.database_error,
             current.executed => a.executed \/ final_status' = "FAILED_TIMEOUT",
             ~(a.executed /\ a.database_error # None),
             a.executed \/ a.database_error # None => a.validation = "valid"
      PROVE  HistoryGrows
  <2>1. /\ Len(attempts') = Len(attempts)
        /\ attempts'[Len(attempts)] = a
        /\ \A i \in 1..Len(attempts) : i # Len(attempts) => attempts'[i] = attempts[i]
    BY <1>1, <1>5, ReplaceHistory
  <2>2. current = attempts[Len(attempts)]
    BY <1>1, <1>5 DEF HistoryValid, Last
  <2>3. QED
    BY <1>1, <1>5, <2>1, <2>2 DEF HistoryGrows, Bounds
<1>6. CASE \E a \in SQLAttempt : Verdicts(a)
  <2>1. PICK a \in SQLAttempt : Verdicts(a)
    BY <1>6
  <2>2. /\ attempts # <<>> /\ ReplaceCurrent(a) /\ a.sql = current.sql
        /\ ~current.executed /\ current.database_error = None
        /\ current.validation # None => a.validation = current.validation
        /\ ~(a.executed /\ a.database_error # None)
        /\ a.executed \/ a.database_error # None => a.validation = "valid"
    BY <2>1, NoneIsNew DEF Verdicts, SQLAttempt
  <2>3. QED
    BY <1>5, <2>2
<1>7. CASE EndsLate /\ current.executed
  <2>1. attempts # <<>> /\ current \in SQLAttempt /\ current.database_error = None
        /\ current.validation = "valid"
    BY <1>1, <1>7 DEF HistoryValid, TypeOK, Last, NoAttempt, NewAttempt, Bounds
  <2>2. [current EXCEPT !.executed = FALSE] \in SQLAttempt
    BY <2>1 DEF SQLAttempt
  <2>3. /\ ReplaceCurrent([current EXCEPT !.executed = FALSE])
        /\ final_status' = "FAILED_TIMEOUT"
    BY <1>7 DEF EndsLate, Withhold
  <2>4. /\ [current EXCEPT !.executed = FALSE].sql = current.sql
        /\ [current EXCEPT !.executed = FALSE].validation = current.validation
        /\ [current EXCEPT !.executed = FALSE].database_error = None
        /\ ~[current EXCEPT !.executed = FALSE].executed
    BY <2>1 DEF SQLAttempt
  <2>5. QED
    BY <1>5, <2>1, <2>2, <2>3, <2>4
<1> QED
  BY <1>2, <1>3, <1>4, <1>6, <1>7, StepEffects DEF Silent, Ends, EndsLate, Withhold

\* No step rewrites an attempt that was made: neither its SQL nor a verdict.
THEOREM HistoryKept == Spec => HistoryOnlyGrows
<1>1. IInv /\ [Next]_vars => HistoryGrows
  BY HistoryStep
<1> QED BY <1>1, Invariant, PTL DEF Spec, HistoryOnlyGrows

-----------------------------------------------------------------------------
(* The contract                                                            *)

LEMMA TriedIs ==
  ASSUME NEW s \in Seq(SQLAttempt), NEW t,
         t = [i \in 1..Len(s) |-> s[i].sql]
  PROVE  /\ t \in Seq(Fingerprints) /\ Len(t) = Len(s)
         /\ \A i \in 1..Len(s) : t[i] = s[i].sql
<1>1. Len(s) \in Nat /\ \A i \in 1..Len(s) : s[i] \in SQLAttempt
  OBVIOUS
<1>2. \A i \in 1..Len(s) : s[i].sql \in Fingerprints
  BY <1>1 DEF SQLAttempt
<1> QED
  BY <1>1, <1>2

LEMMA ContractInit == Init => Contract!Init
<1> SUFFICES ASSUME Init PROVE Contract!Init
  OBVIOUS
<1>1. attempts \in Seq(SQLAttempt) /\ Len(attempts) = 0
  BY DEF Init
<1>2. Tried = <<>>
  BY <1>1, TriedIs DEF Tried
<1>3. Outcome = None
  BY NoneIsNew DEF Init, Outcome, Statuses
<1>4. granted = FALSE /\ ~current.executed /\ current.validation # "valid"
  BY NoneIsNew DEF Init, NoAttempt, NewAttempt
<1> QED
  BY <1>2, <1>3, <1>4 DEF Contract!Init, Init, NoAttempt, NewAttempt

LEMMA ContractStep ==
  IInv /\ [Next]_vars => [Contract!Next]_(Contract!contractVars)
<1> SUFFICES ASSUME IInv, [Next]_vars
             PROVE  Contract!Next \/ UNCHANGED Contract!contractVars
  OBVIOUS
<1>1. /\ TypeOK /\ StateValid /\ HistoryValid /\ Bounds
      /\ attempts \in Seq(SQLAttempt) /\ attempts' \in Seq(SQLAttempt)
      /\ granted \in BOOLEAN /\ final_status \in Optional(Statuses)
  BY Sizes, NextInv DEF IInv, StateValid, TypeOK
<1>2. /\ Tried \in Seq(Fingerprints) /\ Len(Tried) = Len(attempts)
      /\ \A i \in 1..Len(attempts) : Tried[i] = attempts[i].sql
  BY <1>1, TriedIs DEF Tried
<1>3. /\ Tried' \in Seq(Fingerprints) /\ Len(Tried') = Len(attempts')
      /\ \A i \in 1..Len(attempts') : Tried'[i] = attempts'[i].sql
  BY <1>1, TriedIs DEF Tried
<1>4. /\ final_status = None => Outcome = None
      /\ final_status' = None => Outcome' = None
      /\ final_status' \in Successes => Outcome' = "answered"
      /\ final_status' \in Statuses \ Successes =>
            Outcome' = final_status' /\ Outcome' # "answered"
  BY NoneIsNew DEF Outcome, Statuses, Successes, Failures
<1>5. CASE Silent
  <2>1. Tried' = Tried /\ Outcome' = Outcome /\ current' = current
    BY <1>5 DEF Silent, Tried, Outcome, attemptVars
  <2>2. CASE granted' = granted
    BY <2>1, <2>2 DEF Contract!contractVars
  <2>3. CASE ~granted /\ granted' = TRUE /\ final_status = None
    BY <1>4, <1>5, <2>1, <2>3 DEF Silent, Contract!Next, Contract!Grant
  <2>4. QED
    BY <1>1, <1>5, <2>2, <2>3 DEF Silent
<1>6. CASE \E fp \in Fingerprints : Adds(fp)
  <2>1. PICK fp \in Fingerprints : Adds(fp)
    BY <1>6
  <2>2. /\ Len(attempts') = Len(attempts) + 1 /\ current' = NewAttempt(fp)
        /\ \A i \in 1..Len(attempts) : attempts'[i] = attempts[i]
        /\ current' = Last(attempts')
    BY <1>1, <2>1, RegisterHistory DEF Adds, Register, HistoryUpdate
  <2>3. /\ attempts'[Len(attempts) + 1].sql = fp
        /\ ~current'.executed /\ current'.validation # "valid"
    BY <2>2, NoneIsNew DEF Last, NewAttempt
  <2>4. Tried' = Append(Tried, fp)
    <3>1. /\ Append(Tried, fp) \in Seq(Fingerprints)
          /\ Len(Append(Tried, fp)) = Len(attempts) + 1
          /\ \A i \in 1..Len(attempts) : Append(Tried, fp)[i] = Tried[i]
          /\ Append(Tried, fp)[Len(attempts) + 1] = fp
      BY <1>2, AppendProperties
    <3>2. \A i \in 1..Len(attempts) + 1 : Tried'[i] = Append(Tried, fp)[i]
      <4>1. Tried'[Len(attempts) + 1] = fp
        BY <1>1, <1>3, <2>2, <2>3 DEF Bounds
      <4>2. \A i \in 1..Len(attempts) : Tried'[i] = Tried[i]
        BY <1>1, <1>2, <1>3, <2>2 DEF Bounds
      <4>3. 1..Len(attempts) + 1 = 1..Len(attempts) \cup {Len(attempts) + 1}
        BY <1>1 DEF Bounds
      <4>4. QED
        BY <3>1, <4>1, <4>2, <4>3
    <3>3. QED
      BY <1>3, <2>2, <3>1, <3>2, SeqEqual
  <2>5. /\ Len(Tried) <= MaxRepairs /\ \A i \in 1..Len(Tried) : Tried[i] # fp
    BY <1>1, <1>2, <2>1 DEF Adds, HistoryValid
  <2>6. /\ Outcome = None /\ Outcome' = None /\ granted' = granted /\ granted
        /\ ~current.executed
    BY <1>4, <2>1 DEF Adds
  <2>7. (current.validation = "valid")' = FALSE /\ current'.executed = current.executed
    <3>1. current'.executed = FALSE
      BY <2>2 DEF NewAttempt
    <3>2. current.executed = FALSE
      BY <1>1, <2>6 DEF TypeOK, SQLAttempt, NoAttempt, NewAttempt
    <3>3. QED
      BY <2>3, <3>1, <3>2
  <2>8. Contract!Try(fp)
    BY <2>4, <2>5, <2>6, <2>7 DEF Contract!Try
  <2>9. QED
    BY <2>8 DEF Contract!Next
<1>7. CASE \E a \in SQLAttempt : Verdicts(a)
  <2>1. PICK a \in SQLAttempt : Verdicts(a)
    BY <1>7
  <2>2. /\ attempts # <<>> /\ ReplaceCurrent(a) /\ a.sql = current.sql
        /\ ~(a.executed /\ a.database_error # None)
        /\ a.executed \/ a.database_error # None => a.validation = "valid"
        /\ a.executed \in BOOLEAN /\ current.executed = FALSE
    BY <2>1, NoneIsNew DEF Verdicts, SQLAttempt
  <2>3. /\ Len(attempts') = Len(attempts) /\ current' = a
        /\ \A i \in 1..Len(attempts) : attempts'[i].sql = attempts[i].sql
    <3>1. /\ Len(attempts') = Len(attempts) /\ current' = a
          /\ attempts'[Len(attempts)] = a
          /\ \A i \in 1..Len(attempts) :
                i # Len(attempts) => attempts'[i] = attempts[i]
      BY <1>1, <2>2, ReplaceHistory
    <3>2. current = attempts[Len(attempts)]
      BY <1>1, <2>2 DEF HistoryValid, Last
    <3>3. QED
      BY <2>2, <3>1, <3>2
  <2>4. Tried' = Tried
    BY <1>2, <1>3, <2>3, SeqEqual
  <2>5. /\ Outcome = None /\ Outcome' = None /\ granted' = granted
    BY <1>4, <2>1 DEF Verdicts
  <2>6. Tried # <<>>
    BY <1>1, <1>2, <2>2 DEF Bounds
  <2>7. CASE current.validation = None
    <3>1. current.validation # "valid" /\ a.executed = FALSE
      BY <2>1, <2>2, <2>7, NoneIsNew DEF Verdicts, SQLAttempt
    <3>2. CASE a.validation = "valid"
      <4>1. Contract!ClearLast
        BY <2>2, <2>3, <2>4, <2>5, <2>6, <3>1, <3>2 DEF Contract!ClearLast
      <4>2. QED
        BY <4>1 DEF Contract!Next
    <3>3. CASE a.validation # "valid"
      BY <2>2, <2>3, <2>4, <2>5, <3>1, <3>3 DEF Contract!contractVars
    <3>4. QED
      BY <3>2, <3>3
  <2>8. CASE current.validation = "valid"
    <3>1. a.validation = "valid"
      BY <2>1, <2>8, NoneIsNew DEF Verdicts, SQLAttempt
    <3>2. CASE a.executed = TRUE
      <4>1. Contract!Run
        BY <2>2, <2>3, <2>4, <2>5, <2>8, <3>1, <3>2 DEF Contract!Run
      <4>2. QED
        BY <4>1 DEF Contract!Next
    <3>3. CASE a.executed = FALSE
      BY <2>2, <2>3, <2>4, <2>5, <2>8, <3>1, <3>3 DEF Contract!contractVars
    <3>4. QED
      BY <2>2, <3>2, <3>3
  <2>9. QED
    BY <2>1, <2>7, <2>8 DEF Verdicts
<1>8. CASE Ends
  <2>1. /\ Tried' = Tried /\ current' = current /\ granted' = granted
        /\ Outcome = None /\ final_status' \in Statuses
        /\ final_status' \in Successes <=> current.executed
    BY <1>4, <1>8 DEF Ends, Tried, attemptVars
  <2>2. CASE current.executed
    <3>1. Contract!CloseAnswered
      BY <1>4, <2>1, <2>2 DEF Contract!CloseAnswered
    <3>2. QED
      BY <3>1 DEF Contract!Next
  <2>3. CASE ~current.executed
    <3>1. current.executed = FALSE
      BY <1>1, <2>3 DEF TypeOK, SQLAttempt, NoAttempt, NewAttempt
    <3>2. Contract!CloseRefused(final_status')
      BY <1>4, <2>1, <2>3, <3>1 DEF Contract!CloseRefused
    <3>3. QED
      BY <2>1, <2>3, <3>2 DEF Contract!Next
  <2>4. QED
    BY <2>2, <2>3
<1>9. CASE EndsLate
  <2>1. /\ granted' = granted /\ Outcome = None /\ Outcome' = "FAILED_TIMEOUT"
        /\ "FAILED_TIMEOUT" \in Statuses \ Successes
    BY <1>4, <1>9 DEF EndsLate, Statuses, Successes, Failures
  <2>2. /\ Tried' = Tried /\ current'.validation = current.validation
        /\ current'.executed = FALSE
    <3>1. CASE current.executed
      <4> DEFINE a == [current EXCEPT !.executed = FALSE]
      <4>1. /\ attempts # <<>> /\ current \in SQLAttempt
            /\ current.database_error = None
        BY <1>1, <3>1 DEF HistoryValid, TypeOK, Last, NoAttempt, NewAttempt, Bounds
      <4>2. /\ a \in SQLAttempt /\ a.sql = current.sql /\ a.executed = FALSE
            /\ a.validation = current.validation /\ a.database_error = None
            /\ ReplaceCurrent(a)
        BY <1>9, <3>1, <4>1 DEF SQLAttempt, EndsLate, Withhold
      <4>3. /\ Len(attempts') = Len(attempts) /\ current' = a
            /\ attempts'[Len(attempts)] = a
            /\ \A i \in 1..Len(attempts) :
                  i # Len(attempts) => attempts'[i] = attempts[i]
        BY <1>1, <4>1, <4>2, ReplaceHistory
      <4>4. current = attempts[Len(attempts)]
        BY <1>1, <4>1 DEF HistoryValid, Last
      <4>5. \A i \in 1..Len(attempts) : attempts'[i].sql = attempts[i].sql
        BY <4>2, <4>3, <4>4
      <4>6. Tried' = Tried
        BY <1>2, <1>3, <4>3, <4>5, SeqEqual
      <4>7. QED
        BY <4>2, <4>3, <4>6
    <3>2. CASE ~current.executed
      <4>1. current.executed = FALSE
        BY <1>1, <3>2 DEF TypeOK, SQLAttempt, NoAttempt, NewAttempt
      <4>2. QED
        BY <1>9, <3>2, <4>1 DEF EndsLate, Withhold, attemptVars, Tried
    <3>3. QED
      BY <3>1, <3>2
  <2>3. Contract!CloseRefused("FAILED_TIMEOUT")
    BY <2>1, <2>2 DEF Contract!CloseRefused
  <2>4. QED
    BY <2>1, <2>3 DEF Contract!Next
<1>10. CASE EndsRaised
  <2>1. /\ granted' = granted /\ Outcome = None /\ Outcome' = "FAILED_INTERNAL"
        /\ "FAILED_INTERNAL" \in Statuses \ Successes
    BY <1>4, <1>10 DEF EndsRaised, Statuses, Successes, Failures
  <2>2. Tried' = <<>>
    BY <1>3, <1>10 DEF EndsRaised
  <2>3. /\ current'.executed = FALSE /\ (current.validation = "valid")' = FALSE
    BY <1>10, NoneIsNew DEF EndsRaised, NoAttempt, NewAttempt
  <2>4. Contract!CloseRefused("FAILED_INTERNAL")
    BY <2>1, <2>2, <2>3 DEF Contract!CloseRefused
  <2>5. QED
    BY <2>1, <2>4 DEF Contract!Next
<1> QED
  BY <1>5, <1>6, <1>7, <1>8, <1>9, <1>10, StepEffects

\* Every step of a request is one its contract allows: no SQL before the scope
\* is granted or twice, no rows of SQL that was not found valid, one outcome.
THEOREM ContractKept ==
  Spec => Contract!Init /\ [][Contract!Next]_(Contract!contractVars)
<1> QED BY ContractInit, ContractStep, Invariant, PTL DEF Spec
=============================================================================
