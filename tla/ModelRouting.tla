----------------------------- MODULE ModelRouting -----------------------------
(***************************************************************************)
(* How a request asks its models (src/app/generation/routing.py,           *)
(* provider.py and the end of _generate_sql): the route of its complexity, *)
(* the primary model, at most one fallback, each call cut to what is left  *)
(* of the deadline, and the observation each visit of the node leaves.     *)
(* Time passes by ticks between any two steps.  Messages, SQL and token    *)
(* numbers are left out.                                                   *)
(***************************************************************************)
EXTENDS Integers, Sequences, FiniteSets

CONSTANTS
    Routes,         \* route IDs, one for each complexity level
    Sizes,          \* pairs of token limits a model may be configured with
    Timeouts,       \* timeouts a model may be configured with
    Deadline,       \* when the request has to be over
    MaxVisits,      \* bound: visits of generate_sql, one and its repairs
    None

VARIABLES
    table,          \* the route table, None until it is built
    now,            \* the clock
    phase,          \* where the node is
    route, at,      \* the route chosen, the target of the call
    grant, since,   \* timeout and start of the call
    code,           \* how the last call ended
    primary_error,  \* primary_error_code
    made,           \* the calls of this visit that reached a provider
    observations,   \* model_routing_observations of the state
    failed,         \* the request goes to finalize
    answers         \* answers that models gave this request

call == <<at, grant, since, code, primary_error, made>>
vars == <<table, now, phase, route, call, observations, failed, answers>>

Targets == {"primary", "fallback"}

FallbackCodes == {"LLM_TIMEOUT", "LLM_CONNECTION_ERROR", "LLM_RATE_LIMITED",
                  "LLM_CAPACITY_ERROR"}
Codes == FallbackCodes \cup {"LLM_HTTP_ERROR", "LLM_INVALID_RESPONSE",
                             "LLM_INVALID_OUTPUT", "LLM_INTERNAL_ERROR"}

Stages == {"provider", "normalization"}

\* What may come of an HTTP call, and the code generate raises for it.
CodeOf ==
    [http_429        |-> "LLM_RATE_LIMITED",
     http_502        |-> "LLM_CAPACITY_ERROR",
     http_other      |-> "LLM_HTTP_ERROR",
     timeout         |-> "LLM_TIMEOUT",
     url_timeout     |-> "LLM_TIMEOUT",
     incomplete_read |-> "LLM_INVALID_RESPONSE",
     http_exception  |-> "LLM_CONNECTION_ERROR",
     url_error       |-> "LLM_CONNECTION_ERROR",
     os_error        |-> "LLM_CONNECTION_ERROR",
     oversized       |-> "LLM_INVALID_RESPONSE",
     envelope        |-> "LLM_INVALID_RESPONSE",
     token_count     |-> "LLM_INVALID_RESPONSE",
     output          |-> "LLM_INVALID_OUTPUT",
     exception       |-> "LLM_INTERNAL_ERROR"]

-----------------------------------------------------------------------------
(* Configuration                                                           *)

Targets0 == [size : Sizes, timeout : Timeouts]

RoutingAssumption ==
    /\ Timeouts \subseteq Nat \ {0} /\ Deadline \in Nat \ {0}
    /\ MaxVisits \in Nat
    /\ None \notin Codes \cup Targets \cup Targets0 \cup Stages

\* Faulty variant: the fallback's limits are not compared.
FaultyRouteValid(r) == TRUE

\* ModelRoute: the fallback takes the messages of the primary.
RouteValid(r) == r.fallback # None => r.fallback.size = r.primary.size

Init ==
    /\ table = None /\ now = 0 /\ phase = "start" /\ route = None
    /\ at = None /\ grant = 0 /\ since = 0 /\ code = None
    /\ primary_error = None /\ made = <<>>
    /\ observations = <<>> /\ failed = FALSE /\ answers = 0

\* build_configured_model_routing_runtime: one fallback, shared by the routes
\* that enable it.  A route that is not valid stops the start.
Configure ==
    /\ phase = "start"
    /\ \E primary \in [Routes -> Targets0], enabled \in SUBSET Routes :
       \E fallback \in Targets0 :
        LET routes == [r \in Routes |->
                         [primary  |-> primary[r],
                          fallback |-> IF r \in enabled THEN fallback
                                       ELSE None]]
        IN  /\ \A r \in Routes : RouteValid(routes[r])
            /\ table' = routes
    /\ phase' = "idle"
    /\ UNCHANGED <<now, route, call, observations, failed, answers>>

-----------------------------------------------------------------------------
(* generate_with_model_route                                               *)

Tick ==
    /\ phase \notin {"start", "raised"} /\ ~failed /\ now <= Deadline
    /\ now' = now + 1
    /\ UNCHANGED <<table, phase, route, call, observations, failed, answers>>

\* generate_sql runs, the wrapper has seen time left.
Enter(r) ==
    /\ phase = "idle" /\ ~failed /\ now < Deadline
    /\ Len(observations) < MaxVisits
    /\ phase' = "call" /\ route' = r /\ at' = "primary"
    /\ code' = None /\ primary_error' = None /\ made' = <<>>
    /\ UNCHANGED <<table, now, grant, since, observations, failed, answers>>

Target == IF at = "primary" THEN table[route].primary
          ELSE table[route].fallback
Remaining == Deadline - now

Least(x, y) == IF x <= y THEN x ELSE y

\* Faulty variant: a call gets its whole timeout.
FaultyCalls ==
    /\ phase = "call" /\ Remaining > 0
    /\ grant' = Target.timeout /\ since' = now /\ phase' = "calling"
    /\ made' = Append(made, at)
    /\ UNCHANGED <<table, now, route, at, code, primary_error, observations,
                   failed, answers>>

\* _call_provider: the timeout is cut to what is left.
Calls ==
    /\ phase = "call" /\ Remaining > 0
    /\ grant' = Least(Target.timeout, Remaining) /\ since' = now
    /\ phase' = "calling" /\ made' = Append(made, at)
    /\ UNCHANGED <<table, now, route, at, code, primary_error, observations,
                   failed, answers>>

\* Nothing is left: _DEADLINE_ERROR, provider_called = False.
DeadlinePassed ==
    /\ phase = "call" /\ Remaining <= 0
    /\ code' = "LLM_TIMEOUT" /\ phase' = "refused"
    /\ UNCHANGED <<table, now, route, at, grant, since, primary_error, made,
                   observations, failed, answers>>

\* The timeout of the transport is one of each socket operation: a call may
\* take longer, but it does not time out earlier.
CallFails(what) ==
    /\ phase = "calling"
    /\ what \in {"timeout", "url_timeout"} => now - since >= grant
    /\ code' = CodeOf[what] /\ phase' = "refused"
    /\ UNCHANGED <<table, now, route, at, grant, since, primary_error, made,
                   observations, failed, answers>>

CallAnswers ==
    /\ phase = "calling" /\ phase' = "answered" /\ answers' = answers + 1
    /\ code' = None
    /\ UNCHANGED <<table, now, route, at, grant, since, primary_error, made,
                   observations, failed>>

\* Faulty variant: any failure of the primary is worth the fallback.
FaultyMayFallBack == table[route].fallback # None

MayFallBack == code \in FallbackCodes /\ table[route].fallback # None

\* Faulty variant: the failure of the primary is not kept.
FaultyFallsBack ==
    /\ phase = "refused" /\ at = "primary" /\ MayFallBack
    /\ at' = "fallback" /\ phase' = "call"
    /\ UNCHANGED <<table, now, route, grant, since, code, primary_error, made,
                   observations, failed, answers>>

FallsBack ==
    /\ phase = "refused" /\ at = "primary" /\ MayFallBack
    /\ primary_error' = code /\ at' = "fallback" /\ phase' = "call"
    /\ UNCHANGED <<table, now, route, grant, since, code, made, observations,
                   failed, answers>>

-----------------------------------------------------------------------------
(* The observation                                                         *)

Observation(what, target, used, count, err, primary, stage) ==
    [number |-> Len(observations) + 1, route |-> route, target |-> target,
     count |-> count, fallback_used |-> used, outcome |-> what, code |-> err,
     primary |-> primary, stage |-> stage]

\* ModelRoutingObservation.validate_routing, for the outcomes of this node.
FallbackTold(o) ==
    IF o.fallback_used THEN o.primary \in FallbackCodes ELSE o.primary = None
ProviderTold(o) ==
    /\ o.primary # None
    /\ IF o.fallback_used THEN o.primary \in FallbackCodes
       ELSE o.primary = o.code
    /\ o.count = 0 => o.code = "LLM_TIMEOUT"
ObservationValid(o) ==
    /\ o.fallback_used <=> o.count = 2
    /\ o.outcome = "succeeded" =>
         o.count \in {1, 2} /\ o.code = None /\ o.stage = None /\ FallbackTold(o)
    /\ o.outcome = "failed" =>
         o.count \in {0, 1, 2} /\ o.code # None /\ o.stage # None
    /\ o.stage = "provider" => ProviderTold(o)
    /\ o.stage = "normalization" =>
         o.count \in {1, 2} /\ o.code = "LLM_INTERNAL_ERROR" /\ FallbackTold(o)

\* An observation that is not valid raises, and the wrapper drops the whole
\* update of the node.
Leaves(o, fails) ==
    /\ IF ObservationValid(o)
       THEN /\ observations' = Append(observations, o)
            /\ phase' = "idle" /\ failed' = fails
       ELSE /\ UNCHANGED observations
            /\ phase' = "raised" /\ failed' = TRUE
    /\ UNCHANGED <<table, now, route, call, answers>>

\* RoutedGenerationError: a fallback that was not called is told as the
\* primary's failure, with the code of the deadline.
Refused ==
    LET called == at = "fallback" /\ Len(made) > 0
                  /\ made[Len(made)] = "fallback"
    IN  /\ phase = "refused" /\ ~(at = "primary" /\ MayFallBack)
        /\ Leaves(Observation("failed",
                      IF called THEN "fallback" ELSE "primary", called,
                      Len(made), code,
                      IF at = "primary" THEN code ELSE primary_error,
                      "provider"),
                  TRUE)

\* Faulty variant: the primary model is named although the other answered.
FaultySucceeds ==
    /\ phase = "answered"
    /\ Leaves(Observation("succeeded", "primary", at = "fallback", Len(made),
                          None, primary_error, None),
              FALSE)

Succeeds ==
    /\ phase = "answered"
    /\ Leaves(Observation("succeeded", at, at = "fallback", Len(made), None,
                          primary_error, None),
              FALSE)

\* Faulty variant: the failure of the normalization leaves nothing.
FaultyNotNormalized ==
    /\ phase = "answered" /\ phase' = "idle" /\ failed' = TRUE
    /\ UNCHANGED <<table, now, route, call, observations, answers>>

\* normalize_generation_result raises.
NotNormalized ==
    /\ phase = "answered"
    /\ Leaves(Observation("failed", at, at = "fallback", Len(made),
                          "LLM_INTERNAL_ERROR", primary_error,
                          "normalization"),
              TRUE)

Next ==
    \/ Configure \/ Tick
    \/ \E r \in Routes : Enter(r)
    \/ Calls \/ DeadlinePassed
    \/ \E what \in DOMAIN CodeOf : CallFails(what)
    \/ CallAnswers \/ FallsBack \/ Refused \/ Succeeds \/ NotNormalized

Spec == Init /\ [][Next]_vars

-----------------------------------------------------------------------------
(* Properties                                                              *)

Observations ==
    [number : Nat \ {0}, route : Routes, target : Targets, count : 0..2,
     fallback_used : BOOLEAN, outcome : {"succeeded", "failed"},
     code : Codes \cup {None}, primary : Codes \cup {None},
     stage : Stages \cup {None}]

\* Types of the state.
TypeOK ==
    /\ phase \in {"start", "idle", "call", "calling", "refused", "answered",
                  "raised"}
    /\ now \in 0..(Deadline + 1) /\ since \in 0..now /\ grant \in Nat
    /\ route \in Routes \cup {None} /\ at \in Targets \cup {None}
    /\ code \in Codes \cup {None} /\ primary_error \in Codes \cup {None}
    /\ made \in Seq(Targets) /\ observations \in Seq(Observations)
    /\ failed \in BOOLEAN /\ answers \in Nat

\* The messages were selected for the limits of the primary: whatever model
\* gets them was configured with the same limits.
MessagesFit ==
    phase = "calling" => Target.size = table[route].primary.size

\* No call is granted more time than the request has, the second one neither.
WithinDeadline == phase = "calling" => since + grant <= Deadline

\* A model is asked once in a visit, the fallback only after a failure of
\* the infrastructure: what the primary said of the request is not asked
\* again of another model.
AskedOnce ==
    /\ made \in {<<>>, <<"primary">>, <<"primary", "fallback">>}
    /\ at = "fallback" => primary_error \in FallbackCodes

\* What a visit leaves agrees with what it did: the number of calls, whose
\* answer or error it was, and whether the fallback was asked.
Told(o) ==
    /\ o.count = Len(made) /\ o.route = route
    /\ o.fallback_used <=> "fallback" \in {made[i] : i \in DOMAIN made}
    /\ o.count > 0 => o.target = made[Len(made)]
    /\ o.outcome = "succeeded" => o.target = at
    /\ o.fallback_used => o.primary = primary_error
LeavesTruth ==
    (phase = "idle" /\ observations # <<>>) =>
        Told(observations[Len(observations)])

\* The observations number the visits, and every answer belongs to one.
NoVisitLost ==
    /\ \A i \in DOMAIN observations : observations[i].number = i
    /\ phase = "idle" =>
         answers = Cardinality({i \in DOMAIN observations :
                       \/ observations[i].outcome = "succeeded"
                       \/ observations[i].stage = "normalization"})

\* An observation is refused only in one case: the deadline passed between
\* another failure than a timeout and the call of the fallback.
LostOnlyLate ==
    phase = "raised" =>
        /\ now >= Deadline /\ made = <<"primary">> /\ at = "fallback"
        /\ primary_error # "LLM_TIMEOUT"

=============================================================================
