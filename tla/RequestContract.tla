--------------------------- MODULE RequestContract ---------------------------
(***************************************************************************)
(* What one request promises its caller, whatever nodes the workflow runs: *)
(* no SQL is tried before the scope is granted, no SQL is tried twice, at  *)
(* most MaxRepairs + 1 are tried, the answer is the rows of the last one,  *)
(* which was found valid before it ran, and the request is closed once,    *)
(* with rows only if it is answered.                                       *)
(***************************************************************************)
EXTENDS Naturals, Sequences

CONSTANTS Statements, MaxRepairs, Outcomes, None

VARIABLES
    granted,    \* the scope of the request is known
    tried,      \* the statements the model was allowed to try, in order
    cleared,    \* the last of them was found valid
    answered,   \* the rows of the last of them are held
    outcome     \* None while the request is open
contractVars == <<granted, tried, cleared, answered, outcome>>

Init ==
    /\ granted = FALSE /\ tried = <<>> /\ cleared = FALSE
    /\ answered = FALSE /\ outcome = None

Grant ==
    /\ outcome = None /\ ~granted
    /\ granted' = TRUE
    /\ UNCHANGED <<tried, cleared, answered, outcome>>

Try(s) ==
    /\ outcome = None /\ granted /\ ~answered
    /\ Len(tried) <= MaxRepairs
    /\ \A i \in 1..Len(tried) : tried[i] # s
    /\ tried' = Append(tried, s)
    /\ cleared' = FALSE
    /\ UNCHANGED <<granted, answered, outcome>>

ClearLast ==
    /\ outcome = None /\ tried # <<>> /\ ~cleared
    /\ cleared' = TRUE
    /\ UNCHANGED <<granted, tried, answered, outcome>>

Run ==
    /\ outcome = None /\ cleared /\ ~answered
    /\ answered' = TRUE
    /\ UNCHANGED <<granted, tried, cleared, outcome>>

CloseAnswered ==
    /\ outcome = None /\ answered
    /\ outcome' = "answered"
    /\ UNCHANGED <<granted, tried, cleared, answered>>

\* A request that is not answered holds no rows; its history may go too.
CloseRefused(o) ==
    /\ outcome = None /\ o # "answered"
    /\ outcome' = o
    /\ answered' = FALSE
    /\ \/ UNCHANGED <<tried, cleared>>
       \/ tried' = <<>> /\ cleared' = FALSE
    /\ UNCHANGED granted

Next ==
    \/ Grant \/ ClearLast \/ Run \/ CloseAnswered
    \/ \E s \in Statements : Try(s)
    \/ \E o \in Outcomes : CloseRefused(o)

\* A request is closed whatever its nodes do: by finalize in the end.
Closes == CloseAnswered \/ \E o \in Outcomes : CloseRefused(o)

Spec == Init /\ [][Next]_contractVars /\ WF_contractVars(Closes)
=============================================================================
