-------------------------- MODULE MCEmbeddingIndex --------------------------
(* EmbeddingIndex for TLC and for its proofs, which stand beside those of  *)
(* the other parts of generation: everything about it has its prefix.      *)

CONSTANTS Requests, Versions, MaxEntries, Batches, NoValue

VARIABLES want, deadline, pc, embedded, joined, completed, answer, indexes,
          flights, flight, recent

Registry == INSTANCE EmbeddingIndex WITH None <- NoValue

\* NoValue is no other value, and a process has finitely many threads.
ASSUME RegistryAssumption == Registry!IndexAssumption

RegistrySpec == Registry!Spec

\* Where TLC starts four requests: two ask for one version and two for others,
\* or three can share a flight, two of them with a deadline (one that never
\* passes is as good as none).  Requests and versions are numbers here: one
\* first state stands for all that only rename them.
Hurried == {r \in Requests : deadline[r] # "none"}
SharingInit ==
    /\ Registry!Init
    /\ \/ want = <<1, 1, 2, 3>> /\ Hurried \in {{1}, {3}}
       \/ want = <<1, 1, 1, 2>> /\ Hurried = {1, 2}

\* From there, with provider calls that may never end.
SharingSpec ==
    SharingInit /\ [][Registry!Next]_(Registry!vars) /\ Registry!Stalled

\* The fields of every request, flight and cached index hold what the code
\* puts there (_BuildFlight, EmbeddingIndex).
RegistryTypeOK == Registry!TypeOK

\* Flights are sound: one builder for a version, and whoever waits for it is
\* counted and is served (_get_or_build).
FlightsSound ==
    Registry!OneBuilder /\ Registry!NobodyStranded /\ Registry!WaitersCounted

\* Answers are true: those of one flight are the same, and of whole indexes.
AnswersTrue == Registry!SameAnswer /\ Registry!OnlyWholeIndexes

\* The registry holds the MaxEntries versions used last, in that order.
LeastRecentlyUsed == Registry!LeastRecentlyUsed

\* Waits end, whatever builds do; and when builds end, every request does.
Ended == Registry!GivesUp /\ (Registry!BuildsEnd => Registry!Terminates)

\* The waiters that waiting_build_count reports are gone when nobody waits.
NobodyCounted == Registry!NobodyLeftCounted
=============================================================================
