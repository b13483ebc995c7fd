--------------------------- MODULE EmbeddingIndex ---------------------------
(***************************************************************************)
(* The registry of embedding indexes (src/app/schema_linking/index.py):    *)
(* concurrent requests look an index up by its retrieval version, the      *)
(* first to miss builds it outside the lock and the others wait for that   *)
(* flight; the least recently used index is evicted.  One action is one    *)
(* critical section of the lock, one call of the provider, or one return   *)
(* of Event.wait.  A request is one call of _get_or_build and the flight   *)
(* it would create carries its name.  A version digests the whole          *)
(* authorized snapshot, so requests of one version bring equal documents   *)
(* and the comparisons of documents never fail.                            *)
(***************************************************************************)
EXTENDS Naturals, Sequences, FiniteSets

CONSTANTS
    Requests,       \* calls of _get_or_build, each on its own worker thread
    Versions,       \* retrieval_version_id
    MaxEntries,     \* _max_entries
    Batches,        \* provider calls that embed all documents of a version
    None            \* Python's None

\* EMBEDDING_CONNECTION_ERROR stands for every provider error but a timeout;
\* BuildCancelled for an exception that is not an Exception.
TimedOut == "EMBEDDING_TIMEOUT"
BuildFailed == "EMBEDDING_INDEX_BUILD_FAILED"
BuildErrors == {TimedOut, "EMBEDDING_CONNECTION_ERROR", BuildFailed}
Cancelled == "BuildCancelled"

VARIABLES
    want,           \* the version of each request
    deadline,       \* its deadline_at: "none", "ahead" or "over"
    pc,             \* where each request is
    embedded,       \* the batches a builder has embedded
    joined,         \* the flight a waiting request holds
    completed,      \* what Event.wait returned to it
    answer,         \* what the request returned or raised
    indexes,        \* _indexes, least recently used first
    flights,        \* _flights
    flight,         \* the _BuildFlight objects
    recent          \* history: every version ever used, by its last use

requestVars == <<want, deadline, pc, embedded, joined, completed, answer>>
vars == <<requestVars, indexes, flights, flight, recent>>

-----------------------------------------------------------------------------
(* Values                                                                  *)

\* An index remembers who built it: equal contents, distinct objects.
Index == [version : Versions, by : Requests, size : 0..Batches]

\* None is no other value, and a process has finitely many threads.
IndexAssumption ==
    /\ IsFiniteSet(Requests)
    /\ MaxEntries \in Nat \ {0} /\ Batches \in Nat
    /\ None \notin Requests /\ None \notin Index
    /\ None \notin BuildErrors \cup {Cancelled}

Returned(index) == [index |-> index, error |-> None]
Raised(error) == [index |-> None, error |-> error]
Answers == [index : Index \cup {None},
            error : BuildErrors \cup {Cancelled, None}]
NoAnswer == Returned(None)

NewFlight == [event |-> FALSE, result |-> None, error |-> None,
              waiter_count |-> 0]
Flight == [event : BOOLEAN, result : Index \cup {None},
           error : BuildErrors \cup {None}, waiter_count : Nat]

\* OrderedDict.move_to_end of the i-th entry.
ToEnd(s, i) ==
    [j \in 1..Len(s) |-> IF j < i THEN s[j]
                         ELSE IF j < Len(s) THEN s[j + 1] ELSE s[i]]

\* Faulty variant: the newest entry goes.
FaultyEvict(s) == IF Len(s) > MaxEntries THEN SubSeq(s, 1, MaxEntries) ELSE s

\* popitem(last=False) while the registry is over its limit.
Evict(s) == IF Len(s) > MaxEntries
            THEN SubSeq(s, Len(s) - MaxEntries + 1, Len(s)) ELSE s

Resident == {indexes[i].version : i \in 1..Len(indexes)}
Waiting(f) == {r \in Requests : /\ joined[r] = f
                                /\ pc[r] \in {"joined", "wait", "leave"}}

\* The versions by last use if nothing were ever evicted.
Use(v) ==
    IF \E i \in 1..Len(recent) : recent[i] = v
    THEN \E i \in 1..Len(recent) : recent[i] = v /\ recent' = ToEnd(recent, i)
    ELSE recent' = Append(recent, v)

Ends(r, outcome) == /\ pc' = [pc EXCEPT ![r] = "done"]
                    /\ answer' = [answer EXCEPT ![r] = outcome]
Goes(r, place) == pc' = [pc EXCEPT ![r] = place] /\ UNCHANGED answer

-----------------------------------------------------------------------------
(* Every request reads its version and deadline before it takes the lock.  *)

Init ==
    /\ want \in [Requests -> Versions]
    /\ deadline \in [Requests -> {"none", "ahead"}]
    /\ pc = [r \in Requests |-> "call"]
    /\ embedded = [r \in Requests |-> 0]
    /\ joined = [r \in Requests |-> None]
    /\ completed = [r \in Requests |-> FALSE]
    /\ answer = [r \in Requests |-> NoAnswer]
    /\ indexes = <<>>
    /\ flights = [v \in Versions |-> None]
    /\ flight = [r \in Requests |-> NewFlight]
    /\ recent = <<>>

\* The deadline of a request passes.
Expire(r) ==
    /\ deadline[r] = "ahead" /\ pc[r] # "done"
    /\ deadline' = [deadline EXCEPT ![r] = "over"]
    /\ UNCHANGED <<want, pc, embedded, joined, completed, answer, indexes,
                   flights, flight, recent>>

\* The provider is no longer the one the version was made from.
Refuse(r) ==
    /\ pc[r] = "call"
    /\ Ends(r, Raised(BuildFailed))
    /\ UNCHANGED <<want, deadline, embedded, joined, completed, indexes,
                   flights, flight, recent>>

\* Faulty variant: a use leaves the entry in its place.
FaultyHit(r) ==
    /\ pc[r] = "call"
    /\ \E i \in 1..Len(indexes) :
        /\ indexes[i].version = want[r]
        /\ Ends(r, Returned(indexes[i]))
    /\ Use(want[r])
    /\ UNCHANGED <<want, deadline, embedded, joined, completed, indexes,
                   flights, flight>>

\* First critical section, the version is resident.
Hit(r) ==
    /\ pc[r] = "call"
    /\ \E i \in 1..Len(indexes) :
        /\ indexes[i].version = want[r]
        /\ indexes' = ToEnd(indexes, i)
        /\ Ends(r, Returned(indexes[i]))
    /\ Use(want[r])
    /\ UNCHANGED <<want, deadline, embedded, joined, completed, flights, flight>>

\* Faulty variant: the flight is not registered.
FaultyStartBuild(r) ==
    /\ pc[r] = "call" /\ want[r] \notin Resident /\ flights[want[r]] = None
    /\ Goes(r, "build")
    /\ UNCHANGED <<want, deadline, embedded, joined, completed, indexes,
                   flights, flight, recent>>

\* First critical section, nobody builds the version.
StartBuild(r) ==
    /\ pc[r] = "call" /\ want[r] \notin Resident /\ flights[want[r]] = None
    /\ flights' = [flights EXCEPT ![want[r]] = r]
    /\ Goes(r, "build")
    /\ UNCHANGED <<want, deadline, embedded, joined, completed, indexes,
                   flight, recent>>

\* Faulty variant: the waiter is not counted.
FaultyJoin(r) ==
    /\ pc[r] = "call" /\ want[r] \notin Resident /\ flights[want[r]] # None
    /\ joined' = [joined EXCEPT ![r] = flights[want[r]]]
    /\ Goes(r, "joined")
    /\ UNCHANGED <<want, deadline, embedded, completed, indexes, flights,
                   flight, recent>>

\* First critical section, another request builds it.
Join(r) ==
    /\ pc[r] = "call" /\ want[r] \notin Resident /\ flights[want[r]] # None
    /\ joined' = [joined EXCEPT ![r] = flights[want[r]]]
    /\ flight' = [flight EXCEPT ![flights[want[r]]].waiter_count = @ + 1]
    /\ Goes(r, "joined")
    /\ UNCHANGED <<want, deadline, embedded, completed, indexes, flights, recent>>

-----------------------------------------------------------------------------
(* The builder, outside the lock                                           *)

\* One provider call, with what is left of the builder's time as timeout.
EmbedBatch(r) ==
    /\ pc[r] = "build" /\ embedded[r] < Batches /\ deadline[r] # "over"
    /\ embedded' = [embedded EXCEPT ![r] = @ + 1]
    /\ UNCHANGED <<want, deadline, pc, joined, completed, answer, indexes,
                   flights, flight, recent>>

\* The last critical section: whoever waits is told, the version is free.
Land(r, result, error) ==
    /\ flight' = [flight EXCEPT ![r] = [event |-> TRUE, result |-> result,
                       error |-> error, waiter_count |-> @.waiter_count]]
    /\ flights' = [flights EXCEPT ![want[r]] = None]

\* An error of the provider, a vector it may not return, no time left, or,
\* before the first batch, a provider that has changed.
BuildFails(r) ==
    /\ pc[r] = "build"
    /\ \E error \in BuildErrors :
        /\ embedded[r] < Batches \/ (embedded[r] = 0 /\ error = BuildFailed)
        /\ Ends(r, Raised(error))
        /\ Land(r, None, error)
    /\ UNCHANGED <<want, deadline, embedded, joined, completed, indexes, recent>>

\* Faulty variants: only an Exception lands the flight; the waiters are given
\* the exception that stops the builder.
FaultyBuildStops(r) ==
    /\ pc[r] = "build" /\ embedded[r] < Batches
    /\ Ends(r, Raised(Cancelled))
    /\ UNCHANGED <<want, deadline, embedded, joined, completed, indexes,
                   flights, flight, recent>>
FaultyBuildStopsAll(r) ==
    /\ pc[r] = "build" /\ embedded[r] < Batches
    /\ Ends(r, Raised(Cancelled))
    /\ Land(r, None, Cancelled)
    /\ UNCHANGED <<want, deadline, embedded, joined, completed, indexes, recent>>

\* The thread is told to stop inside a provider call.
BuildStops(r) ==
    /\ pc[r] = "build" /\ embedded[r] < Batches
    /\ Ends(r, Raised(Cancelled))
    /\ Land(r, None, BuildFailed)
    /\ UNCHANGED <<want, deadline, embedded, joined, completed, indexes, recent>>

Built(r) == [version |-> want[r], by |-> r, size |-> embedded[r]]

\* Faulty variant: an index is published before it is whole.
FaultyPublish(r) ==
    /\ pc[r] = "build"
    /\ indexes' = Evict(Append(indexes, Built(r)))
    /\ Use(want[r])
    /\ Ends(r, Returned(Built(r)))
    /\ Land(r, Built(r), None)
    /\ UNCHANGED <<want, deadline, embedded, joined, completed>>

Publish(r) ==
    /\ pc[r] = "build" /\ embedded[r] = Batches
    /\ indexes' = Evict(Append(indexes, Built(r)))
    /\ Use(want[r])
    /\ Ends(r, Returned(Built(r)))
    /\ Land(r, Built(r), None)
    /\ UNCHANGED <<want, deadline, embedded, joined, completed>>

-----------------------------------------------------------------------------
(* A waiting request                                                       *)

\* _remaining_timeout raises before the try block: the request stays counted.
TooLate(r) ==
    /\ pc[r] = "joined" /\ deadline[r] = "over"
    /\ Ends(r, Raised(TimedOut))
    /\ UNCHANGED <<want, deadline, embedded, joined, completed, indexes,
                   flights, flight, recent>>

Wait(r) ==
    /\ pc[r] = "joined" /\ deadline[r] # "over"
    /\ Goes(r, "wait")
    /\ UNCHANGED <<want, deadline, embedded, joined, completed, indexes,
                   flights, flight, recent>>

\* Faulty variant: the wait has no timeout.
FaultyWaitReturns(r) ==
    /\ pc[r] = "wait" /\ flight[joined[r]].event
    /\ completed' = [completed EXCEPT ![r] = TRUE]
    /\ Goes(r, "leave")
    /\ UNCHANGED <<want, deadline, embedded, joined, indexes, flights, flight,
                   recent>>

\* Event.wait returns.  A wait that has timed out returns False even when the
\* event is set before the thread runs again.
WaitReturns(r) ==
    /\ pc[r] = "wait"
    /\ \/ flight[joined[r]].event /\ completed' = [completed EXCEPT ![r] = TRUE]
       \/ deadline[r] = "over" /\ UNCHANGED completed
    /\ Goes(r, "leave")
    /\ UNCHANGED <<want, deadline, embedded, joined, indexes, flights, flight,
                   recent>>

\* The finally block, under the lock.
Leave(r) ==
    /\ pc[r] = "leave"
    /\ flight' = [flight EXCEPT ![joined[r]].waiter_count =
                                    IF @ = 0 THEN 0 ELSE @ - 1]
    /\ Goes(r, "read")
    /\ UNCHANGED <<want, deadline, embedded, joined, completed, indexes,
                   flights, recent>>

\* Faulty variant: the error of the flight is not looked at.
FaultyTold(f) == Returned(f.result)

\* What the flight tells a request that waited, read without the lock.
Told(f) ==
    IF f.error # None THEN Raised(f.error)
    ELSE IF f.result = None THEN Raised(BuildFailed) ELSE Returned(f.result)

Read(r) ==
    /\ pc[r] = "read"
    /\ Ends(r, IF completed[r] THEN Told(flight[joined[r]])
               ELSE Raised(TimedOut))
    /\ UNCHANGED <<want, deadline, embedded, joined, completed, indexes,
                   flights, flight, recent>>

Lookup(r) == Refuse(r) \/ Hit(r) \/ StartBuild(r) \/ Join(r)
Build(r) == EmbedBatch(r) \/ BuildFails(r) \/ BuildStops(r) \/ Publish(r)
Follow(r) == TooLate(r) \/ Wait(r) \/ WaitReturns(r) \/ Leave(r) \/ Read(r)

Finished == (\A r \in Requests : pc[r] = "done") /\ UNCHANGED vars

Next == \/ \E r \in Requests : Expire(r) \/ Lookup(r) \/ Build(r) \/ Follow(r)
        \/ Finished

\* Threads are scheduled, and a provider call ends: it has a timeout of its own.
Spec == /\ Init /\ [][Next]_vars
        /\ \A r \in Requests : /\ WF_vars(Lookup(r) \/ Follow(r))
                               /\ WF_vars(Build(r))

\* The fairness when a provider call may never end.
Stalled == \A r \in Requests : WF_vars(Lookup(r) \/ Follow(r))

-----------------------------------------------------------------------------
(* Properties                                                              *)

\* The fields of every request, flight and cached index hold what the code
\* puts there.
TypeOK ==
    /\ want \in [Requests -> Versions]
    /\ deadline \in [Requests -> {"none", "ahead", "over"}]
    /\ pc \in [Requests -> {"call", "build", "joined", "wait", "leave", "read",
                            "done"}]
    /\ embedded \in [Requests -> 0..Batches]
    /\ joined \in [Requests -> Requests \cup {None}]
    /\ completed \in [Requests -> BOOLEAN]
    /\ answer \in [Requests -> Answers]
    /\ indexes \in Seq(Index)
    /\ flights \in [Versions -> Requests \cup {None}]
    /\ flight \in [Requests -> Flight]
    /\ recent \in Seq(Versions)

\* However lookups and builds interleave, a version has one builder at a time,
\* and a version that is resident has none: nobody pays for a second build.
OneBuilder ==
    \A r \in Requests : pc[r] = "build" =>
        /\ want[r] \notin Resident
        /\ \A other \in Requests :
               pc[other] = "build" /\ want[other] = want[r] => other = r

\* Whoever waits without a result waits for a request that still builds the
\* version it wants: no failure, and no stopped thread, leaves a waiter behind.
NobodyStranded ==
    \A r \in Requests :
        pc[r] \in {"joined", "wait"} /\ ~flight[joined[r]].event =>
            /\ pc[joined[r]] = "build" /\ want[joined[r]] = want[r]
            /\ flights[want[r]] = joined[r]

\* A request that joined a flight gets what its builder got, the very same
\* index or an error of the same kind; or it times out, and then its own
\* deadline is over.
SameAnswer ==
    \A r \in Requests : pc[r] = "done" /\ joined[r] # None =>
        \/ /\ pc[joined[r]] = "done"
           /\ answer[r] = IF answer[joined[r]] = Raised(Cancelled)
                          THEN Raised(BuildFailed) ELSE answer[joined[r]]
        \/ answer[r] = Raised(TimedOut) /\ deadline[r] = "over"

\* A failed or unfinished build is never published: every resident index has
\* all its documents and is what its builder returned, and so is every index
\* a request is given, which is of the version it asked for.
OnlyWholeIndexes ==
    /\ \A i \in 1..Len(indexes) :
           /\ indexes[i].size = Batches
           /\ answer[indexes[i].by] = Returned(indexes[i])
    /\ \A r \in Requests : answer[r].index # None =>
           /\ answer[r].index.version = want[r]
           /\ answer[r].index.size = Batches
           /\ answer[answer[r].index.by] = Returned(answer[r].index)

\* The registry holds the MaxEntries versions used last, in that order: no
\* more, no other, none of them twice, and none is evicted early.
LeastRecentlyUsed ==
    /\ Len(indexes) = IF Len(recent) < MaxEntries THEN Len(recent)
                      ELSE MaxEntries
    /\ \A i \in 1..Len(indexes) :
           indexes[i].version = recent[Len(recent) - Len(indexes) + i]
    /\ \A i, j \in 1..Len(recent) : recent[i] = recent[j] => i = j

\* waiting_build_count never misses a request that waits.
WaitersCounted ==
    \A f \in Requests : Cardinality(Waiting(f)) <= flight[f].waiter_count

\* The waiters that waiting_build_count reports are gone when nobody waits.
NobodyLeftCounted ==
    (\A f \in Requests : Waiting(f) = {}) =>
        \A v \in Versions : flights[v] # None =>
                                flight[flights[v]].waiter_count = 0

\* Waiters read a flight without the lock: once its event is set, its result
\* and its error never change again.
LandedForGood ==
    [][\A f \in Requests : flight[f].event =>
           /\ flight'[f].event
           /\ flight'[f].result = flight[f].result
           /\ flight'[f].error = flight[f].error]_vars

\* Every request returns or raises.
Terminates == <>(\A r \in Requests : pc[r] = "done")

\* A request whose time is over stops waiting, even for a build that hangs.
GivesUp == \A r \in Requests :
    (pc[r] \in {"joined", "wait"} /\ deadline[r] = "over") ~> (pc[r] = "done")

\* No call of the provider hangs.
BuildsEnd == \A r \in Requests : WF_vars(Build(r))

=============================================================================
