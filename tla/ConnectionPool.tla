--------------------------- MODULE ConnectionPool ---------------------------
(***************************************************************************)
(* The connection pool of the MySQL and StarRocks connectors               *)
(* (src/app/connectors/mysql.py, starrocks.py): threads run queries and    *)
(* snapshots on borrowed connections while the owner opens and closes the  *)
(* connector and the server drops connections.  One action is one          *)
(* critical section, one operation of the queue, one exchange with the     *)
(* server, or one read of the connector's _pool.                           *)
(***************************************************************************)
EXTENDS Naturals, Sequences, FiniteSets

CONSTANTS
    Threads,        \* worker threads that share the connector
    Conns,          \* connection objects; a closed one may be created anew
    MinSize,        \* _min
    MaxSize,        \* _max
    Retries,        \* _connection_retry_count
    MaxOpens,       \* bound: how often the owner opens the connector
    Discards,       \* MySQL discards a connection it cannot roll back;
                    \* StarRocks puts it back
    None            \* Python's None

PoolAssumption ==
    /\ MinSize \in Nat \ {0} /\ MaxSize \in Nat /\ MinSize <= MaxSize
    /\ Retries \in Nat /\ MaxOpens \in Nat \ {0} /\ Discards \in BOOLEAN
    /\ IsFiniteSet(Conns) /\ IsFiniteSet(Threads)
    /\ None \notin Conns /\ None \notin Nat

VARIABLES
    pool,           \* the connector's _pool
    opens,          \* pools created so far
    filled,         \* connections open() has put into the pool so far
    owner,          \* what the owner is doing: "fill" and "drain" are inside
                    \* open() and close()
    idle,           \* _queue of each pool
    created,        \* _created of each pool
    closed,         \* closed of each pool
    conn,           \* "ok", "lost" (dropped by the server, not yet noticed),
                    \* "dead" (pymysql has closed the socket) or "closed"
    pc,             \* where each thread is
    kind,           \* "execute" or "snapshot"
    using,          \* the pool a thread last read from the connector
    held,           \* the connection it has borrowed
    retry,          \* retry_index
    pending,        \* how the attempt ends once the connection is returned
    committed,      \* the statement of this operation has been committed
    answer          \* what the operation returned

poolVars == <<pool, opens, filled, owner, idle, created, closed, conn>>
threadVars == <<pc, kind, using, held, retry, pending, committed, answer>>
vars == <<poolVars, threadVars>>

Pools == 1..MaxOpens

Init ==
    /\ pool = None /\ opens = 0 /\ filled = 0 /\ owner = "away"
    /\ idle = [p \in Pools |-> <<>>]
    /\ created = [p \in Pools |-> 0]
    /\ closed = [p \in Pools |-> FALSE]
    /\ conn = [c \in Conns |-> "closed"]
    /\ pc = [t \in Threads |-> "out"]
    /\ kind = [t \in Threads |-> "execute"]
    /\ using = [t \in Threads |-> None]
    /\ held = [t \in Threads |-> None]
    /\ retry = [t \in Threads |-> 0]
    /\ pending = [t \in Threads |-> "ok"]
    /\ committed = [t \in Threads |-> FALSE]
    /\ answer = [t \in Threads |-> "none"]

-----------------------------------------------------------------------------
(* What the operations share                                               *)

\* Faulty variant: the slot of a discarded connection is not released.
FaultyDiscard(p, c) ==
    /\ conn' = [conn EXCEPT ![c] = "closed"]
    /\ UNCHANGED created

\* _ConnectionPool.discard.
Discard(p, c) ==
    /\ created' = [created EXCEPT ![p] = IF @ = 0 THEN 0 ELSE @ - 1]
    /\ conn' = [conn EXCEPT ![c] = "closed"]

\* The locals of an attempt.
Forgets(t) == /\ held' = [held EXCEPT ![t] = None]
              /\ using' = [using EXCEPT ![t] = None]
              /\ pending' = [pending EXCEPT ![t] = "ok"]

\* Faulty variants: one attempt too many; attempts that are not counted; the
\* loop goes on after a success.
FaultyEndsLate(t, how) ==
    /\ Forgets(t)
    /\ IF how = "again" /\ kind[t] = "execute" /\ retry[t] <= Retries
       THEN /\ retry' = [retry EXCEPT ![t] = @ + 1]
            /\ pc' = [pc EXCEPT ![t] = "borrow"]
            /\ UNCHANGED answer
       ELSE /\ pc' = [pc EXCEPT ![t] = "out"]
            /\ answer' = [answer EXCEPT ![t] = IF how = "ok" THEN "rows"
                                               ELSE "error"]
            /\ UNCHANGED retry
FaultyEndsNever(t, how) ==
    /\ Forgets(t)
    /\ IF how = "again" /\ kind[t] = "execute"
       THEN /\ pc' = [pc EXCEPT ![t] = "borrow"]
            /\ UNCHANGED <<retry, answer>>
       ELSE /\ pc' = [pc EXCEPT ![t] = "out"]
            /\ answer' = [answer EXCEPT ![t] = IF how = "ok" THEN "rows"
                                               ELSE "error"]
            /\ UNCHANGED retry
FaultyEnds(t, how) ==
    /\ Forgets(t)
    /\ IF how # "fatal" /\ kind[t] = "execute" /\ retry[t] < Retries
       THEN /\ retry' = [retry EXCEPT ![t] = @ + 1]
            /\ pc' = [pc EXCEPT ![t] = "borrow"]
            /\ UNCHANGED answer
       ELSE /\ pc' = [pc EXCEPT ![t] = "out"]
            /\ answer' = [answer EXCEPT ![t] = IF how = "ok" THEN "rows"
                                               ELSE "error"]
            /\ UNCHANGED retry

\* An attempt is over.  normalize_database_error finds a connection error
\* retryable ("again"), and every exception that is not the driver's, an
\* AttributeError of a missing pool and queue.Empty included; a second
\* attempt is only made by execute and read_metadata.
Ends(t, how) ==
    /\ Forgets(t)
    /\ IF how = "again" /\ kind[t] = "execute" /\ retry[t] < Retries
       THEN /\ retry' = [retry EXCEPT ![t] = @ + 1]
            /\ pc' = [pc EXCEPT ![t] = "borrow"]
            /\ UNCHANGED answer
       ELSE /\ pc' = [pc EXCEPT ![t] = "out"]
            /\ answer' = [answer EXCEPT ![t] = IF how = "ok" THEN "rows"
                                               ELSE "error"]
            /\ UNCHANGED retry

Goes(t, place) == pc' = [pc EXCEPT ![t] = place]

\* The connection cannot be used again.  MySQL discards it through the pool
\* the connector has by now; StarRocks swallows the failure of the rollback
\* and puts the connection back.
Unusable(t, how) ==
    \/ /\ Discards /\ pool # None
       /\ Discard(pool, held[t]) /\ Ends(t, how)
       /\ UNCHANGED <<pool, opens, filled, owner, idle, closed, kind,
                      committed>>
    \/ /\ Discards /\ pool = None
       /\ conn' = [conn EXCEPT ![held[t]] = IF @ = "lost" THEN "dead" ELSE @]
       /\ Ends(t, "again")
       /\ UNCHANGED <<pool, opens, filled, owner, idle, created, closed, kind,
                      committed>>
    \/ /\ ~Discards
       /\ conn' = [conn EXCEPT ![held[t]] = IF @ = "lost" THEN "dead" ELSE @]
       /\ pending' = [pending EXCEPT ![t] = how]
       /\ Goes(t, "putback")
       /\ UNCHANGED <<pool, opens, filled, owner, idle, created, closed, kind,
                      using, held, retry, committed, answer>>

-----------------------------------------------------------------------------
(* The owner: open() once, close() at any time, open() again               *)

\* check_connection succeeds; the new pool is visible before it is filled.
Open ==
    /\ owner = "away" /\ opens < MaxOpens
    /\ opens' = opens + 1 /\ pool' = opens + 1 /\ filled' = 0
    /\ owner' = "fill"
    /\ UNCHANGED <<idle, created, closed, conn, threadVars>>

Fill ==
    /\ owner = "fill" /\ filled < MinSize
    /\ filled' = filled + 1
    /\ \E c \in Conns :
        /\ conn[c] = "closed"
        /\ conn' = [conn EXCEPT ![c] = "ok"]
        /\ idle' = [idle EXCEPT ![pool] = Append(@, c)]
        /\ created' = [created EXCEPT ![pool] = @ + 1]
    /\ UNCHANGED <<pool, opens, owner, closed, threadVars>>

\* open() returns, or raises half-way and leaves the pool as it is.
Opened ==
    /\ owner = "fill" /\ owner' = "here" /\ filled' = 0
    /\ UNCHANGED <<pool, opens, idle, created, closed, conn, threadVars>>

Close ==
    /\ owner = "here"
    /\ closed' = [closed EXCEPT ![pool] = TRUE]
    /\ owner' = "drain"
    /\ UNCHANGED <<pool, opens, filled, idle, created, conn, threadVars>>

Drain ==
    /\ owner = "drain" /\ idle[pool] # <<>>
    /\ idle' = [idle EXCEPT ![pool] = Tail(@)]
    /\ Discard(pool, Head(idle[pool]))
    /\ UNCHANGED <<pool, opens, filled, owner, closed, threadVars>>

Closed ==
    /\ owner = "drain" /\ idle[pool] = <<>>
    /\ pool' = None /\ owner' = "away"
    /\ UNCHANGED <<opens, filled, idle, created, closed, conn, threadVars>>

\* The server drops a connection, idle or in use.
Lose(c) ==
    /\ conn[c] = "ok" /\ conn' = [conn EXCEPT ![c] = "lost"]
    /\ UNCHANGED <<pool, opens, filled, owner, idle, created, closed,
                   threadVars>>

-----------------------------------------------------------------------------
(* A thread: execute or read_metadata with its retries, or a snapshot      *)

\* The connector is handed out once open() has returned.
Call(t) ==
    /\ pc[t] = "out" /\ opens > 0 /\ owner # "fill"
    /\ kind' \in {[kind EXCEPT ![t] = k] : k \in {"execute", "snapshot"}}
    /\ retry' = [retry EXCEPT ![t] = 0]
    /\ committed' = [committed EXCEPT ![t] = FALSE]
    /\ answer' = [answer EXCEPT ![t] = "none"]
    /\ Goes(t, "borrow")
    /\ UNCHANGED <<poolVars, using, held, pending>>

\* _remaining_timeout: the time of the operation is over before an attempt.
TimedOut(t) ==
    /\ pc[t] = "borrow" /\ kind[t] = "execute" /\ Ends(t, "fatal")
    /\ UNCHANGED <<poolVars, kind, committed>>

\* connection() of no pool, of a closed pool, of an open pool.
Borrow(t) ==
    /\ pc[t] = "borrow"
    /\ \/ pool = None /\ Ends(t, "again")
       \/ pool # None /\ closed[pool] /\ Ends(t, "fatal")
       \/ /\ pool # None /\ ~closed[pool]
          /\ using' = [using EXCEPT ![t] = pool]
          /\ Goes(t, "get")
          /\ UNCHANGED <<held, retry, pending, answer>>
    /\ UNCHANGED <<poolVars, kind, committed>>

\* Either queue.get returns a connection.
Take(t) ==
    /\ pc[t] \in {"get", "wait"} /\ idle[using[t]] # <<>>
    /\ held' = [held EXCEPT ![t] = Head(idle[using[t]])]
    /\ idle' = [idle EXCEPT ![using[t]] = Tail(@)]
    /\ Goes(t, "begin")
    /\ UNCHANGED <<pool, opens, filled, owner, created, closed, conn, kind,
                   using,
                   retry, pending, committed, answer>>

\* The first queue.get runs out of time.
NoneIdle(t) ==
    /\ pc[t] = "get" /\ idle[using[t]] = <<>>
    /\ Goes(t, "grow")
    /\ UNCHANGED <<poolVars, kind, using, held, retry, pending, committed,
                   answer>>

\* Faulty variant: the limit is off by one.
FaultyGrow(t) ==
    /\ pc[t] = "grow" /\ created[using[t]] <= MaxSize
    /\ \E c \in Conns :
        /\ conn[c] = "closed"
        /\ conn' = [conn EXCEPT ![c] = "ok"]
        /\ created' = [created EXCEPT ![using[t]] = @ + 1]
        /\ held' = [held EXCEPT ![t] = c]
    /\ Goes(t, "begin")
    /\ UNCHANGED <<pool, opens, filled, owner, idle, closed, kind, using,
                   retry,
                   pending, committed, answer>>

\* Under the lock, with the lock held while the server answers: whether the
\* pool has been closed meanwhile is not looked at.
Grow(t) ==
    /\ pc[t] = "grow" /\ created[using[t]] < MaxSize
    /\ \E c \in Conns :
        /\ conn[c] = "closed"
        /\ conn' = [conn EXCEPT ![c] = "ok"]
        /\ created' = [created EXCEPT ![using[t]] = @ + 1]
        /\ held' = [held EXCEPT ![t] = c]
    /\ Goes(t, "begin")
    /\ UNCHANGED <<pool, opens, filled, owner, idle, closed, kind, using,
                   retry,
                   pending, committed, answer>>

\* The server refuses the new connection, for now or for good.
GrowFails(t) ==
    /\ pc[t] = "grow" /\ created[using[t]] < MaxSize
    /\ Ends(t, "again") \/ Ends(t, "fatal")
    /\ UNCHANGED <<poolVars, kind, committed>>

Full(t) ==
    /\ pc[t] = "grow" /\ created[using[t]] >= MaxSize
    /\ Goes(t, "wait")
    /\ UNCHANGED <<poolVars, kind, using, held, retry, pending, committed,
                   answer>>

\* The second queue.get runs out of time too.
Exhausted(t) ==
    /\ pc[t] = "wait" /\ idle[using[t]] = <<>> /\ Ends(t, "again")
    /\ UNCHANGED <<poolVars, kind, committed>>

\* START TRANSACTION READ ONLY, or begin().
Begin(t) ==
    /\ pc[t] = "begin" /\ conn[held[t]] = "ok"
    /\ Goes(t, "run")
    /\ UNCHANGED <<poolVars, kind, using, held, retry, pending, committed,
                   answer>>

\* Lost connections are reported as 2006 or 2013, a connection error; on a
\* dead one pymysql raises InterfaceError(0), which is not.
LossIs(t) == IF conn[held[t]] = "lost" THEN "again" ELSE "fatal"

BeginFails(t) == pc[t] = "begin" /\ Unusable(t, LossIs(t))

\* Faulty variant: MySQL does not look at the result of the rollback.
FaultyRunLost(t) ==
    /\ pc[t] = "run" /\ conn[held[t]] # "ok"
    /\ conn' = [conn EXCEPT ![held[t]] = "dead"]
    /\ pending' = [pending EXCEPT ![t] = "again"]
    /\ Goes(t, "putback")
    /\ UNCHANGED <<pool, opens, filled, owner, idle, created, closed, kind,
                   using,
                   held, retry, committed, answer>>

\* The statement, or the commit, or the rollback after a refused statement
\* finds the connection lost.
RunLost(t) ==
    /\ pc[t] = "run" /\ conn[held[t]] # "ok"
    /\ Unusable(t, LossIs(t)) \/ Unusable(t, "fatal")

\* The statement and the commit succeed; a snapshot is rolled back.
Run(t) ==
    /\ pc[t] = "run" /\ conn[held[t]] = "ok"
    /\ pending' = [pending EXCEPT ![t] = "ok"]
    /\ committed' = [committed EXCEPT ![t] = TRUE]
    /\ Goes(t, "putback")
    /\ UNCHANGED <<poolVars, kind, using, held, retry, answer>>

\* The server refuses the statement, or the connector a value of its rows: that
\* is no error of the driver and may be tried again.  The rollback succeeds.
Refused(t) ==
    /\ pc[t] = "run" /\ conn[held[t]] = "ok"
    /\ \E outcome \in {"fatal", "again"} :
           pending' = [pending EXCEPT ![t] = outcome]
    /\ Goes(t, "putback")
    /\ UNCHANGED <<poolVars, kind, using, held, retry, committed, answer>>

\* The finally block reads the connector's _pool again.  Without one the
\* AttributeError replaces the result, and the connection stays open.
PutBack(t) ==
    /\ pc[t] = "putback"
    /\ \/ /\ pool = None /\ Ends(t, "again")
          /\ UNCHANGED <<created, conn>>
       \/ /\ pool # None /\ closed[pool]
          /\ Discard(pool, held[t]) /\ Ends(t, pending[t])
       \/ /\ pool # None /\ ~closed[pool]
          /\ using' = [using EXCEPT ![t] = pool]
          /\ Goes(t, "put")
          /\ UNCHANGED <<held, retry, pending, answer, created, conn>>
    /\ UNCHANGED <<pool, opens, filled, owner, idle, closed, kind, committed>>

\* Faulty variant: the connection is returned where it failed and again in
\* the finally block.
FaultyPut(t) ==
    /\ pc[t] = "put" /\ Len(idle[using[t]]) < MaxSize
    /\ idle' = [idle EXCEPT ![using[t]] = Append(@, held[t])]
    /\ Goes(t, "putback")
    /\ UNCHANGED <<pool, opens, filled, owner, created, closed, conn, kind,
                   using,
                   held, retry, pending, committed, answer>>

\* put_nowait, after closed was read.
Put(t) ==
    /\ pc[t] = "put" /\ Len(idle[using[t]]) < MaxSize
    /\ idle' = [idle EXCEPT ![using[t]] = Append(@, held[t])]
    /\ Ends(t, pending[t])
    /\ UNCHANGED <<pool, opens, filled, owner, created, closed, conn, kind,
                   committed>>

PutFull(t) ==
    /\ pc[t] = "put" /\ Len(idle[using[t]]) >= MaxSize
    /\ Discard(using[t], held[t]) /\ Ends(t, pending[t])
    /\ UNCHANGED <<pool, opens, filled, owner, idle, closed, kind, committed>>

Owner == Open \/ Fill \/ Opened \/ Close \/ Drain \/ Closed
Works(t) == \/ TimedOut(t) \/ Borrow(t)
            \/ Take(t) \/ NoneIdle(t) \/ Grow(t) \/ GrowFails(t) \/ Full(t)
            \/ Exhausted(t)
            \/ Begin(t) \/ BeginFails(t) \/ RunLost(t) \/ Run(t) \/ Refused(t)
            \/ PutBack(t) \/ Put(t) \/ PutFull(t)

Next == \/ Owner
        \/ \E c \in Conns : Lose(c)
        \/ \E t \in Threads : Call(t) \/ Works(t)

\* A thread that runs an operation is scheduled, and queue.get and the server
\* answer or time out; open() and close() end.
Spec == /\ Init /\ [][Next]_vars
        /\ \A t \in Threads : WF_vars(Works(t))
        /\ WF_vars(Opened \/ Drain \/ Closed)

-----------------------------------------------------------------------------
(* Properties                                                              *)

Held == {held[t] : t \in DOMAIN held} \ {None}
Borrowers(p) == {t \in Threads : using[t] = p /\ pc[t] \in {"begin", "run"}}
Idle(p) == {idle[p][i] : i \in 1..Len(idle[p])}
Live == {c \in Conns : conn[c] # "closed"}

\* Pool, connections and threads hold what the code puts there.
TypeOK ==
    /\ pool \in Pools \cup {None} /\ opens \in 0..MaxOpens
    /\ filled \in 0..MinSize
    /\ owner \in {"away", "fill", "here", "drain"}
    /\ idle \in [Pools -> Seq(Conns)]
    /\ created \in [Pools -> Nat]
    /\ closed \in [Pools -> BOOLEAN]
    /\ conn \in [Conns -> {"ok", "lost", "dead", "closed"}]
    /\ pc \in [Threads -> {"out", "borrow", "get", "grow", "wait", "begin",
                           "run", "putback", "put"}]
    /\ kind \in [Threads -> {"execute", "snapshot"}]
    /\ using \in [Threads -> Pools \cup {None}]
    /\ held \in [Threads -> Conns \cup {None}]
    /\ retry \in [Threads -> 0..Retries]
    /\ pending \in [Threads -> {"ok", "again", "fatal"}]
    /\ committed \in [Threads -> BOOLEAN]
    /\ answer \in [Threads -> {"none", "rows", "error"}]

\* No two of the threads there are talk over one connection, and none over
\* one that waits in a pool: whichever way an operation fails, its connection
\* is given back at most once.
OneHolder ==
    /\ \A t, u \in DOMAIN held : held[t] # None /\ held[t] = held[u] => t = u
    /\ \A p \in Pools : Idle(p) \cap Held = {}
    /\ \A p \in Pools : \A i, j \in 1..Len(idle[p]) :
           idle[p][i] = idle[p][j] => i = j

\* max_pool_size: as many connections at most are idle in a pool or borrowed
\* from it.
Bounded ==
    \A p \in Pools : ~closed[p] =>
        Cardinality(Idle(p) \cup {held[t] : t \in Borrowers(p)}) <= MaxSize

\* A slot is neither lost, which would starve the pool, nor given twice: as
\* long as the pool is open _created counts the connections there are.
SlotsKept ==
    \A p \in Pools : pool = p /\ ~closed[p] =>
        created[p] = Cardinality(Live)

\* A connection that failed is never handed to the next operation: what is
\* idle in the pool worked when it was put there.
IdleUsable == \A p \in Pools : \A c \in Idle(p) : conn[c] \in {"ok", "lost"}

\* A statement that was run and committed is neither run again nor reported
\* as failed, unless the connector is closed under it.
ResultKept ==
    \A t \in Threads : committed[t] /\ owner = "here" /\ opens = 1 =>
        /\ answer[t] # "error"
        /\ pc[t] \in {"out", "putback", "put"}

\* close(): the pool is closed and every connection released, once nothing
\* runs any more.
AllReleased ==
    pool = None /\ (\A t \in Threads : pc[t] = "out") =>
        \A c \in Conns : conn[c] \in {"dead", "closed"}

=============================================================================
