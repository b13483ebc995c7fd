--------------------------- MODULE MCConnections ---------------------------
(* Connections for TLC: the pool of the MySQL and StarRocks connectors     *)
(* under several threads, and the attempts of one operation. They share no *)
(* state: the first state says which of them runs.                         *)
EXTENDS ConnectionPool, Integers, TLC

CONSTANTS
    u1, u2, d1, d2,
    CallRetries, Limits, PoolTimeout, StatementTimeout, Statements, MaxOps

Off == "off"

VARIABLES
    part,           \* the component that runs
    now, op, index, told, until, left, grant, todo, source, snapshot, error,
    attempts, ops

\* What does not belong to the component has no value.
outsidePool == <<now, op, index, told, until, left, grant, todo, source,
                 snapshot, error, attempts, ops>>
outsideRetry == <<pool, opens, filled, owner, idle, created, closed, conn,
                  kind, using, held, retry, pending, committed, answer>>

OnlyPool ==
    /\ now = Off /\ op = Off /\ index = Off /\ told = Off /\ until = Off
    /\ left = Off /\ grant = Off /\ todo = Off /\ source = Off
    /\ snapshot = Off /\ error = Off /\ attempts = Off /\ ops = Off
OnlyRetry ==
    /\ pool = Off /\ opens = Off /\ filled = Off /\ owner = Off
    /\ idle = [p \in Pools |-> <<>>] /\ created = Off /\ closed = Off
    /\ conn = Off /\ kind = Off /\ using = Off /\ held = <<>> /\ retry = Off
    /\ pending = Off /\ committed = Off /\ answer = Off

StarRocks == INSTANCE ConnectionPool WITH
    Threads <- {u1, u2}, Conns <- {d1, d2}, MinSize <- 1, MaxSize <- 1,
    Retries <- 1, MaxOpens <- 1, Discards <- FALSE
PG == INSTANCE ConnectorRetry WITH
    Kind <- "postgres", Retries <- CallRetries
MC == INSTANCE ConnectorRetry WITH
    Kind <- "mysql", Retries <- CallRetries

MCInit ==
    \/ part = "mysql" /\ Init /\ OnlyPool
    \/ part = "starrocks" /\ StarRocks!Init /\ OnlyPool
    \/ part = "postgres" /\ PG!Init /\ OnlyRetry
    \/ part = "mysql calls" /\ MC!Init /\ OnlyRetry

MCNext ==
    \/ /\ part = "mysql" /\ Next
       /\ UNCHANGED <<part, outsidePool>>
    \/ /\ part = "starrocks" /\ StarRocks!Next
       /\ UNCHANGED <<part, outsidePool>>
    \/ /\ part = "postgres" /\ PG!Next
       /\ UNCHANGED <<part, outsideRetry>>
    \/ /\ part = "mysql calls" /\ MC!Next
       /\ UNCHANGED <<part, outsideRetry>>

mcVars == <<part, pool, opens, filled, owner, idle, created, closed, conn, pc,
                  kind, using, held, retry, pending, committed, answer, now,
                  op, index, told, until, left, grant, todo, source, snapshot,
                  error, attempts, ops>>
MCSpec ==
    /\ MCInit /\ [][MCNext]_mcVars
    /\ \A t \in {u1, u2} :
           WF_mcVars(/\ part = "starrocks" /\ StarRocks!Works(t)
                     /\ UNCHANGED <<part, outsidePool>>)
    /\ WF_mcVars(/\ part = "starrocks" /\ UNCHANGED <<part, outsidePool>>
                 /\ StarRocks!Opened \/ StarRocks!Drain \/ StarRocks!Closed)
    /\ WF_mcVars(/\ part = "postgres" /\ PG!Continues
                 /\ UNCHANGED <<part, outsideRetry>>)

-----------------------------------------------------------------------------
(* The values of pools, threads and operations are of the declared kinds.  *)
MCTypeOK ==
    /\ part = "mysql" => TypeOK
    /\ part = "starrocks" => StarRocks!TypeOK
    /\ part = "postgres" => PG!TypeOK
    /\ part = "mysql calls" => MC!TypeOK

(* The pool of the MySQL connector puts no connection back that failed. As *)
(* long as the connector has been opened once, at most max_pool_size       *)
(* connections are in use or idle, no slot is lost or given twice while    *)
(* the pool is open, and a statement that was run and committed is neither *)
(* run again nor reported as failed, unless the connector is closed under  *)
(* it.                                                                     *)
PoolKept ==
    part = "mysql" =>
        /\ IdleUsable
        /\ opens <= 1 => Bounded /\ SlotsKept /\ ResultKept

(* What an operation tells and takes: the retry count is the number of     *)
(* attempts after the first, execute of PostgreSQL ends within its timeout *)
(* with all its attempts, and the operations that share one limit between  *)
(* statements, or wait in the pool of MySQL, end late by no more than      *)
(* that.  What is answered while a snapshot is open was read in that       *)
(* snapshot: no retry leaves it for a connection that sees newer data      *)
(* (read_only_snapshot).                                                   *)
CallsKept ==
    /\ [](part = "postgres" =>
             PG!RetriesTold /\ PG!ExecuteInTime /\ PG!OverrunBounded)
    /\ [](part = "mysql calls" => MC!RetriesTold /\ MC!OverrunBounded)
    /\ [][/\ part = "postgres" => PG!SnapshotServes
          /\ part = "mysql calls" => MC!SnapshotServes]_mcVars

(* Every operation returns or raises, also when the connector is closed    *)
(* under it and every connection breaks, and StarRocks takes no more than  *)
(* max_pool_size connections for that.                                     *)
Returns ==
    /\ \A t \in {u1, u2} : (part = "starrocks" /\ pc[t] # "out")
                            ~> (part = "starrocks" /\ pc[t] = "out")
    /\ (part = "postgres" /\ pc = "attempt")
          ~> (part = "postgres" /\ pc = "done")
    /\ [](part = "starrocks" => StarRocks!Bounded)

(* close(): "关闭连接池并释放全部连接" (mysql.py:136), the pool is closed and all      *)
(* connections are released, once nothing runs any more.                   *)
NothingLeft == part = "mysql" => AllReleased

ASSUME MCAssumption ==
    /\ PoolAssumption /\ StarRocks!PoolAssumption
    /\ PG!RetryAssumption /\ MC!RetryAssumption

\* Threads have no order, and one connection is as good as another.  The
\* part of StarRocks, whose operations have to end, has values of its own that
\* are not exchanged, and the one of PostgreSQL has none.
Symmetry == Permutations(Threads) \cup Permutations(Conns)

=============================================================================
