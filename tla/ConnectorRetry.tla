---------------------------- MODULE ConnectorRetry ----------------------------
(***************************************************************************)
(* How a connector runs one operation (src/app/connectors/postgresql.py,   *)
(* mysql.py, errors.py): attempts within one timeout, a wait for a         *)
(* connection, a limit set for the statements, and the failures that are   *)
(* tried again.  A caller may keep a read-only snapshot open around        *)
(* several operations.  The state is that of one context (the retry count  *)
(* and the snapshot are context variables).  Time passes in the pool and   *)
(* in the server; the steps of the connector itself take none.             *)
(***************************************************************************)
EXTENDS Integers, FiniteSets

CONSTANTS
    Kind,               \* "postgres" or "mysql"
    Retries,            \* connection_retry_count
    Limits,             \* timeout_seconds of the calls, None among them
    PoolTimeout,        \* pool_timeout_seconds
    StatementTimeout,   \* statement_timeout_seconds
    Statements,         \* statements of one reading of the metadata
    MaxOps,             \* bound: operations of the context
    None

RetryAssumption ==
    /\ Kind \in {"postgres", "mysql"} /\ Retries \in Nat
    /\ Limits \ {None} \subseteq Nat \ {0} /\ None \notin Nat
    /\ {PoolTimeout, StatementTimeout, Statements} \subseteq Nat \ {0}
    /\ MaxOps \in Nat

VARIABLES
    now,            \* time since the operation, or the wait, began
    pc,             \* where the operation is
    op,             \* its name and its limit
    index,          \* retry_index
    told,           \* _retry_count
    until,          \* when the wait or the statement is cut
    left,           \* timeout_seconds as _execute_once received it
    grant,          \* the statement timeout of the session
    todo,           \* statements still to run
    source,         \* whose connection serves the attempt
    snapshot,       \* the snapshot of the context
    error,          \* the last failure, None when there is none
    attempts,       \* attempts that asked for a connection
    ops             \* operations so far

work == <<until, left, grant, todo, source>>
vars == <<now, pc, op, index, told, work, snapshot, error, attempts, ops>>

-----------------------------------------------------------------------------
(* errors.py                                                               *)

\* What may go wrong, and the ErrorType it is given.  "unsupported" is an
\* exception that is not the driver's, as of normalize_value on a value it
\* does not know; "inconsistent" a reference of the metadata that does not
\* resolve.
TypeOf ==
    [pool_timeout |-> "CONNECTION_ERROR", lost_08   |-> "CONNECTION_ERROR",
     lost         |-> "CONNECTION_ERROR", denied    |-> "PERMISSION_DENIED",
     refused      |-> "SYNTAX_ERROR",     cancelled |-> "TIMEOUT",
     deadline     |-> "TIMEOUT",          aborted   |-> "UNKNOWN",
     unsupported  |-> "CONNECTION_ERROR", inconsistent |-> "SCHEMA_ERROR"]
Failures == DOMAIN TypeOf

\* A PoolTimeout of psycopg is final; the Empty of the MySQL pool is not the
\* driver's and falls through to the last case.
Retryable(e) ==
    /\ TypeOf[e] = "CONNECTION_ERROR"
    /\ Kind = "postgres" => e # "pool_timeout"

-----------------------------------------------------------------------------
(* One operation                                                           *)

Init ==
    /\ now = 0 /\ pc = "idle" /\ index = 0 /\ told = 0
    /\ op = [name |-> None, limit |-> None]
    /\ until = 0 /\ left = None /\ grant = StatementTimeout /\ todo = 0
    /\ source = None /\ snapshot = "none" /\ error = None
    /\ attempts = 0 /\ ops = 0

Smaller(x, y) == IF x <= y THEN x ELSE y
Limited == op.limit # None
Remaining == op.limit - now

Fails(e) == pc' = "failed" /\ error' = e

\* What an attempt held is gone with it.
Released ==
    /\ until' = 0 /\ left' = None /\ grant' = StatementTimeout /\ todo' = 0
    /\ source' = None

\* execute, or read_metadata of a scope that is not empty.
Start(name, limit) ==
    /\ pc = "idle" /\ ops < MaxOps
    /\ op' = [name |-> name, limit |-> limit]
    /\ told' = 0 /\ ops' = ops + 1 /\ pc' = "attempt"
    /\ UNCHANGED <<now, index, error, attempts, work, snapshot>>

\* read_metadata of an empty scope asks nobody.
StartEmpty ==
    /\ pc = "idle" /\ ops < MaxOps
    /\ op' = [name |-> "metadata", limit |-> None]
    /\ told' = 0 /\ ops' = ops + 1 /\ pc' = "done"
    /\ UNCHANGED <<now, index, error, attempts, work, snapshot>>

\* The head of the loop, when nothing is left of the limit.
DeadlinePassed ==
    /\ pc = "attempt" /\ Limited /\ Remaining <= 0
    /\ told' = index /\ Fails("deadline")
    /\ UNCHANGED <<now, op, index, work, snapshot, attempts, ops>>

\* psycopg_pool is given what is left; the MySQL pool waits its whole timeout,
\* and once more when it may open no connection.
PoolWait ==
    IF Kind = "mysql" THEN 2 * PoolTimeout
    ELSE IF Limited THEN Smaller(PoolTimeout, Remaining) ELSE PoolTimeout

\* Faulty variant: outside the snapshot when that is broken.
FaultyAttempt ==
    /\ pc = "attempt" /\ (Limited => Remaining > 0)
    /\ told' = index /\ attempts' = attempts + 1
    /\ left' = IF Limited THEN Remaining ELSE None
    /\ IF snapshot = "sound"
       THEN pc' = "set" /\ source' = "snapshot" /\ until' = now
       ELSE pc' = "waiting" /\ source' = "pool" /\ until' = now + PoolWait
    /\ UNCHANGED <<now, op, index, grant, todo, snapshot, error, ops>>

\* Faulty variant: the limit is looked at by the first attempt only.
FaultyAttemptLate ==
    /\ pc = "attempt" /\ (Limited /\ index = 0 => Remaining > 0)
    /\ told' = index /\ attempts' = attempts + 1
    /\ left' = IF Limited THEN op.limit ELSE None
    /\ IF snapshot # "none"
       THEN pc' = "set" /\ source' = "snapshot" /\ until' = now
       ELSE pc' = "waiting" /\ source' = "pool" /\ until' = now + PoolWait
    /\ UNCHANGED <<now, op, index, grant, todo, snapshot, error, ops>>

\* Inside a snapshot its connection serves, whatever its state.
Attempt ==
    /\ pc = "attempt" /\ (Limited => Remaining > 0)
    /\ told' = index /\ attempts' = attempts + 1
    /\ left' = IF Limited THEN Remaining ELSE None
    /\ IF snapshot # "none"
       THEN pc' = "set" /\ source' = "snapshot" /\ until' = now
       ELSE pc' = "waiting" /\ source' = "pool" /\ until' = now + PoolWait
    /\ UNCHANGED <<now, op, index, grant, todo, snapshot, error, ops>>

Tick ==
    /\ pc \in {"waiting", "running", "opening"} /\ now < until
    /\ now' = now + 1
    /\ UNCHANGED <<pc, op, index, told, work, snapshot, error, attempts, ops>>

Borrow ==
    /\ pc = "waiting" /\ pc' = "set"
    /\ UNCHANGED <<now, op, index, told, work, snapshot, error, attempts, ops>>

PoolFails ==
    /\ pc = "waiting"
    /\ \/ now = until /\ Fails("pool_timeout")
       \/ Kind = "mysql" /\ Fails("lost")
    /\ UNCHANGED <<now, op, index, told, work, snapshot, attempts, ops>>

Usable == source = "snapshot" => snapshot = "sound"

\* What the session is given: PostgreSQL measures again, MySQL sets what the
\* attempt was given, and nothing inside a snapshot.
Limit ==
    CASE Kind = "postgres" /\ Limited -> Smaller(StatementTimeout, Remaining)
      [] source = "snapshot" /\ (Kind = "mysql" \/ ~Limited) ->
            StatementTimeout
      [] OTHER -> IF left = None THEN StatementTimeout ELSE left

\* Faulty variant: the limit is not set.
FaultySetLimit ==
    /\ pc = "set" /\ Usable
    /\ pc' = "run" /\ grant' = StatementTimeout
    /\ todo' = IF op.name = "metadata" THEN Statements ELSE 1
    /\ UNCHANGED <<now, op, index, told, until, left, source, snapshot, error,
                   attempts, ops>>

\* The transaction begins and its limit is set.
SetLimit ==
    /\ pc = "set" /\ Usable
    /\ Kind = "postgres" /\ Limited => Remaining > 0
    /\ pc' = "run" /\ grant' = Limit
    /\ todo' = IF op.name = "metadata" THEN Statements ELSE 1
    /\ UNCHANGED <<now, op, index, told, until, left, source, snapshot, error,
                   attempts, ops>>

WaitedAway ==
    /\ pc = "set" /\ Usable
    /\ Kind = "postgres" /\ Limited /\ Remaining <= 0
    /\ Fails("deadline")
    /\ UNCHANGED <<now, op, index, told, work, snapshot, attempts, ops>>

\* A snapshot whose transaction failed, or whose connection is gone.
NotUsable ==
    /\ pc = "set" /\ ~Usable
    /\ Fails(IF snapshot = "aborted" THEN "aborted" ELSE "lost")
    /\ UNCHANGED <<now, op, index, told, work, snapshot, attempts, ops>>

Run ==
    /\ pc = "run" /\ pc' = "running" /\ until' = now + grant
    /\ UNCHANGED <<now, op, index, told, left, grant, todo, source, snapshot,
                   error, attempts, ops>>

StatementEnds ==
    /\ pc = "running" /\ todo' = todo - 1
    /\ pc' = IF todo = 1 THEN "rows" ELSE "run"
    /\ UNCHANGED <<now, op, index, told, until, left, grant, source, snapshot,
                   error, attempts, ops>>

\* A failed statement of PostgreSQL aborts the transaction; execute runs in a
\* savepoint of its own, read_metadata does not.
Harm(e) ==
    IF source = "pool" THEN snapshot
    ELSE IF e \in {"lost", "lost_08"} THEN "lost"
    ELSE IF Kind = "postgres" /\ op.name = "metadata" THEN "aborted"
    ELSE snapshot

StatementFails ==
    /\ pc = "running"
    /\ \E e \in {"lost", "lost_08", "denied", "refused", "cancelled"} :
        /\ e = "cancelled" => now = until
        /\ Fails(e) /\ snapshot' = Harm(e)
    /\ UNCHANGED <<now, op, index, told, work, attempts, ops>>

\* The rows are converted, the transaction ends, the result is returned.
Succeeds ==
    /\ pc = "rows" /\ pc' = "done" /\ error' = None /\ Released
    /\ UNCHANGED <<now, op, index, told, snapshot, attempts, ops>>

RowsFail ==
    /\ pc = "rows"
    /\ \/ Fails("unsupported") /\ UNCHANGED snapshot
       \/ op.name = "metadata" /\ Fails("inconsistent") /\ UNCHANGED snapshot
       \/ Fails("lost") /\ snapshot' = Harm("lost")
    /\ UNCHANGED <<now, op, index, told, work, attempts, ops>>

Retry ==
    /\ pc = "failed" /\ Retryable(error) /\ index < Retries
    /\ pc' = "attempt" /\ index' = index + 1
    /\ error' = None /\ Released
    /\ UNCHANGED <<now, op, told, snapshot, attempts, ops>>

\* Faulty variant: the count is reset with the failure.
FaultyGiveUp ==
    /\ pc = "failed" /\ (Retryable(error) => index >= Retries)
    /\ pc' = "done" /\ told' = 0 /\ Released
    /\ UNCHANGED <<now, op, index, snapshot, error, attempts, ops>>

\* Faulty variant: a failure that may be retried is never given up.
FaultyGiveUpNever ==
    /\ pc = "failed" /\ ~Retryable(error)
    /\ pc' = "done" /\ Released
    /\ UNCHANGED <<now, op, index, told, snapshot, error, attempts, ops>>

GiveUp ==
    /\ pc = "failed" /\ (Retryable(error) => index >= Retries)
    /\ pc' = "done" /\ Released
    /\ UNCHANGED <<now, op, index, told, snapshot, error, attempts, ops>>

\* _consume_retry_count, which the node that called reads once.
Consume ==
    /\ pc = "done" /\ pc' = "idle" /\ told' = 0
    /\ now' = 0 /\ index' = 0 /\ attempts' = 0 /\ error' = None
    /\ op' = [name |-> None, limit |-> None]
    /\ UNCHANGED <<work, snapshot, ops>>

-----------------------------------------------------------------------------
(* read_only_snapshot                                                      *)

OpenSnapshot ==
    /\ pc = "idle" /\ snapshot = "none" /\ ops < MaxOps
    /\ pc' = "opening"
    /\ until' = now + (IF Kind = "mysql" THEN 2 ELSE 1) * PoolTimeout
    /\ UNCHANGED <<now, op, index, told, left, grant, todo, source, snapshot,
                   error, attempts, ops>>

\* The snapshot is not tried again.
Opened ==
    /\ pc = "opening" /\ pc' = "idle"
    /\ \/ snapshot' = "sound"
       \/ now = until /\ UNCHANGED snapshot
    /\ now' = 0 /\ Released
    /\ UNCHANGED <<op, index, told, error, attempts, ops>>

CloseSnapshot ==
    /\ pc = "idle" /\ snapshot # "none" /\ snapshot' = "none"
    /\ UNCHANGED <<now, pc, op, index, told, work, error, attempts, ops>>

Begins ==
    \/ \E name \in {"execute", "metadata"}, l \in Limits : Start(name, l)
    \/ StartEmpty \/ OpenSnapshot \/ CloseSnapshot
Continues ==
    \/ DeadlinePassed \/ Attempt \/ Tick \/ Borrow \/ PoolFails
    \/ SetLimit \/ WaitedAway \/ NotUsable \/ Run
    \/ StatementEnds \/ StatementFails \/ Succeeds \/ RowsFail
    \/ Retry \/ GiveUp \/ Consume \/ Opened
Next == Begins \/ Continues

\* The pool and the server answer or reach their limit.
Spec == Init /\ [][Next]_vars /\ WF_vars(Continues)

-----------------------------------------------------------------------------
(* Properties                                                              *)

TypeOK ==
    /\ now \in Nat /\ index \in 0 .. Retries /\ told \in 0 .. Retries
    /\ pc \in {"idle", "opening", "attempt", "waiting", "set", "run",
               "running", "rows", "failed", "done"}
    /\ op \in [name : {None, "execute", "metadata"},
               limit : Limits \cup {None}]
    /\ until \in Nat /\ left \in Nat \cup {None} /\ grant \in Nat \ {0}
    /\ todo \in 0 .. Statements + 1 /\ source \in {None, "pool", "snapshot"}
    /\ snapshot \in {"none", "sound", "aborted", "lost"}
    /\ error \in Failures \cup {None}
    /\ attempts \in 0 .. Retries + 1
    /\ ops \in 0 .. MaxOps

\* The retry count a caller consumes is the number of attempts after the
\* first; one that the deadline refused before it asked anybody counts too.
RetriesTold ==
    pc = "done" =>
        \/ attempts > 0 /\ told = attempts - 1
        \/ error = "deadline" /\ told = attempts
        \/ attempts = 0 /\ told = 0 /\ error = None

Late == now - op.limit

\* A call of execute ends within its timeout, all its attempts together.
ExecuteInTime ==
    pc = "done" /\ op.name = "execute" /\ Limited => Late <= 0

\* How late an operation may end: the statements after the first, which share
\* a limit set once, and for MySQL the wait in the pool, or in a snapshot the
\* timeout of the session.
Each ==
    CASE Kind = "postgres" -> Smaller(StatementTimeout, op.limit)
      [] Kind = "mysql" /\ snapshot = "none" -> op.limit
      [] OTHER -> StatementTimeout
Waited ==
    CASE Kind = "postgres" -> 0
      [] Kind = "mysql" /\ snapshot = "none" -> 2 * PoolTimeout
      [] OTHER -> StatementTimeout
OverrunBounded ==
    LET n == IF op.name = "metadata" THEN Statements ELSE 1
    IN  pc = "done" /\ Limited => Late <= (n - 1) * Each + Waited

\* What is answered while a snapshot is open was read in that snapshot: no
\* retry leaves it for a connection that sees newer data.
SnapshotServes ==
    pc = "rows" /\ pc' = "done" /\ snapshot # "none"
        => source = "snapshot" /\ snapshot = "sound"

=============================================================================
