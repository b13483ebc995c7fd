\* Three threads on a MySQL pool of two; two on a StarRocks pool of one; two
\* operations in a row of both connectors.
SPECIFICATION MCSpec
CONSTANTS
    Threads = {t1, t2, t3}
    Conns = {c1, c2, c3}
    MinSize = 1
    MaxSize = 2
    Retries = 1
    MaxOpens = 1
    Discards = TRUE
    u1 = u1
    u2 = u2
    d1 = d1
    d2 = d2
    None = None
    CallRetries = 2
    Limits = {None, 2, 4}
    PoolTimeout = 1
    StatementTimeout = 2
    Statements = 2
    MaxOps = 2
SYMMETRY Symmetry
INVARIANTS
    MCTypeOK
    OneHolder
    PoolKept
PROPERTIES
    CallsKept
    Returns
CHECK_DEADLOCK FALSE
