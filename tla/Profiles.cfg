\* Edits of one profile, queries that use it and a restart, with the handlers
\* on one event loop and with threads; two processes on one file.
SPECIFICATION MCSpec
CONSTANTS
    Processes = {p1, p2}
    Ids = {i1, i2}
    MaxCrashes = 2
    None = None
    e0 = e0
    r1 = r1
    r2 = r2
    q = q
    k1 = k1
    k2 = k2
    s1 = s1
    s2 = s2
    c1 = c1
    c2 = c2
    c3 = c3
    d1 = d1
    d2 = d2
    a = a
    b = b
    k = k
    p1 = p1
    p2 = p2
    Keep = Keep
    Static = Static
SYMMETRY Symmetry
INVARIANTS
    MCTypeOK
    ConnectorsOwned
    NothingStale
    KeysStayHome
PROPERTIES
    StoreTrue
    Ends
CHECK_DEADLOCK FALSE
