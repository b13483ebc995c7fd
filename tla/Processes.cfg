\* Up to three datasources, the primary one doubled or not, and two profiles;
\* the launcher with two signals at any moment and leaders that end before
\* their worker, and with two signals outside its two gaps.
SPECIFICATION MCSpec
CONSTANTS
    Ids = {pagila, sales, stock}
    Pagila = pagila
    MaxSources = 3
    Profiles = {p, q}
    StartupTimeout = 2
    MaxSignals = 2
    None = None
INVARIANTS
    MCTypeOK
    ClosedInOrder
PROPERTIES
    RunTold
    Ends
CHECK_DEADLOCK FALSE
