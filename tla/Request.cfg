\* A request with an embedding retrieval runtime and the limits of the code:
\* three repairs, 32 steps.
SPECIFICATION Spec
CONSTANTS
    Fingerprints = {q1, q2, q3, q4, q5}
    Versions = {v1, v2}
    Fields = {c1, c2}
    MaxRepairs = 3
    MaxSteps = 32
    MaxRetries = 0
    Dense = TRUE
    None = None
SYMMETRY Symmetry
INVARIANTS
    TypeOK
    StateAccepted
    OwnChecksHold
    WithinLimits
    RepairContextMatches
    EndsAsTold
PROPERTIES
    HistoryOnlyGrows
