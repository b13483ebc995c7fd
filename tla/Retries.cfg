\* One repair, connectors that report up to one retry a call.
SPECIFICATION Spec
CONSTANTS
    Fingerprints = {q1, q2}
    Versions = {v1}
    Fields = {c1}
    MaxRepairs = 1
    MaxSteps = 18
    MaxRetries = 1
    Dense = TRUE
    None = None
INVARIANTS
    RetriesAllCounted
