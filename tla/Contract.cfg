\* The workflow implements RequestContract, and every request ends, without
\* an embedding retrieval runtime.  Liveness: no symmetry, two repairs.
SPECIFICATION Spec
CONSTANTS
    Fingerprints = {q1, q2, q3}
    Versions = {v1}
    Fields = {c1}
    MaxRepairs = 2
    MaxSteps = 25
    MaxRetries = 0
    Dense = FALSE
    None = None
PROPERTIES
    KeepsContract
    Terminates
