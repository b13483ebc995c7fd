\* One flight, waiters that come too late.
SPECIFICATION RegistrySpec
CONSTANTS
    Requests = {r1, r2, r3}
    Versions = {v1}
    MaxEntries = 1
    Batches = 1
    NoValue = NoValue
INVARIANTS
    NobodyCounted
