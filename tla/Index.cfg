\* Four requests for up to three versions and room for two: an index is used
\* again before another is evicted, flights are shared, fail and land.
SPECIFICATION SharingSpec
CONSTANTS
    Requests = {1, 2, 3, 4}
    Versions = {1, 2, 3}
    MaxEntries = 2
    Batches = 1
    NoValue = NoValue
INVARIANTS
    RegistryTypeOK
    FlightsSound
    AnswersTrue
    LeastRecentlyUsed
PROPERTIES
    Ended
