SPECIFICATION FairSpec
CONSTANTS
    NoJob = NoJob
    Requests = {r1, r2, r3}
    Async = {r1, r2}
    Closers = {s1, s2}
    MaxShutdowns = 2
    MaxPanics = 1
INVARIANTS
    CallersToldTruth
    ShutdownConfirmed
PROPERTIES
    ImplementsPromise
    CallsAnswered
    SessionEnds
CHECK_DEADLOCK FALSE
