SPECIFICATION FairSpec
CONSTANTS
    MaxStarts = 2
    Scenarios <- MCScenarios
INVARIANTS
    UnloadSafe
    OneInvocation
    PacketDisposedOnce
    CompletionOnce
    UnconfirmedOnlyByRace
PROPERTIES
    StopIsFinal
    ProgressMovesForward
    CallsReturn
    InvocationEnds
CHECK_DEADLOCK FALSE
