SPECIFICATION Spec
CONSTANTS
    MaxStarts = 1
    Scenarios <- MCOvertaken
INVARIANTS
    TerminalNotified
CHECK_DEADLOCK FALSE
