\* What does not hold of the session list: leave one of them at a time.
CONSTANTS
    NumSessions = 3
    NumDirs = 2
    MaxAt = 1
    Cap = 1
    NumTitles = 1
    MaxEvents = 1
    MaxInputs = 3
SPECIFICATION Spec
INVARIANTS
    ActiveShown
    RowsInPlace
    SameOrdinal
PROPERTIES
    CloseTargetStays
    CloseTargetIsNoNote
    SavedHighlight
CHECK_DEADLOCK FALSE
