SPECIFICATION FairSpec
CONSTANTS
    MaxListed = 1
    MaxChecked = 1
    MaxRuns = 2
    MaxSlots = 1
    MaxFaults = 1
INVARIANTS
    OneLiveRun
    CoveredIsAnswered
    FiredOnce
PROPERTIES
    VerdictStands
    FailedIfGone
    AllRunsEnd
CHECK_DEADLOCK FALSE
