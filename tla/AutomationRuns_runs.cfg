SPECIFICATION FairSpec
CONSTANTS
    MaxListed = 1
    MaxChecked = 1
    MaxRuns = 2
    MaxSlots = 1
    MaxFaults = 1
INVARIANTS
    TypeOK
    SlotFiredOnce
PROPERTIES
    VerdictForCause
    RunsEnd
    EventuallyFires
CHECK_DEADLOCK FALSE
