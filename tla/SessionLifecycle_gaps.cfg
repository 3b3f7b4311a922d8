SPECIFICATION FairSpec
CONSTANTS
    Ssn = {a, b}
    Slot = a
    New = {}
    Index = {1, 2}
    None = None
    NoId = NoId
    Refresher = {p}
    SlowPoll = TRUE
    Commands = {"up", "close"}
    MaxCommands = 2
    Faults = {"exit"}
    MaxFaults = 2
PROPERTIES NoPruneWhileBooting ClosedSlotNotRestored ClosedReopen
