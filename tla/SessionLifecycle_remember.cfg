SPECIFICATION Spec
CONSTANTS
    Ssn = {a, b}
    Slot = a
    New = {b}
    Index = {1, 2, 3}
    None = None
    NoId = NoId
    Refresher = {p}
    SlowPoll = FALSE
    Commands = {"new", "up"}
    MaxCommands = 2
    Faults = {"server"}
    MaxFaults = 1
INVARIANT
    OneWindowEach
PROPERTY
    LiveComeBack
