SPECIFICATION Spec
CONSTANTS
    Ssn = {a, b, c}
    Slot = a
    New = {}
    Index = {1, 2, 3}
    None = None
    NoId = NoId
    Refresher = {p}
    SlowPoll = FALSE
    Commands = {"up", "down", "hook"}
    MaxCommands = 4
    Faults = {"server"}
    MaxFaults = 2
INVARIANT
    OneWindowEach
PROPERTY
    LiveComeBack
