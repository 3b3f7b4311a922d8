SPECIFICATION Spec
CONSTANTS
    Ssn = {a, b}
    Slot = a
    New = {b}
    Index = {1, 2}
    None = None
    NoId = NoId
    Refresher = {p}
    SlowPoll = FALSE
    Commands = {"new", "down", "up"}
    MaxCommands = 3
    Faults = {}
    MaxFaults = 0
PROPERTY
    LiveComeBack
