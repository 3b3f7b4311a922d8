SPECIFICATION Spec
CONSTANTS
    Ssn = {a, b, c}
    Slot = a
    New = {c}
    Index = {1, 2, 3}
    None = None
    NoId = NoId
    Refresher = {p, q}
    SlowPoll = FALSE
    Commands = {"new", "close", "hook"}
    MaxCommands = 3
    Faults = {"exit"}
    MaxFaults = 2
INVARIANTS VanishedAreGone NoZombieRow
PROPERTIES ClosesItsOwn
