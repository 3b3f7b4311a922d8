SPECIFICATION FairSpec
CONSTANTS
    Ssn = {a, b, c}
    Slot = a
    New = {c}
    Index = {1, 2, 3}
    None = None
    NoId = NoId
    Refresher = {p}
    SlowPoll = TRUE
    Commands = {"new", "close", "cli_close", "hook", "bare_hook", "up"}
    MaxCommands = 2
    Faults = {"exit", "daemon"}
    MaxFaults = 1
INVARIANTS
    TypeOK
    NoZombieRow
PROPERTY
    RowsConverge
