SPECIFICATION Spec
CONSTANTS
    Ssn = {s1}
    Loop = loop
    Commands = {}
    Writers = {w1}
    WriterOps = {"append", "close", "reopen"}
    MaxGen = 2
    Subagents = {}
    MaxRounds = 1
    MaxFails = 0
PROPERTY
    TombstoneOnlyReopened
