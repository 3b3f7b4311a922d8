SPECIFICATION Spec
CONSTANTS
    Ssn = {s1}
    Loop = loop
    Commands = {}
    Writers = {}
    WriterOps = {"append"}
    MaxGen = 2
    Subagents = {}
    MaxRounds = 2
    MaxFails = 0
PROPERTY
    ClearOnlyWhenGenerationStable
