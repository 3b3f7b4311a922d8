SPECIFICATION FairSpec
CONSTANTS
    Ssn = {s1}
    Loop = loop
    Commands = {cmd}
    Writers = {w1}
    WriterOps = {"append"}
    MaxGen = 2
    Subagents = {2}
    MaxRounds = 1
    MaxFails = 1
INVARIANTS
    TypeOK
    FlushOkMeansSaved
    NothingLostOutsideWindow
PROPERTY
    EventuallySaved
