SPECIFICATION FairSpec
CONSTANTS
    MaxChanges = 4
    MaxFails = 1
    MaxDeaths = 2
    Sigterm = TRUE
INVARIANTS
    TypeOK
    FileWhole
PROPERTIES
    SavedNeverOlder
    EventuallySaved
CHECK_DEADLOCK FALSE
