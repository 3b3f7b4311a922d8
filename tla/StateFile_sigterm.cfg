SPECIFICATION Spec
CONSTANTS
    MaxChanges = 3
    MaxFails = 0
    MaxDeaths = 1
    Sigterm = TRUE
INVARIANTS
    SigtermSaves
    CleanIsSaved
CHECK_DEADLOCK FALSE
