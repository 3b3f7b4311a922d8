\* What does not hold of the pool: leave one of them at a time.
SPECIFICATION Spec
CONSTANTS
    NumCwds = 2
    Bars = {1}
    Clis = {2}
    Tasks = {t1}
    MaxPool = 2
    MaxWindows = 5
    MaxIds = 7
    MaxGone = 1
INVARIANTS
    OneClaimPerSpare
    NothingHidden
    OneSparePerCwd
    NoStrays
    FailedClaimRestorable
CHECK_DEADLOCK FALSE
