SPECIFICATION FairSpec
CONSTANTS
    NumCwds = 2
    Bars = {1}
    Clis = {2}
    Tasks = {t1}
    MaxPool = 2
    MaxWindows = 4
    MaxIds = 6
    MaxGone = 1
INVARIANTS
    TypeOK
    PoolMatchesManifest
PROPERTY
    SpareComesBack
CHECK_DEADLOCK FALSE
