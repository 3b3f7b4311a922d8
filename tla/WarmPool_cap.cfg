SPECIFICATION Spec
CONSTANTS
    NumCwds = 2
    Bars = {1}
    Clis = {2}
    Tasks = {t1}
    MaxPool = 1
    MaxWindows = 4
    MaxIds = 6
    MaxGone = 0
INVARIANTS
    PoolCapped
CHECK_DEADLOCK FALSE
