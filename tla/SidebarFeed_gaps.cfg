SPECIFICATION Spec
CONSTANTS
    Rows = {r1}
    Bars = {b1}
    Capacity = 1
    MaxVersion = 2
    MaxWire = 2
    MaxEpoch = 1
INVARIANTS PatchesOfABatchApplied ReconnectingOnlyWhileDown
CHECK_DEADLOCK FALSE
