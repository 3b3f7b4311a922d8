SPECIFICATION FairSpec
CONSTANTS
    Title = {t1}
    Weak = weak
    None = none
    Pollers = {p1}
    ToolEvents = {}
    Managed = FALSE
    MaxTurn = 1
PROPERTY
    SpinnerStops
CHECK_DEADLOCK FALSE
