SPECIFICATION Spec
CONSTANTS
    Title = {t1}
    Weak = weak
    None = none
    Pollers = {p1}
    ToolEvents = {"post_tool"}
    Managed = TRUE
    MaxTurn = 1
INVARIANT TypeOK
PROPERTY
    CompletionSurvivesPolls
CHECK_DEADLOCK FALSE
