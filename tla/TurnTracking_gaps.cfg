SPECIFICATION Spec
CONSTANTS
    Title = {t1}
    Weak = weak
    None = none
    Pollers = {p1}
    ToolEvents = {"post_tool"}
    Managed = TRUE
    MaxTurn = 2
INVARIANTS CompletedPaneFileIdle CompletionNotOlderThanPrompt
PROPERTIES BellForCompletion LateHookHarmless MessagedAtNeverRegresses
CHECK_DEADLOCK FALSE
