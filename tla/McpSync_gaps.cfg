\* What does not hold of the MCP panels: leave one of the properties at a time.
\* StoredKept needs two panels, Panels = {p, q}; ConfigKept two keys, Key = {k1, k2},
\* for which MaxUrl = 1 and Agents = {"codex", "claude"} are enough.
CONSTANTS
    Key = {k1}
    Agents = {"codex", "claude", "opencode"}
    Panels = {p}
    MaxUrl = 2
    MaxChanges = 1
    MaxKeys = 3
SPECIFICATION Spec
PROPERTIES
    DefinitionKept
    InlineKept
    SavedIsRead
    SyncIdle
    StoredKept
    BrokenKept
    ConfigKept
    OffIsGone
    DryRunStoresNothing
CHECK_DEADLOCK FALSE
