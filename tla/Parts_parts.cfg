CONSTANTS
    NumSessions = 3
    NumDirs = 2
    MaxAt = 1
    Cap = 1
    NumTitles = 1
    MaxEvents = 1
    MaxInputs = 3
    Key = {k1}
    Agents = {"codex", "claude", "opencode"}
    Panels = {p}
    MaxUrl = 2
    MaxChanges = 1
    MaxKeys = 3
    Tools = {"claude", "codex", "grok", "opencode"}
    Pollers = {p, q}
    Second = 2
    TailLines = 3
    MaxTurns = 2
    MaxWork = 1
    MaxNow = 4
    MaxNotes = 2
    MaxEdits = 2
    MaxKills = 1
    MaxFaults = 1
    MaxRequests = 3
    MaxBreaks = 1
SPECIFICATION PartsSpec
INVARIANTS PartsTypeOK IndicesHitRows ReportsAreTrue NotesOnDisk PanelAsAsked
PROPERTIES ChoiceHolds SyncAsShown UpLeavesUi
CHECK_DEADLOCK FALSE
