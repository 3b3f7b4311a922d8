CONSTANTS
    Tools = {"claude", "codex", "grok", "opencode"}
    Pollers = {p, q}
    Second = 2
    TailLines = 3
    MaxTurns = 2
    MaxWork = 1
    MaxNow = 4
SPECIFICATION LogSpec
INVARIANTS KeptIsCurrent OneSnapshot HalfCharIsDropped BareIsSkipped ShortTurnsEnd CancelledTurnsEnd HiddenPromptRuns PhaseOfThisTurn TailIsRead
CHECK_DEADLOCK FALSE
