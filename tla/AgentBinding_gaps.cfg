\* What does not hold of the bindings: leave one of them at a time.
SPECIFICATION Spec
CONSTANTS
    NumWindows = 2
    Grok = {g1}
    Codex = {c1}
    Sub = {s1}
    None = none
    MaxBegun = 3
    MaxHooks = 3
    MaxForgets = 0
INVARIANT
    ShownOnce
PROPERTIES
    ForeignNeverRotates
    SubagentNeverBound
    ParentAlwaysKeepsRow
    ParentKeepsRowBesideForeign
    RecordKept
