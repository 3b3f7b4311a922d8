SPECIFICATION PathSpec
CONSTANTS
    Title = {t1}
    Weak = weak
    None = none
    Events = {"prompt", "turn_complete"}
    MaxHooks = 2
    MaxCrashes = 2
    MaxFails = 1
    NumWindows = 1
    Grok = {g1}
    Codex = {c1}
    Sub = {s1}
    MaxBegun = 2
    MaxBindHooks = 2
    MaxForgets = 1
INVARIANTS
    PathTypeOK
    AcceptedNotLost
PROPERTIES
    DeliversAtLeastOnce
    RowKeepsItsAgent
    Heals
