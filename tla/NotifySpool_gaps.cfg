SPECIFICATION Spec
CONSTANTS
    Title = {t1}
    Weak = weak
    None = none
    Events = {"prompt", "turn_complete"}
    MaxHooks = 2
    MaxCrashes = 2
    MaxFails = 1
INVARIANTS QuarantinedNeverValid
PROPERTIES RedeliveryIdempotent
