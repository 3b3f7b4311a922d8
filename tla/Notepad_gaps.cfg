CONSTANTS
    MaxNotes = 2
    MaxEdits = 2
    MaxKills = 1
    MaxFaults = 1
SPECIFICATION PadSpec
INVARIANTS SelectionOfActive ActiveExists FirstNoteShown FailureIsRetried
PROPERTIES KeysReachActive ConfirmIsModal
CHECK_DEADLOCK FALSE
