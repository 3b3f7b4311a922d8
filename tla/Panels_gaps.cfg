\* Properties the code does not have; TLC stops at the first it finds violated.
CONSTANTS
    MaxRequests = 4
    MaxBreaks = 2
SPECIFICATION PanelSpec
INVARIANT TwoPanes
PROPERTIES ClickNotLost CloseStays DeadPanelReopens UpRepairsBoth UpShowsWorkspace LaunchedDraftGone
CHECK_DEADLOCK FALSE
