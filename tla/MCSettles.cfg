\* What a fair schedule and a network that works again bring about.
CONSTANTS
    Pages <- RetypePages
    UserOps = {"type", "icon", "retype", "move", "save"}
    Retypes = {"text"}
    Answers = {"ok", "down", "busy"}
    MaxRows = 5
    ToggleSlots = 2
    MaxEdits = 2
    MaxBlk = 7
    MaxDefer = 1
    ThreadMayFail = FALSE
    ClickWhileBusy = FALSE
    CloseUnsaved = FALSE
SPECIFICATION FairSpec
PROPERTIES BusyEnds EverythingSaved
\* The user may stop at any time.
CHECK_DEADLOCK FALSE
