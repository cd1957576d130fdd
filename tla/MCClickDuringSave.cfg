\* A triangle is clicked during a save.
CONSTANTS
    Pages <- OpenOrClosed
    UserOps = {"type", "toggle", "save"}
    Retypes = {"text"}
    Answers = {"ok"}
    MaxRows = 5
    ToggleSlots = 2
    MaxEdits = 1
    MaxBlk = 4
    MaxDefer = 1
    ThreadMayFail = FALSE
    ClickWhileBusy = TRUE
    CloseUnsaved = FALSE
SPECIFICATION Spec
PROPERTIES QueueSteady
\* The user may stop at any time.
CHECK_DEADLOCK FALSE
