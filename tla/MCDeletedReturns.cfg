\* The only child of a toggle is deleted, the toggle closed and opened.
CONSTANTS
    Pages <- OneToggle
    UserOps = {"delete", "toggle", "save"}
    Retypes = {"text"}
    Answers = {"ok"}
    MaxRows = 5
    ToggleSlots = 2
    MaxEdits = 1
    MaxBlk = 4
    MaxDefer = 1
    ThreadMayFail = FALSE
    ClickWhileBusy = FALSE
    CloseUnsaved = FALSE
SPECIFICATION Spec
INVARIANTS DeletedStaysGone
\* The user may stop at any time.
CHECK_DEADLOCK FALSE
