\* A split block is retyped and its head piece deleted.
CONSTANTS
    Pages <- EditPages
    UserOps = {"retype", "delete", "save"}
    Retypes = {"text"}
    Answers = {"ok", "down"}
    MaxRows = 5
    ToggleSlots = 2
    MaxEdits = 2
    MaxBlk = 6
    MaxDefer = 1
    ThreadMayFail = FALSE
    ClickWhileBusy = FALSE
    CloseUnsaved = FALSE
SPECIFICATION Spec
INVARIANTS PatchFitsBlock
\* The user may stop at any time.
CHECK_DEADLOCK FALSE
