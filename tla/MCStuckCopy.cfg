\* A toggle is indented again before its children are re-created.
CONSTANTS
    Pages <- Nested
    UserOps = {"indent", "save"}
    Retypes = {"text"}
    Answers = {"ok", "busy"}
    MaxRows = 5
    ToggleSlots = 2
    MaxEdits = 2
    MaxBlk = 8
    MaxDefer = 2
    ThreadMayFail = FALSE
    ClickWhileBusy = FALSE
    CloseUnsaved = FALSE
SPECIFICATION FairSpec
PROPERTIES OldCopiesGo
\* The user may stop at any time.
CHECK_DEADLOCK FALSE
