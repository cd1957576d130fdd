\* A toggle in a toggle is retyped after the outer one.
CONSTANTS
    Pages <- Nested
    UserOps = {"retype", "save"}
    Retypes = {"text", "toggleHeading"}
    Answers = {"ok"}
    MaxRows = 5
    ToggleSlots = 2
    MaxEdits = 2
    MaxBlk = 7
    MaxDefer = 3
    ThreadMayFail = FALSE
    ClickWhileBusy = FALSE
    CloseUnsaved = FALSE
SPECIFICATION Spec
INVARIANTS NeverOnlyInTrash
\* The user may stop at any time.
CHECK_DEADLOCK FALSE
