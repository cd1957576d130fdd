\* Moving and indenting blocks in and out of toggles.
CONSTANTS
    Pages <- MovePages
    UserOps = {"type", "icon", "indent", "move", "save"}
    Retypes = {"text"}
    Answers = {"ok", "lost", "down", "busy"}
    MaxRows = 5
    ToggleSlots = 2
    MaxEdits = 2
    MaxBlk = 7
    MaxDefer = 1
    ThreadMayFail = FALSE
    ClickWhileBusy = FALSE
    CloseUnsaved = FALSE
SPECIFICATION Spec
INVARIANTS NeverOnlyInTrash InsertsHavePlace CacheIsFaithful
PROPERTIES ListShowsAccepted
\* The user may stop at any time.
CHECK_DEADLOCK FALSE
