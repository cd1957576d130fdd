\* A save of another block after a refused one.
CONSTANTS
    Pages <- EditPages
    UserOps = {"type", "save"}
    Retypes = {"text"}
    Answers = {"ok", "refused"}
    MaxRows = 5
    ToggleSlots = 2
    MaxEdits = 2
    MaxBlk = 3
    MaxDefer = 1
    ThreadMayFail = FALSE
    ClickWhileBusy = FALSE
    CloseUnsaved = FALSE
SPECIFICATION Spec
INVARIANTS CacheIsFaithful
\* The user may stop at any time.
CHECK_DEADLOCK FALSE
