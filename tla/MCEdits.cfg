\* Typing, adding, splitting and deleting, against every answer.
CONSTANTS
    Pages <- EditPages
    UserOps = {"type", "add", "split", "delete", "save"}
    Retypes = {"text"}
    Answers = {"ok", "noId", "twice", "lost", "down", "busy", "refused", "denied", "expired"}
    MaxRows = 5
    ToggleSlots = 2
    MaxEdits = 2
    MaxBlk = 4
    MaxDefer = 1
    ThreadMayFail = TRUE
    ClickWhileBusy = FALSE
    CloseUnsaved = FALSE
SPECIFICATION Spec
INVARIANTS TypeOK BusyOwned NoSilentLoss
PROPERTIES QueueSteady NothingVanishes
\* The user may stop at any time.
CHECK_DEADLOCK FALSE
