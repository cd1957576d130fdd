\* Retyping to text, opening and closing toggles.
CONSTANTS
    Pages <- RetypePages
    UserOps = {"type", "retype", "toggle", "save"}
    Retypes = {"text"}
    Answers = {"ok", "lost", "down", "expired"}
    MaxRows = 5
    ToggleSlots = 2
    MaxEdits = 2
    MaxBlk = 6
    MaxDefer = 1
    ThreadMayFail = FALSE
    ClickWhileBusy = FALSE
    CloseUnsaved = FALSE
SPECIFICATION Spec
INVARIANTS NoSilentLoss NeverOnlyInTrash PatchFitsBlock
\* The user may stop at any time.
CHECK_DEADLOCK FALSE
