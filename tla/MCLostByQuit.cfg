\* "it asks about unsaved changes": a save is under way.
CONSTANTS
    Pages = {p}
    None = None
    NavMax = 2
    RecentMax = 2
    Listed = {}
    MaxEdits = 1
    MaxFails = 0
    Scenarios = {{"save", "quit"}}
SPECIFICATION Spec
INVARIANT EditsKept
CHECK_DEADLOCK FALSE
