\* Every way to move, with typing at any time; a request fails in the second
\* scenario.  Quit ends the program.
CONSTANTS
    Pages = {p, q}
    None = None
    NavMax = 1
    RecentMax = 2
    Listed = {}
    MaxEdits = 1
    MaxFails = 1
    Scenarios = {{"type ahead", "save", "link", "recent", "reload", "new"},
                 {"type ahead", "save", "history", "library", "quit", "fail"}}
SPECIFICATION Spec
INVARIANTS TypeOK DirtyIsFound
VIEW NoTyped
SYMMETRY PageSymmetry
CHECK_DEADLOCK FALSE
