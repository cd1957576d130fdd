\* "trigger a page reload, flushing dirty blocks first": the save fails.
CONSTANTS
    Pages = {p}
    None = None
    NavMax = 2
    RecentMax = 2
    Listed = {}
    MaxEdits = 1
    MaxFails = 1
    Scenarios = {{"save", "reload", "fail"}}
SPECIFICATION Spec
INVARIANT EditsKept
