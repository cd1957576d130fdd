\* The rows of the page left, cached under the recent page chosen.
CONSTANTS
    Pages = {p, q}
    None = None
    NavMax = 2
    RecentMax = 2
    Listed = {}
    MaxEdits = 1
    MaxFails = 0
    Scenarios = {{"save", "recent"}}
SPECIFICATION Spec
INVARIANT CachedUnderOwnPage
