\* "wait for any in-progress save to complete first": typed meanwhile.
\* With Pages = {p, q}, Scenarios = {{"save", "first link", "type ahead"}} and
\* INVARIANT CachedUnderOwnPage: typed into a queued row, the flush comes
\* after the page is left.
CONSTANTS
    Pages = {p}
    None = None
    NavMax = 2
    RecentMax = 2
    Listed = {}
    MaxEdits = 2
    MaxFails = 0
    Scenarios = {{"save", "reload", "type ahead"}}
SPECIFICATION Spec
INVARIANT EditsKept
