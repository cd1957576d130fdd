\* "Flush any pending save before navigating away".  With the invariant
\* CachedUnderOwnPage in the place of EditsKept, the preview is cached as the
\* page it hides.
CONSTANTS
    Pages = {p, q}
    None = None
    NavMax = 2
    RecentMax = 2
    Listed = {}
    MaxEdits = 1
    MaxFails = 0
    Scenarios = {{"save", "history"}}
SPECIFICATION Spec
INVARIANT EditsKept
