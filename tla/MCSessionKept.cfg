\* Links to pages not seen before with saves that fail; Reload and its dialog
\* and New Page with saves that succeed.
CONSTANTS
    Pages = {p, q, r}
    None = None
    NavMax = 2
    RecentMax = 2
    Listed = {}
    MaxEdits = 2
    MaxFails = 1
    Scenarios = {{"save", "first link", "fail"}, {"save", "reload", "new"}}
SPECIFICATION FairSpec
INVARIANTS EditsKept CachedUnderOwnPage CacheNotBehind
PROPERTY MovesHappen
