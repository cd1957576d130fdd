\* "coalesce rapid Back/Forward presses into one HTTP request".
CONSTANTS
    Pages = {p, q}
    None = None
    NavMax = 2
    RecentMax = 2
    Listed = {}
    MaxEdits = 0
    MaxFails = 0
    Scenarios = {{"history"}}
SPECIFICATION Spec
PROPERTY PreviewLeadsToLoad
