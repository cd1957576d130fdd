\* "a PageHeader snapshot of the currently loaded page".
CONSTANTS
    Pages = {p, q}
    None = None
    NavMax = 2
    RecentMax = 2
    Listed = {}
    MaxEdits = 0
    MaxFails = 0
    Scenarios = {{"history"}}
SPECIFICATION Spec
INVARIANT HeadersOwnTitle
