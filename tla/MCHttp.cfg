\* A PATCH and a GET, by either thread, one after the other.
CONSTANTS
    Requests = {patch, get}
    Patches = {patch}
    Threads = {main, save}
    None = None
    Ping = Ping
    MaxHops = 1
    Reentrant = FALSE
SPECIFICATION FairSpec
INVARIANTS TypeOK StreamClean SentAgainOnlyWhenReused
PROPERTIES ImplementsService EveryRequestAnswered
