\* A toggle is opened while the save thread waits for its answer.
CONSTANTS
    Requests = {patch, get}
    Patches = {patch}
    Threads = {main, save}
    None = None
    Ping = Ping
    MaxHops = 1
    Reentrant = TRUE
SPECIFICATION Spec
INVARIANT NotReentered
