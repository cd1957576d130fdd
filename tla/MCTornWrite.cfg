\* Two payloads with the same bytes in another order, and a write torn halfway.
CONSTANTS
    PageIds = {p}
    Payloads <- Permuted
    Nothing = Nothing
    NSlots = 1
    SlotSize = 4
    SumMod = 16
    TTL = 1
    ClockMod = 4
    Faults = {"torn"}
    MaxSaves = 2
SPECIFICATION Spec
INVARIANT NeverVouchesForGarbage
CHECK_DEADLOCK FALSE
