\* Saves and loads of three pages over two slots, with torn and lost writes, a
\* lack of memory and a clock that the user sets.
CONSTANTS
    PageIds = {p, q, r}
    Payloads <- Distinct
    Nothing = Nothing
    NSlots = 2
    SlotSize = 2
    SumMod = 16
    TTL = 1
    ClockMod = 3
    Faults = {"torn", "noHeader", "noMemory", "clockSet"}
    MaxSaves = 3
SPECIFICATION Spec
SYMMETRY PageSymmetry
INVARIANTS TypeOK
PROPERTIES ImplementsStore ShownIsFresh NoOlderCopy
\* Nothing has to happen.
CHECK_DEADLOCK FALSE
