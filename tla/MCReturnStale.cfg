\* Return, styles, undo and emoji before the runs follow what TextEdit shows.
SPECIFICATION Spec
CONSTANTS
    MaxRuns = 4
    MaxText = 5
    MaxEmoji = 3
    MaxUrl = 3
    StyleCells = 4
    Blocks <- AllBlocks
    Pages = {"p", "q"}
    Title <- PlainTitle
    Pastes <- Pasted
    Keys = {" ", "x"}
    Lookback = 3
    Headroom = 1
    MaxPieces = 3
    MaxRows = 4
    MaxEdits = 2
    OverSame = FALSE
    Crowded = FALSE
    PartOfLink = FALSE
    StaleRuns = TRUE
    LentUnderline = FALSE
    Unsequenced = FALSE
    LowMemory = {"save", "list"}
INVARIANT AsMeant
CHECK_DEADLOCK FALSE
