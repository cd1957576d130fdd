\* Text pasted beside a link, or typed over its first characters, is saved with
\* the underline that the link is only shown with (run_styles.cpp:267).
SPECIFICATION Spec
CONSTANTS
    MaxRuns = 4
    MaxText = 5
    MaxEmoji = 3
    MaxUrl = 3
    StyleCells = 4
    Blocks <- AllBlocks
    Pages = {"p", "q"}
    Title <- PlainTitle
    Pastes <- Pasted
    Keys = {" ", "x"}
    Lookback = 3
    Headroom = 1
    MaxPieces = 3
    MaxRows = 4
    MaxEdits = 2
    OverSame = FALSE
    Crowded = FALSE
    PartOfLink = FALSE
    StaleRuns = FALSE
    LentUnderline = TRUE
    Unsequenced = FALSE
    LowMemory = {"save", "list"}
INVARIANT AsMeant
CHECK_DEADLOCK FALSE
