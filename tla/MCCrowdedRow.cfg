\* Typing in rows with links whose runs are nearly used up.  AsMeant is violated
\* likewise with Crowded = FALSE and PartOfLink = TRUE (a style on a part of an
\* address) or Blocks <- OnlyCutLinkAbove (a link too long to keep, in a piece
\* above the last), and RunsMatchText with LowMemory = {"link"}.
SPECIFICATION Spec
CONSTANTS
    MaxRuns = 4
    MaxText = 5
    MaxEmoji = 3
    MaxUrl = 3
    StyleCells = 4
    Blocks <- AllBlocks
    Pages = {"p", "q"}
    Title <- PlainTitle
    Pastes <- Pasted
    Keys = {" ", "x"}
    Lookback = 3
    Headroom = 1
    MaxPieces = 3
    MaxRows = 4
    MaxEdits = 2
    OverSame = FALSE
    Crowded = TRUE
    PartOfLink = FALSE
    StaleRuns = FALSE
    LentUnderline = FALSE
    Unsequenced = FALSE
    LowMemory = {"save", "list"}
INVARIANT AsMeant
CHECK_DEADLOCK FALSE
