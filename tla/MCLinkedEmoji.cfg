\* A page link whose title has an emoji, and Return in such a row.
SPECIFICATION Spec
CONSTANTS
    MaxRuns = 4
    MaxText = 5
    MaxEmoji = 3
    MaxUrl = 3
    StyleCells = 4
    Blocks <- AllBlocks
    Pages = {"p", "q"}
    Title <- EmojiTitle
    Pastes <- Pasted
    Keys = {" ", "x"}
    Lookback = 3
    Headroom = 1
    MaxPieces = 3
    MaxRows = 4
    MaxEdits = 2
    OverSame = FALSE
    Crowded = FALSE
    PartOfLink = FALSE
    StaleRuns = FALSE
    LentUnderline = FALSE
    Unsequenced = TRUE
    LowMemory = {"save", "list"}
INVARIANT EmojiKept
CHECK_DEADLOCK FALSE
