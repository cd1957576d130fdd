\* Every command, on three pages and stacks that overflow.
CONSTANTS
    Pages = {p, q, r}
    None = None
    NavMax = 2
    RecentMax = 2
    Commands = {"link", "recent", "library", "settings", "new", "delete"}
SPECIFICATION Spec
INVARIANTS TypeOK RecentDistinct
PROPERTIES ImplementsTrail LandsOnPreview
VIEW NoBefore
SYMMETRY PageSymmetry
