\* "forget the page and go back to where you were".
CONSTANTS
    Pages = {p, q, r}
    None = None
    NavMax = 2
    RecentMax = 2
    Commands = {"link"}
SPECIFICATION Spec
PROPERTY BackWhereYouWere
