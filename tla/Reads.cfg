SPECIFICATION ReadsSpec
CONSTANTS
    Walker = {w}
    Reader = {r}
    NItems = 3
    PageSize = 2
    Filters = {"Accepted"}
    ItemStatus = {"Submitted", "Stable", "Invalid"}
    MaxWrites = 2
    Uri = {"a", "b", "c"}
    MaxHits = 7
    Null = Null
INVARIANTS
    StaleOnlyIfOverlapped
    WalkSeesAll
    SearchedInOrder
\* The walks, the searches and the writes are bounded.
CHECK_DEADLOCK FALSE
