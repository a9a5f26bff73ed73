SPECIFICATION BrowserSpec
CONSTANTS
    d1 = d1
    d2 = d2
    d3 = d3
    Datasets = {d1, d2, d3}
    Linksets <- MCLinksets
    Start = d1
    MaxGets = 2
    rdf = rdf
    own = own
    Prefix = {rdf, own}
    Config <- MCConfig
    Formats = {"text", "tsv"}
    Blank = Blank
    None = None
    MaxQueries = 2
    TableSizes = {11, 12}
    MaxEdits = 2
    MaxSaves = 2
INVARIANTS
    LinksMatchCanvas
    HiddenEndOnlyIfClosedEarly
    OneElementUnlessAskedTwice
    PrefixesFollowBoxes
    ResultBelongsUnlessOvertaken
    ButtonsActOnTheirRow
    
\* The edits are bounded.
CHECK_DEADLOCK FALSE
