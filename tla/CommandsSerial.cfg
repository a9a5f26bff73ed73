SPECIFICATION Spec
CONSTANTS
    a = a
    b = b
    c = c
    ea = ea
    eb = eb
    r0 = r0
    r1 = r1
    Items = {a, b, c}
    Regs = {r0, r1}
    Root = r0
    Parent <- MCParent
    Entity <- MCEntity
    Notes = {n1}
    MaxVersion = 5
    MaxTime = 2
    Thread = {t1}
    NoThread = NoThread
    Operations = {"Register", "Batch", "RegisterGraph", "Update",
                  "StatusUpdate", "StatusUpdateAll", "Delete", "Annotate", "Tag"}
    Delegated = {a}
    Offered = {"Submitted", "Stable", "Retired"}
    None = None
    MaxRequests = 3
INVARIANTS
    VersionChain
    VersionAtEveryTime
    
    SubregistersListed
PROPERTIES
    HistoryStable
    
    
\* The requests are bounded.
CHECK_DEADLOCK FALSE
