SPECIFICATION Spec
CONSTANTS
    a = a
    b = b
    c = c
    ea = ea
    eb = eb
    r0 = r0
    r1 = r1
    Items = {a, b, c}
    Regs = {r0, r1}
    Root = r0
    Parent <- MCParent
    Entity <- MCEntity
    Notes = {n1}
    MaxVersion = 5
    MaxTime = 2
    Thread = {t1, t2}
    NoThread = NoThread
    Operations = {"Register", "Tag"}
    Delegated = {a}
    Offered = {"Submitted"}
    None = None
    MaxRequests = 3
PROPERTIES
    VersionAdvances
\* The requests are bounded.
CHECK_DEADLOCK FALSE
