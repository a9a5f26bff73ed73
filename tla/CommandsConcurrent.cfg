SPECIFICATION Spec
CONSTANTS
    a = a
    b = b
    c = c
    ea = ea
    eb = eb
    r0 = r0
    r1 = r1
    Items = {b, c}
    Regs = {r0, r1}
    Root = r0
    Parent <- MCParent
    Entity <- MCEntity
    Notes = {n1}
    MaxVersion = 5
    MaxTime = 1
    Thread = {t1, t2}
    NoThread = NoThread
    Operations = {"Register", "Batch", "RegisterGraph", "Update",
                  "StatusUpdate", "StatusUpdateAll", "Delete", "Annotate", "Tag"}
    Delegated = {b}
    Offered = {"Stable"}
    None = None
    MaxRequests = 4
SYMMETRY ThreadSymmetry
INVARIANTS
    TypeOK
    IntervalsMeet
    NoGaps
\* The requests are bounded.
CHECK_DEADLOCK FALSE
