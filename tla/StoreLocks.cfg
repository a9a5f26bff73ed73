SPECIFICATION Spec
CONSTANTS
    Thread = {t1, t2}
    NoThread = NoThread
    URI = {u1, u2}
    NoURI = NoURI
    LockObj = {l1, l2, l3}
    NoLock = NoLock
    MaxCalls = 2
    MaxReads = 2
INVARIANTS
    TypeOK
    MutualExclusion
    UnlockFindsLock
    SerialDiscipline
PROPERTY
    ImplementsUriLock
\* Two requests for one URI can block each other for ever: see LockReturns.
CHECK_DEADLOCK FALSE
