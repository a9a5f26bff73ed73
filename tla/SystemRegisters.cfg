SPECIFICATION SysSpec
CONSTANTS
    Register = {"prefixes", "templates"}
    Thread = {t1, t2}
    Null = Null
    MaxWrites = 1
INVARIANTS
    OutOfDateOnlyIfRaced
    EmptyOnlyWhileLoading
    FailsOnlyOnReset
PROPERTY
    CatchesUp
