SPECIFICATION TrieSpec
CONSTANTS
    outer = outer
    inner = inner
    other = other
    Item = {outer, inner, other}
    PathOf <- MCPathOf
    Record <- MCRecord
    Requested <- MCRequested
    Thread = {t1, t2}
    RegisterUri = RegisterUri
    None = None
    MaxRequests = 4
SYMMETRY ThreadSymmetry
INVARIANTS
    FwdTypeOK
    PrefixFree
    
    ReloadedTable
    ProxyFollows
    TrieIsTable
\* The requests are bounded.
CHECK_DEADLOCK FALSE
