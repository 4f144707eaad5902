SPECIFICATION Spec
CONSTANTS
    t1 = t1
    Tids = {t1}
    NoArgs = NoArgs
    Pools <- MCPools
    Files <- MCFiles
INVARIANT CompareIsExact
