SPECIFICATION FairSpec
CONSTANTS
    t1 = t1
    t2 = t2
    Tids = {t1, t2}
    NoArgs = NoArgs
    Pools <- OnePool
    Files <- SettleFiles
PROPERTIES
    SignalEndsProcess
    FlaggedThreadLeaves
    PoolsSettle
