SPECIFICATION Spec
CONSTANTS
    t1 = t1
    t2 = t2
    t3 = t3
    Tids = {t1, t2, t3}
    NoArgs = NoArgs
    Pools <- TwoPools
    Files <- TwoPoolsFiles
SYMMETRY ThreadSymmetry
INVARIANTS
    LiveThreadsMatchConfig
    DrainReachesEveryThread
    ReloadInv
