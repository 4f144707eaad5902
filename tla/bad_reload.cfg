SPECIFICATION Spec
CONSTANTS
    t1 = t1
    t2 = t2
    Tids = {t1, t2}
    NoArgs = NoArgs
    Pools <- OnePool
    Files <- OnePoolFiles
INVARIANT ReloadKeepsRunningJobs
