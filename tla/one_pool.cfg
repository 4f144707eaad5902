SPECIFICATION Spec
CONSTANTS
    t1 = t1
    t2 = t2
    t3 = t3
    Tids = {t1, t2, t3}
    NoArgs = NoArgs
    Pools <- OnePool
    Files <- OnePoolFiles
SYMMETRY ThreadSymmetry
INVARIANTS
    TypeOK
    AssertionsHold
    LiveThreadsWithinCount
    HandshakeInv
    HandshakeNeverStuck
PROPERTIES
    StartsWithinWorkerCount
    StopsOnlyTheExcess
    SignalledMainAdvances
    FlaggedThreadAdvances
    DaemonKeepsPromise
