SPECIFICATION Spec
CONSTANTS
    t1 = t1
    t2 = t2
    Threads = {t1, t2}
    Timeouts = {1, 2, 3}
    MAX_JOB_RUNNING_TIME = 2
    CallbackPeriod = 2
    RoundTime = 1
    Modulus = 4096
SYMMETRY ThreadSymmetry
INVARIANTS
    TimingTypeOK
    LateOnlyByPolling
    ExitsInTime
    JobGetsItsWindow
    JobEndsInTime
