SPECIFICATION Spec
CONSTANTS
    c1 = c1
    c2 = c2
    f1 = f1
    f2 = f2
    Clients = {c1, c2}
    Functions = {f1, f2}
    MaxJobs = 2
    NoJob = NoJob
SYMMETRY ClientSymmetry
INVARIANTS
    ClientTypeOK
    StackIsUnansweredJob
    WorkingGaugeExact
    IdleGaugeNeverLow
    JobsCountedOnce
    ErrorsIncludeTimeouts
    CompletedJobsSucceeded
