SPECIFICATION Spec
CONSTANTS
    c1 = c1
    c2 = c2
    f1 = f1
    Clients = {c1, c2}
    Functions = {f1}
    MaxJobs = 1
    NoJob = NoJob
INVARIANTS
    IdleGaugeExact
