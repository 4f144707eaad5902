SPECIFICATION Spec
CONSTANTS
    i1 = i1
    i2 = i2
    i3 = i3
    Instances = {i1, i2, i3}
    NoFile = NoFile
    Stale = Stale
    Unknown = Unknown
    Empty = Empty
SYMMETRY InstanceSymmetry
INVARIANTS
    PidfileTypeOK
    CleanExitLeavesNoFile
    RestartRecovers
PROPERTY HandlerRemovesNothing
