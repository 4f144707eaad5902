SPECIFICATION Spec
CONSTANTS
    i1 = i1
    i2 = i2
    Instances = {i1, i2}
    NoFile = NoFile
    Stale = Stale
    Unknown = Unknown
    Empty = Empty
PROPERTY DestructorKeepsOthersFile
