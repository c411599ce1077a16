SPECIFICATION Spec
CONSTANTS
    i1 = i1
    i2 = i2
    None = None
    Instances = {i1, i2}
    Overlaps = {"none", "standby", "any"}
    MaxStarts = 6
    MaxGeneration = 2
SYMMETRY Symmetry
INVARIANTS
    TypeOK
    MessagesAreMoreRecent
    IncarnationsDiffer
CHECK_DEADLOCK FALSE
