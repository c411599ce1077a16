SPECIFICATION Spec
CONSTANTS
    i1 = i1
    i2 = i2
    None = None
    Instances = {i1, i2}
    Overlaps = {"standby"}
    MaxStarts = 4
    MaxGeneration = 2
SYMMETRY Symmetry
INVARIANTS
    NothingOutdatedIsSent
CHECK_DEADLOCK FALSE
