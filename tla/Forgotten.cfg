SPECIFICATION FairSpec
CONSTANTS
    n1 = n1
    n2 = n2
    Names = {n1}
    OtherFinalizers = FALSE
    Lossy = FALSE
    MaxChanges = 2
    MaxErrors = 0
    MaxCrashes = 1
PROPERTIES
    GoneIsConveyed
CHECK_DEADLOCK FALSE
