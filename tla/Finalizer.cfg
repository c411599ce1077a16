SPECIFICATION FairSpec
CONSTANTS
    n1 = n1
    n2 = n2
    Names = {n1}
    OtherFinalizers = TRUE
    Lossy = FALSE
    MaxChanges = 4
    MaxErrors = 1
    MaxCrashes = 1
INVARIANTS
    NothingLost
PROPERTIES
    DeletionCompletes
    Converges
CHECK_DEADLOCK FALSE
