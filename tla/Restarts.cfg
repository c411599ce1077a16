SPECIFICATION Spec
CONSTANTS
    n1 = n1
    n2 = n2
    Names = {n1, n2}
    OtherFinalizers = FALSE
    Lossy = TRUE
    MaxChanges = 4
    MaxErrors = 1
    MaxCrashes = 1
SYMMETRY Symmetry
INVARIANTS
    TypeOK
    FinalizerGuards
    CaughtUp
PROPERTIES
    OnlyDeletedDisappear
    ImplementsFeed
CHECK_DEADLOCK FALSE
