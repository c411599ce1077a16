SPECIFICATION Spec
CONSTANTS
    p1 = p1
    p2 = p2
    c1 = c1
    inform = inform
    Policies = {p1, p2}
    NoPolicy = NoPolicy
    Clusters = {c1}
    RemediationActions = {inform}
    Names = {"n1"}
    StatusValues <- MCStatusValues
    MaxChanges = 5
INVARIANTS
    TypeOK
    LocalBundlesAgree
    OwnerReports
    OthersDoNot
    LocalNothingLost
    NoneStuck
SYMMETRY Symmetry
CHECK_DEADLOCK FALSE
