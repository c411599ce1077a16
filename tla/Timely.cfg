SPECIFICATION Spec
CONSTANTS
    p1 = p1
    p2 = p2
    c1 = c1
    c2 = c2
    inform = inform
    NoObject = NoObject
    RemediationActions = {inform}
    Policies = {p1}
    Clusters = {c1, c2}
    SwitchFactor = 2
    SupportsDeltaBundles = TRUE
    Levels = {"full"}
    Unmarshallable = {"cpp", "complete", "delta", "minimal"}
    Incompressible = {}
    Rejectable = {"delta"}
    Undeliverable = {}
    TimelyReports = TRUE
    MaxChanges = 4
    MaxReports = 2
SYMMETRY Symmetry
INVARIANTS
    NothingLost
    RecordsAreCurrent
    PendingIsCurrent
    DeltaBuildsOnSentBase
    BaseSentFirst
    DeltaRunIsBounded
    DeltaKeysDiffer
