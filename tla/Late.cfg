SPECIFICATION Spec
CONSTANTS
    p1 = p1
    p2 = p2
    c1 = c1
    c2 = c2
    inform = inform
    NoObject = NoObject
    RemediationActions = {inform}
    Policies = {p1, p2}
    Clusters = {c1, c2}
    SwitchFactor = 2
    SupportsDeltaBundles = TRUE
    Levels = {"full"}
    Unmarshallable = {}
    Incompressible = {"delta"}
    Rejectable = {"delta"}
    Undeliverable = {"delta"}
    TimelyReports = FALSE
    MaxChanges = 3
    MaxReports = 3
SYMMETRY Symmetry
INVARIANTS
    TypeOK
    CompleteCanRepair
    BundlesAgree
