SPECIFICATION Spec
CONSTANTS
    p1 = p1
    p2 = p2
    c1 = c1
    c2 = c2
    inform = inform
    NoObject = NoObject
    RemediationActions = {inform}
    Policies = {p1}
    Clusters = {c1}
    SwitchFactor = 1
    SupportsDeltaBundles = TRUE
    Levels = {"full"}
    Unmarshallable = {}
    Incompressible = {}
    Rejectable = {}
    Undeliverable = {}
    TimelyReports = FALSE
    MaxChanges = 3
    MaxReports = 2
INVARIANTS
    RecordsAreCurrent
