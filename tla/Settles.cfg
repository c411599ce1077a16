SPECIFICATION FairSpec
CONSTANTS
    p1 = p1
    p2 = p2
    c1 = c1
    c2 = c2
    inform = inform
    NoObject = NoObject
    RemediationActions = {inform}
    Policies = {p1}
    Clusters = {c1}
    SwitchFactor = 2
    SupportsDeltaBundles = TRUE
    Levels = {"full", "minimal"}
    Unmarshallable = {}
    Incompressible = {}
    Rejectable = {"delta"}
    Undeliverable = {}
    TimelyReports = TRUE
    MaxChanges = 3
    MaxReports = 2
PROPERTIES
    Converges
