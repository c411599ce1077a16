SPECIFICATION FairSpec
CONSTANTS
    NotFound = NotFound
    Undefined = Undefined
    Invalid = Invalid
    Generics = {"policies"}
    TransportTypes = {"kafka", "sync-service"}
    MaxGeneration = 2
    MaxErrors = 1
    MaxEffort = 3
    ConfigMaps <- MCConfigMaps
    MaxConfigChanges = 2
INVARIANTS
    TypeOK
    VersionsAdvance
    PanicsAreExplained
    IntervalsSettle
PROPERTIES
    ImplementsTransport
    SendsReturn
    AttemptsHaveOutcomes
    ShutdownEnds
    ConfigTakesEffect
CHECK_DEADLOCK FALSE
