SPECIFICATION Spec
CONSTANTS
    HostRoot = "host"
    ImageRoot = "image"
    Dynamic <- MCDynamic
    StaticNames <- MCStaticNames
    MaxHops = 4
    MaxProviderFiles = 2
    MaxScannedEntries = 5
    MaxLink = 4
    MaxSteps = 16
    MaxPass = 3
    Logins <- MCConfigLogins
INVARIANTS
    LoadNeverRaises
CHECK_DEADLOCK FALSE
