SPECIFICATION Spec
CONSTANTS
    NTasks = 2
    Budget = 1
    Timeouts <- MCTimeouts
    Grace = 1
    Slack = 0
    MaxPass = 2
    MaxClock = 9
    Faults = {"start_fails"}
INVARIANTS
    RegistryCoversAbandoned
    RegistrySwept
    GraceGiven
PROPERTIES
    ImplementsContract
    CallsAndExitEnd
