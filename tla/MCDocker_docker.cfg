SPECIFICATION Spec
CONSTANTS
    Cases <- MCCases
    Nodes = 2
    Window = 2
    Retention = 2
    Endings = {"2"}
INVARIANTS
    GreenIsEarned
    AlarmIsTrue
    StoppedIsNotSlow
    FallsAreCounted
    MemoryAddsUp
