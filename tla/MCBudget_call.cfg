SPECIFICATION Spec
CONSTANTS
    NTasks = 3
    Budget = 2
    Timeouts <- MCTimeouts
    Grace = 1
    Slack = 1
    MaxPass = 1
    MaxClock = 9
    Faults = {"interrupt", "start_fails"}
INVARIANTS
    OneVerdictEach
    NoLateAnswer
    TruncatedHadItsTime
    WaitsBounded
