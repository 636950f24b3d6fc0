SPECIFICATION Spec
CONSTANTS
    Configs <- MCConfigs
    Parts = 2
    MaxPolls = 3
    Interval = 2
    MaxClock = 2
    MaxServed = 2
    MaxSignals = 2
INVARIANTS
    CopyIsGoneOrReported
    VrrpIsThisRuns
    RateIsTrue
    FailedCheckIsNotFresh
