SPECIFICATION Spec
CONSTANTS
    Versions <- MCVersions
    None = none
PROPERTIES
    NothingDeletedUnderCollector
    RemovedLeavesNoCopy
    SuccessMeansRunning
