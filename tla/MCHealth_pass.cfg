SPECIFICATION Spec
CONSTANTS
    DockerKinds <- MCDockerKinds
    Configs <- MCHosts
INVARIANTS
    AskedOnce
    AbsenceIsMeasured
    RowsAreAnswers
