SPECIFICATION Spec
CONSTANTS
    DockerKinds <- MCDockerKinds
    Configs <- MCShownHosts
INVARIANTS
    TruncationIsShown
