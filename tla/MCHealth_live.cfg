SPECIFICATION LiveSpec
CONSTANTS
    DockerKinds <- MCDockerKinds
    Configs <- MCLiveHosts
PROPERTIES
    HostChecksAnswer
    EveryCheckAnswers
