SPECIFICATION Spec
CONSTANTS
    Versions <- MCVersions
    None = none
PROPERTIES
    SuccessMeansLoaded
