SPECIFICATION Spec
CONSTANTS
    HostRoot = "host"
    ImageRoot = "image"
    Dynamic <- MCDynamic
    StaticNames <- MCStaticNames
    MaxHops = 4
    MaxProviderFiles = 2
    MaxScannedEntries = 5
    MaxLink = 4
    MaxSteps = 16
    MaxPass = 3
    Logins <- MCLogins
INVARIANTS
    NeverOutside
    ReadIsContainers
    StaticIsTraefiks
    LabelsAreDrawn
    WiringIsMeasured
    PanelTakesHalf
    WhatIsUsedIsWritten
PROPERTIES
    PassIsDrawn
CHECK_DEADLOCK FALSE
