SPECIFICATION Spec
CONSTANTS
    Types <- MCTypes
    Skeleton = "skeleton"
    Clip = "clip"
    Tag <- MCTag
    Version <- MCVersion
    Supported <- MCSupported
    Base = 4
    Native = "little"
    MaxJoints = 2
    Items <- MCItems
    MaxItems = 2
    HostFails = TRUE
INVARIANTS
    TypeOK
    SavesReachReaders
    StaysInStep
    TestTells
    FileLoadsWhole
