SPECIFICATION Spec
CONSTANTS
    Types <- MCTypes
    Skeleton = "skeleton"
    Clip = "clip"
    Tag <- MCTag
    Version <- MCVersion
    Supported <- MCSupported
    Base = 4
    Native = "little"
    MaxJoints = 2
    Items <- OtherItems
    MaxItems = 1
    HostFails = FALSE
INVARIANT VersionMismatchRejected
