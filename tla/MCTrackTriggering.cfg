SPECIFICATION TracksSpec
CONSTANTS
    Unit = 4
    Precision = 6
    Kinds = {"float", "quaternion"}
    Ratios <- MCRatios
    FloatValues = {0, 1, 2, 4}
    QuaternionValues <- MCQuaternions
    NotBuilt = NotBuilt
    Clips <- MCClips
    Poses <- MCPoses
    RootJoints = {0, 1}
    PositionSettings <- MCPosition
    RotationSettings <- MCRotation
    Thresholds = {0, 1}
    Heads <- MCHeads
    Places = {"a", "b"}
    Nowhere = "nowhere"
CONSTRAINT Explored
INVARIANTS
    TypeOK
    BuiltSamplesAsAuthored
    MotionRecombines
    DeltasGiveBack
    EdgesTellTheTrack
PROPERTY CallsReturn
