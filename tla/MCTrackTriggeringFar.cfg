SPECIFICATION TracksSpec
CONSTANTS
    Unit = 4
    Precision = 3
    Kinds = {"float"}
    Ratios = {0, 4}
    FloatValues = {1}
    QuaternionValues = {}
    NotBuilt = NotBuilt
    Clips = {}
    Poses = {}
    RootJoints = {0}
    PositionSettings = {}
    RotationSettings = {}
    Thresholds = {0}
    Heads <- FarHeads
    Places = {"a"}
    Nowhere = "nowhere"
CONSTRAINT ExploredFar
PROPERTY CallsReturn
