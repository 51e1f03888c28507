CONSTANTS
    KMaxJoints = 4
    Hierarchies <- MCHierarchies
    SoaWidth = 2
    Rest = Rest
    Bent = Bent
    Transforms = {Rest, Bent}
    Identity = Rest
    Root <- MCRoot
    Placed = Placed
    MaxTo = 3
    Sources <- MCSources
    JointSettings <- MCJointSettings
    Tolerance = 2
    SoaLanes <- MCLanes
    Weights <- MCWeights
    JointWeights <- MCJointWeights
    Full = Full
    One = 2
    Rotations <- MCRotations
    RestRotation <- MCRestRotation
    Thresholds = {1, 3}
    Garbage = 7
    MaxLayers = 2
    MaxAdditive = 1
    Undefined = Undefined
    NaN = NaN
    NoCall = NoCall
SPECIFICATION MCSpec
INVARIANTS TypeOK SkeletonsServe NothingLeaks ModelsFollow DecimatedNear BlendIsAverage
PROPERTIES WritesInside BuildsKeepContract FormsAgree
