CONSTANTS
    Full = 32
    SoaWidth = 4
    Channels = 2
    ByteBase = 4
    DenseStep = 2
    SparseStep = 8
    Raws <- MCRaws
    Drafts <- MCDrafts
    Times = {8, 24, 32, 63}
    Durations = {16, 64}
    Names <- MCNames
    MaxJoints = 5
    MaxEdits = 2
    IFrameDivs = {0, 3}
    Documents <- MCDocuments
    Periods = {3, 16}
    Paths = {1, 2}
    NoNode = 0
    Prefix = "node"
    MaxPreviousOffset = 8
    MaxKeys = 64
SPECIFICATION Spec
INVARIANTS TypeOK ImportKeepsMotion ChainIntact BuiltWellFormed RuntimeReadsBack
PROPERTIES Termination
CHECK_DEADLOCK FALSE
