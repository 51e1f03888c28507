CONSTANTS
    Full = 6
    SoaWidth = 2
    FlagBits = 2
    Addresses = {p, q}
    Clips = {Walk, Wave}
    Walk = Walk
    Wave = Wave
    Stream <- MCStream
    Channels = 2
    MaxSoa = 3
    Null = Null
    Garbage = Garbage
SPECIFICATION Spec
INVARIANTS TypeOK CacheFollowsKeys AssertionsHold SampledKeysSurround
