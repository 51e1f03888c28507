CONSTANTS
    Threads = {t1, t2}
    Blocks = {b1, b2, b3}
    WordMax = 7
    Structs = {X}
    Malformed = {Bad}
    Gpas = {A, B}
    CppAllocators = {C}
    CppHostCareful = FALSE
    Native = Native
    Adapter = Adapter
    Bridge = Bridge
    NoHost = NoHost
    Null = Null
SPECIFICATION Spec
SYMMETRY Symmetry
INVARIANTS ForwardsToProducer
