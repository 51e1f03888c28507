CONSTANTS
    Threads = {t1, t2}
    Blocks = {b1, b2, b3}
    WordMax = 7
    Structs = {X}
    Malformed = {Bad}
    Gpas = {A, B}
    CppAllocators = {C}
    CppHostCareful = TRUE
    Native = Native
    Adapter = Adapter
    Bridge = Bridge
    NoHost = NoHost
    Null = Null
SPECIFICATION Spec
SYMMETRY Symmetry
INVARIANTS TypeOK CountIsExact ForwardsToProducer
PROPERTIES RestoreReturns AcceptedIsUsed ImplementsContract
