CONSTANTS
    Names = {"a", "b"}
    MaxFiles = 2
    MaxBlocks = 2
    Every = 2
    MaxPend = 2
    MaxFaults = 3
CHECK_DEADLOCK FALSE
SPECIFICATION Spec
INVARIANTS
    TypeOK
    OnceOnly
    SaidIsHere
    DropsAreNoTampering
    NothingGivenUp
PROPERTY FileArrives
