SPECIFICATION Spec
CONSTANTS
    Base = 2
    MaxBlocks = 2
    Lag = 2
    Wrap = 1000000
    FarBehind = 1000
    FewBlocks = 10
    MaxLib = 10
    MaxCrashes = 3
    MaxImports = 1
INVARIANTS OpenSucceeds LogReadable TruncationKeeps AppendsInPlace LogReachesLib
CHECK_DEADLOCK FALSE
