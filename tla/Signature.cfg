SPECIFICATION Spec
CONSTANTS
    Window = 2
    MaxByte = 1
    WordSize = 64
    BufferSize = 3
    MinChunk = 3
    TargetChunk = 5
    MaxChunk = 6
    TightBits = 2
    LooseBits = 1
    Target = 3
    Parameters <- SmallParameters
    MaxLen = 9
INVARIANTS
    TypeOK
    RollingIsDirect
    CutsAreLocal
    NoByteLost
    WholeOrNothing
