SPECIFICATION FairSpec
CONSTANTS
    a = a  b = b  z = z
    Unit = {a, b, z}
    Cut = {z}
    MaxChunk = 2
    Initial <- EditInitial
    Contents <- EditContents
    MaxChanges <- OnceEach
INVARIANTS
    TypeOK
    DeltaApplies
    SignedContentExisted
    NoFalseAlarm
PROPERTIES
    CreateEnds
