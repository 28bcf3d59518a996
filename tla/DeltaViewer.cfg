SPECIFICATION FairSpec
CONSTANTS
    BufferSize = 4
    Group = 4
    MaxBytes = 3
    Weight <- PowersOf4
    FixedBytes = 2
    DigestBytes = 1
    TrailerBytes = 2
    MaxChunk = 13
    Magic <- MagicBytes
    Version = 5
    TrailerTag = 7
    OpTag <- Tags
    Chunks <- SomeChunks
    Wholes <- SomeWholes
    MaxItems = 2
INVARIANTS
    TypeOK
    ReadAheadIsNext
    ViewsWhatWasWritten
    TruncationNoticed
    AcceptedIsLayout
    ShorterRecord
    StatusTellsWhy
PROPERTIES
    NumberExact
    ViewEnds
