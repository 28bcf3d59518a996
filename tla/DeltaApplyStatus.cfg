SPECIFICATION Spec
CONSTANTS
    a = a  b = b
    Byte = {a, b}
    Deltas <- Damaged
    Contents <- OldContents
    MaxLength = 4
    Chunked <- InPairs
    MaxChunk = 2
    Options <- SomeOptions
    MaxWord = 15
    Scale <- SmallScale
    MaxChanges = 1
INVARIANTS
    ReadFailureIsStatus2
