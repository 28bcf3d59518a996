SPECIFICATION Spec
CONSTANTS
    Byte = {0, 1}
    MaxLen = 5
    DLimit = 6
    Checkpoints = {4}
    MaxCount = 2
INVARIANTS
    RoundTrip
    Shortest
    WellFormed
    EmptyMeansEqual
