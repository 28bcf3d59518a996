SPECIFICATION FairSpec
CONSTANTS
    t1 = t1  t2 = t2  p1 = p1  p2 = p2
    d = d  in = in  old = old  src = src
    private = private  public = public
    Txn = {t1, t2}
    Proc = {p1}
    Path = {d, in}
    Given = {old, src}
    Perm = {private, public}
    NewPerm = public
    Owner <- PoolOwner
    Dest <- PoolDest
    Inputs <- RaceInputs
    Initial <- RaceInitial
    Taken <- RaceTaken
    GivenPerm <- RaceGivenPerm
    Stub = Stub
    Leftover = Leftover
    Directory = Directory
    None = None
    NumSlots = 1
    MaxAttempts = 2
    Size = 2
    HaveNoreplace = FALSE
    MaxRebinds = 1
INVARIANTS
    StagedRemoved
    InputsSurvive
    LeftoversKept
PROPERTIES
    EveryTransactionEnds
