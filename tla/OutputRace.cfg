SPECIFICATION Spec
CONSTANTS
    t1 = t1  t2 = t2  p1 = p1  p2 = p2
    d = d  in = in  old = old  src = src
    private = private  public = public
    Txn = {t1, t2}
    Proc = {p1, p2}
    Path = {d, in}
    Given = {old, src}
    Perm = {private, public}
    NewPerm = public
    Owner <- RaceOwner
    Dest <- RaceDest
    Inputs <- RaceInputs
    Initial <- RaceInitial
    Taken <- RaceTaken
    GivenPerm <- RaceGivenPerm
    Stub = Stub
    Leftover = Leftover
    Directory = Directory
    None = None
    NumSlots = 1
    MaxAttempts = 2
    Size = 1
    HaveNoreplace = TRUE
    MaxRebinds = 0
INVARIANTS
    TypeOK
    DurableWhole
    FailureLeavesDestination
    PermissionsCarriedOver
PROPERTIES
    ImplementsAtomicReplace
