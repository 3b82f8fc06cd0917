SPECIFICATION Spec
CONSTANTS
    o1 = o1
    o2 = o2
    w1 = w1
    w2 = w2
    a = a
    b = b
    j1 = j1
    j2 = j2
    j3 = j3
    Owner <- MCOwner
    Work <- MCWork
    Crashes = 1
    Faults = 1
    Strays = 1
    Remote <- MCRemote
    Foreign <- MCForeign
    NoContent = NoContent
    Sized <- MCSized
    Written <- MCWritten
    Changes = 1
    Runs = 2
    Job <- MCJob
    Capacity = 3
    Headroom = 1
    Window = 1
    Hint <- MCHint
    Sizes = {1, 2}
    MaxForeign = 1
    NoRegistry = NoRegistry
    NoSample = NoSample
INVARIANTS
    TypeOK
    WorkHasItsOwner
    TrustedIsTrue
    WrittenIsCharged
SYMMETRY Alike
CHECK_DEADLOCK FALSE
