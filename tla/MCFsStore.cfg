CONSTANTS
    Procs = {p1, p2}
    n1 = n1
    n2 = n2
    A = A
    Networks = {n1, n2}
    Names = {A}
    r1 = r1
    r2 = r2
    h1 = h1
    h2 = h2
    Hashes = {h1, h2}
    Recs = {r1, r2}
    SrcOf <- Sources
    Inherited = {r1, Damaged}
    Asked <- SomeCalls
    MaxCalls = 3
    NoFile = NoFile
    Damaged = Damaged
    NoSrc = NoSrc
    NoCall = NoCall
SPECIFICATION Spec
INVARIANTS TypeOK ListsAreCurrent PruneSparesNamed ThrowsOnlyForItsFile
PROPERTY ImplementsRecordStore
SYMMETRY Symmetry
CHECK_DEADLOCK FALSE
