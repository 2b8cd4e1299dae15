CONSTANTS
    Procs = {p1, p2}
    n1 = n1
    A = A
    B = B
    a = a
    b = b
    x = x
    y = y
    e1 = e1
    e2 = e2
    o1 = o1
    o2 = o2
    Networks = {n1}
    Names = {A, B}
    Ids = {a, b}
    Sources = {x, y}
    ExternalAddrs = {e1, e2}
    OldAddrs = {o1, o2}
    Jobs <- FewJobs
    Alone = {"register"}
    Inherited <- NoOldRecords
    HasLock = TRUE
    HasSources = TRUE
    RevertedHasAddress = FALSE
    MaxTxs = 2
    MaxCalls = 2
    MaxFaults = 0
    NoRecord = NoRecord
    NoAddr = NoAddr
    NoId = NoId
    NoSrc = NoSrc
    NoJob = NoJob
    Free = Free
    Orphan = Orphan
SPECIFICATION Spec
INVARIANT SourcesPinned
CHECK_DEADLOCK FALSE
