CONSTANTS
    Procs = {p1, p2}
    n1 = n1
    A = A
    B = B
    a = a
    b = b
    x = x
    y = y
    e1 = e1
    e2 = e2
    o1 = o1
    o2 = o2
    Networks = {n1}
    Names = {A, B}
    Ids = {a, b}
    Sources = {x, y}
    ExternalAddrs = {e1, e2}
    OldAddrs = {o1, o2}
    Jobs <- AllJobs
    Alone = {"register", "reset", "resetAll"}
    Inherited <- OldRecords
    HasLock = TRUE
    HasSources = TRUE
    RevertedHasAddress = FALSE
    MaxTxs = 2
    MaxCalls = 3
    MaxFaults = 1
    NoRecord = NoRecord
    NoAddr = NoAddr
    NoId = NoId
    NoSrc = NoSrc
    NoJob = NoJob
    Free = Free
    Orphan = Orphan
SPECIFICATION FairSpec
INVARIANTS TypeOK CallSeesCurrentRecord HistoryExplains SourcesPinned RecordedIsCreated EveryCreationAccounted
PROPERTIES DeployedNeverClobbered ExternalNeverReplaced LockComesFree ImplementsLog
CHECK_DEADLOCK FALSE
