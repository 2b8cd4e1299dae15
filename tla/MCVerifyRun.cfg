CONSTANTS
    Callers = {run, deploy}
    Run = run
    Contracts = {k1}
    k1 = k1
    A = A
    B = B
    C = C
    Names = {A, B, C}
    Plugins = {"etherscan", "blockscout", "routescan", "sourcify"}
    Configs <- Pairs
    Limits <- SomeLimits
    Stores <- Listings
    Requests <- CommandLines
    CanListAll = FALSE
    MaxOthers = 1
    MaxJobs = 2
    Everything = Everything
    NaN = NaN
    NoTarget = NoTarget
    NoRequest = NoRequest
SPECIFICATION FairSpec
INVARIANTS TypeOK SuccessMeansVerified FailureIsTheExplorers PollsOnlyRealJobs RerunNeverRejected OkIsEarned EveryRecordAccounted
PROPERTIES EveryVerificationSettles RunEndsInReport
CHECK_DEADLOCK FALSE
