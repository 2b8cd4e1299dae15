CONSTANTS
    Procs = {p1, p2, p3}
    MaxAttempts = 1
    MaxFaults = 0
    SlowHolders = FALSE
    NoFile = NoFile
    Orphan = Orphan
SPECIFICATION Spec
INVARIANT RefusedOnlyAfterAllAttempts
SYMMETRY Symmetry
