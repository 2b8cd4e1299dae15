CONSTANTS
    Procs = {p1, p2, p3}
    MaxAttempts = 1
    MaxFaults = 1
    SlowHolders = FALSE
    NoFile = NoFile
    Orphan = Orphan
SPECIFICATION Spec
INVARIANT MutualExclusion
SYMMETRY Symmetry
