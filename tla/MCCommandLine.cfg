CONSTANTS
    Processes = {p, q}
    Jobs <- Starts
    Rules <- SomeRules
    Own = {"# written by deployoor"}
    IgnoreFiles <- Files
    Excluded <- Clone
    UserConfigs <- UserWrites
    Manifests <- Projects
    NoConfig = NoConfig
    NoJob = NoJob
    MaxSaves = 1
SPECIFICATION Spec
PROPERTIES ConfigStaysTheUsers OnlyApprovedLinesGo
CHECK_DEADLOCK FALSE
