CONSTANTS
    NoValue = NoValue
    Compiled <- Versions
    Setups <- SomeSetups
    Trees <- AllTrees
    Directories = {"artifacts", "out", "moved"}
    Strategies = {NoValue, "never"}
    ArgValues <- PassedValues
    Contract = "Token"
    MaxEdits = 1
    MaxConfigs = 1
    MaxCompiles = 2
    MaxCalls = 2
SPECIFICATION Spec
INVARIANTS TypeOK RecordDescribesItsCode NeverSilent IndexLoads ReadsLastBuild
PROPERTIES RedeploysWhatChanged
CHECK_DEADLOCK FALSE
