CONSTANTS
    fixtureA = fixtureA
    fixtureB = fixtureB
    ContractA = ContractA
    ContractB = ContractB
    Tests = {t, u}
    Nodes = {m, n}
    Fixtures = {fixtureA, fixtureB}
    Contract <- Setups
    Names = {ContractA, ContractB}
    Suites <- TogetherOrApart
    Poke = Poke
    Nothing = Nothing
    MaxDone = 2
    MaxCalls = 4
    MaxTaken = 1
SPECIFICATION Spec
CONSTRAINT TakenWhereShared
SYMMETRY Interchangeable
INVARIANTS ThrowsOnlyWhenConsumed StaleRecordsExplained
PROPERTIES RestoresWhatWasCaptured
CHECK_DEADLOCK FALSE
