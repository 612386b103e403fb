\* GameMod, under every fault at once.
SPECIFICATION FairSpec
CONSTANTS
    Loads = 2
    MaxFailures = 2
    LoadDuring <- MCLoadDuring
    NoCode = NoCode
    Budget <- MCBudget
CHECK_DEADLOCK FALSE
INVARIANTS TypeOK SourceSaved
PROPERTIES EventuallyOnline LinkStateCurrent
