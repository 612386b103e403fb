\* PluginManager, under every fault at once.
SPECIFICATION FairSpec
CONSTANTS
    MaxVersion = 3
    Build <- MCBuild
    Budget <- MCBudget
CHECK_DEADLOCK FALSE
INVARIANTS TypeOK CacheMirrorsLoaded
PROPERTIES NoDowngrade EventuallyCurrent
