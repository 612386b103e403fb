\* SelfUpdate, on both kinds of platform, under every fault at once.
SPECIFICATION FairSpec
CONSTANTS
    MaxVersion = 3
    Built <- MCBuilt
    Budget <- MCBudget
CHECK_DEADLOCK FALSE
INVARIANTS TypeOK InstalledAsVerified BinaryKept
PROPERTIES NoDowngrade EventuallyUpdated
