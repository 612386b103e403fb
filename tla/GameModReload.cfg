\* GameMod, a game is loaded while the last loop works.
SPECIFICATION FairSpec
CONSTANTS
    Loads = 2
    MaxFailures = 2
    LoadDuring <- MCLoadDuring
    NoCode = NoCode
    Budget <- MCBudgetQuiet
CHECK_DEADLOCK FALSE
PROPERTIES ReloadSafe
