SPECIFICATION FairSpec
CONSTANTS
    None = None
    Torn = Torn
    a = a
    b = b
    d1 = d1
    d2 = d2
    d3 = d3
    f1 = f1
    f2 = f2
    f3 = f3
    Game = {a, b}
    Dir = {d1, d2, d3}
    File = {f1, f2, f3}
    Path = {"known", "fallback", "slots", "own", "outside"}
    Template = {"folder", "glob", "single", "escape"}
    Glob = {"slots"}
    Allowed = {"known", "fallback", "slots", "own"}
    Exists0 = {d2, d3}
    DirOf <- MCDirOf
    Matches <- MCMatches
    Candidates <- MCCandidates
    Wanted <- MCWanted
    Budget <- MCBudget
INVARIANTS TypeOK WatchesConfigured SavesPushed RestartKeepsConfig UnknownGamesStop
CHECK_DEADLOCK FALSE
PROPERTY EventuallyPushed
