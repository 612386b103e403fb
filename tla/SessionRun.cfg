\* Session, under every fault at once.
SPECIFICATION FairSpec
CONSTANTS
    Requests = {r1}
    Capacity = 1
    MaxWire = 1
    None = None
    Linked = Linked
    Budget <- MCBudget
CHECK_DEADLOCK FALSE
INVARIANTS TypeOK AnnouncePending
PROPERTIES EventuallyAnnounced StopReturns EventuallyCurrent
