CONSTANTS
    Capacity = 2
    Messages = 4
    Attempts = 2
    WaitReaders = {0, 1}
    Restarts = 1
SPECIFICATION FairSessionSpec
INVARIANTS NothingTornInSession Accounted OpensWholeRing
PROPERTIES GapOnlyWhenOverwritten ImplementsFeed SubscriberStops
