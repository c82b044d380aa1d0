CONSTANTS
    Capacity = 4
    Messages = 9
    Ordering = "AcqRel"
    Caching = "Cached"
SPECIFICATION FairRingSpec
INVARIANTS InOrder RaceFree MaskIsExact
PROPERTIES ImplementsFifo AllDelivered
