CONSTANTS
    r1 = r1
    r2 = r2
    r3 = r3
    Refs = {r1, r2, r3}
    Prices = {2, 4, 6}
    Quantities = {1, 2}
    Sizes <- PoolSizes
    Tick = 2
    Lo = 2
    Hi = 6
    MaxAdds = 3
    Listings <- TwoBidsOneAsk
    Elapsed = {1}
    QuoteSize = 2
    Policies <- Drivers
SYMMETRY Interchangeable
SPECIFICATION Spec
INVARIANTS AheadIsExact PriorityMeansNoneBehind FilledInTurn NaiveFillsMore
PROPERTIES OneEventLate LandsBeforeFills SameNaive
CHECK_DEADLOCK FALSE
