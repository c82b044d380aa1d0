CONSTANTS
    r1 = r1
    r2 = r2
    r3 = r3
    Refs = {r1, r2, r3}
    Prices = {2, 4, 5, 6}
    Quantities = {0, 1, 2}
    Depth = 2
    Tick = 2
    Lo = 2
    Hi = 4
    Builds <- RoomyAndSmall
    MaxAdds = 3
    MaxRejected = 2
SYMMETRY Interchangeable
SPECIFICATION Spec
INVARIANTS Gate ShowTheirOrders PoolsWhole DropsAreCounted StampsAreQueueOrder BestIsResting
PROPERTIES ImplementBook
