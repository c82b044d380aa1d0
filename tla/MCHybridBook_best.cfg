CONSTANTS
    r1 = r1
    r2 = r2
    r3 = r3
    Refs = {r1, r2, r3}
    Prices = {2, 4, 6}
    Quantities = {0, 1, 2}
    Depth = 2
    Sizes <- OneSize
    Tick = 2
    Lo = 2
    Hi = 6
    MaxAdds = 4
    MaxRejected = 1
SYMMETRY Interchangeable
SPECIFICATION Spec
INVARIANTS BestIsBest
