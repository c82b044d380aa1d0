CONSTANTS
    r1 = r1
    r2 = r2
    r3 = r3
    Refs = {r1, r2, r3}
    Prices = {2, 3, 4}
    Quantities = {0, 1, 2}
    Depth = 2
    Sizes <- OneSize
    MaxRejected = 1
SYMMETRY Interchangeable
SPECIFICATION Spec
INVARIANTS RejectedIsDropped
