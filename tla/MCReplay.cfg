CONSTANTS
    Touches <- ShortTouches
    Elapsed = {0, 1, 3}
    Start = 1
    MaxEvents = 4
    Horizon = 1
    grid_ns = 2
    block_ns = 2
    p1 = p1
    p2 = p2
    Policies = {p1, p2}
SYMMETRY Interchangeable
SPECIFICATION Spec
INVARIANTS MarkedToMidInForce SampledOncePerCell BlocksHoldAll
CHECK_DEADLOCK FALSE
