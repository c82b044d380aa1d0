CONSTANTS
    r1 = r1
    r2 = r2
    r3 = r3
    AAPL = AAPL
    MSFT = MSFT
    Refs = {r1, r2, r3}
    Quantities = {1, 2}
    Prices = {1, 2}
    Symbols = {AAPL, MSFT}
    Wanted = {AAPL, MSFT}
    Limit = 2
    MaxOrders = 3
    MaxCharges = 2
SYMMETRY Interchangeable
SPECIFICATION StatSpec
INVARIANTS RouteIsLive TapesReplayToMarket GateSpeaksForTapes
PROPERTIES ChargedForCause
CHECK_DEADLOCK FALSE
