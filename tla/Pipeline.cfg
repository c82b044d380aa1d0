CONSTANTS
    Events = 4
    MaxFills = 3
    Bound = 2
SPECIFICATION FairSpec
INVARIANTS SameFills
PROPERTIES Terminates
