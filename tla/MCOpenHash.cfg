CONSTANTS
    TableSize = 8
    Keys = {1, 2, 3, 4, 5, 6}
    Values = {1}
    Homes = {0, 6}
SPECIFICATION TableSpec
INVARIANTS ProbesEnd
PROPERTIES ImplementsMap
