CONSTANTS
    Files <- FilesOfThree
SPECIFICATION CosimSpec
INVARIANTS PassIsAccounted GateMeansRead SameMessages
PROPERTIES AssertionsHold
