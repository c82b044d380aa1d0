CONSTANTS
    Capacity = 2
    Messages = 2
    Attempts = 2
    WaitReaders = {0}
    Restarts = 1
SPECIFICATION SessionSpec
INVARIANTS NothingAbsorbed
