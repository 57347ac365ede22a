\* Two callers on one bus.
CONSTANTS
    M = 3
    NDisks = 2
    NEntries = 2
    Tables <- MCTables
    None = None
SPECIFICATION LockSpec
PROPERTIES DmaOrder
CHECK_DEADLOCK FALSE
