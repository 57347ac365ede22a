\* A reader of a serial port.
CONSTANTS
    M = 3
    NDisks = 2
    NEntries = 2
    Tables <- MCTables
    None = None
SPECIFICATION WaitSpec
PROPERTIES WaitReturns
CHECK_DEADLOCK FALSE
