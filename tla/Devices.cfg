CONSTANTS
    M = 3
    NDisks = 2
    NEntries = 2
    Tables <- MCTables
    None = None
SPECIFICATION MCFairSpec
INVARIANTS TransferInPartition PartitionsInOrder TransferCorrect ControllerSound ProbedOnce 
PROPERTIES  RequestsServed
CHECK_DEADLOCK FALSE
