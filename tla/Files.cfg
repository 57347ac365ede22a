CONSTANTS
    Item = {"a"}
    Cap = 1
SPECIFICATION FilesSpec
INVARIANTS FileReadExact DirectoryExact 
CHECK_DEADLOCK FALSE
