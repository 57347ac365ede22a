\* Two threads print.
CONSTANT None = None
SPECIFICATION RaceSpec
INVARIANTS CharAtInRange
CHECK_DEADLOCK FALSE
