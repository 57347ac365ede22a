CONSTANT None = None
SPECIFICATION MCFairSpec
INVARIANTS ScreenExact ConsolesSound   WindowsShown CommandExact
PROPERTIES SelectionEnds 
CHECK_DEADLOCK FALSE
