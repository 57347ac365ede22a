\* A buffer of three elements and two kinds of items; the sizes of the other
\* structures are in MC_Library.
CONSTANTS
    Item = {"a", "b"}
    Cap = 3
SPECIFICATION LibrarySpec
INVARIANTS LinksMatch BitmapExact
PROPERTIES FifoRefinement TreeExact
CHECK_DEADLOCK FALSE
