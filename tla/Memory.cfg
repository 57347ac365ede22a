\* The sizes of the other managers are in MC_Memory.
CONSTANTS
    BlockSizes = {1, 2, 4, 8, 16}
    Regions <- MCRegions
    Requests = {1, 2, 3, 5, 9}
    NotPresent = NotPresent
    Nothing = Nothing
SPECIFICATION MCSpec
INVARIANTS BootExact PagesPartitioned FreeMemoryServed LayoutExact HeapConsistent  TlbHarmless
CHECK_DEADLOCK FALSE
