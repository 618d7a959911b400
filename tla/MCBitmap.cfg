\* Two bytes: the search crosses a byte boundary, and all 2^16 bitmaps are reachable.
CONSTANT
    BITMAP_ENTRIES = 16
INIT Init
NEXT Next
INVARIANTS
    TypeOK
    GetFreeRoundTrip
PROPERTY
    AllocatorRefinement
