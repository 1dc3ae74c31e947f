\* A 3-slot file store with a 3-bit cursor (3 does not divide 2^3), with
\* flushes and restarts.  Three ways the store leaves the ring:
\*  - a restart whose saved cursor is 0 (nothing appended yet, or the
\*    cursor wrapped) reopens the file with "w+" and loses every block;
\*  - a crash reloads the cursor of the last save, and the next append
\*    overwrites a newer block;
\*  - after appends 0..7 fill slots 0,1,2,0,1,2,0,1 the cursor wraps to 0,
\*    and the ninth append overwrites slot 0 instead of slot 2 (the oldest).
CONSTANTS
    BlockCount = 3
    OffsetWidth = 3
    StoreType = "file"
    b1 = b1
    b2 = b2
    Bodies <- MCBodies
    Empty = Empty
    Offsets = {1, 6}
    MaxAppends = 10
    TornBodies = {}
SPECIFICATION PSpec
PROPERTY RingRefinement
