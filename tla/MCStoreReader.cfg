\* A 2-slot file store with a 2-bit cursor (2 divides 2^2) and a reader of
\* blocks [0, 3).  The writer can lap the reader (block 2 overwrites block
\* 0), the reader can catch up with the writer, the fifth append wraps the
\* cursor and re-stamps block id 0, an explicit write at offset 3 stamps a
\* slot with the id of a later lap, and any write may fail.
CONSTANTS
    d1 = d1
    d2 = d2
    d3 = d3
    BlockCount = 2
    OffsetWidth = 2
    StoreType = "file"
    Bodies <- MCBodies
    Empty = Empty
    Offsets = {3}
    MaxAppends = 5
    TornBodies = {}
    StartBlock = 0
    EndBlock = 3
    ReadCounts = {1, 2}
    SeekOffsets = {0, 1}
    BufferSize = 2
    ClearSize = 1
SPECIFICATION RSpec
INVARIANT RTypeOK
INVARIANT DeliversStoredBlocks
PROPERTY RingRefinement
