\* A BLOCK_TYPE_BYTES block: store_reader_fill_block sets buffer_count but
\* its decode switch writes no entry, so the reader returns zeros or the
\* previous block's samples in place of the block's payload.  And a failed
\* fwrite that left a new header over a partial payload: the reader checks
\* only the id and the length, and delivers it.
CONSTANTS
    d1 = d1
    d2 = d2
    d3 = d3
    BlockCount = 2
    OffsetWidth = 3
    StoreType = "file"
    Bodies <- MCBodiesBytes
    Empty = Empty
    Offsets = {3}
    MaxAppends = 4
    TornBodies <- MCTornBodies
    StartBlock = 0
    EndBlock = 3
    ReadCounts = {1, 2}
    SeekOffsets = {0, 1}
    BufferSize = 2
    ClearSize = 1
SPECIFICATION RSpec
INVARIANT DeliversStoredBlocks
