--------------------------- MODULE MCStoreReader ---------------------------
EXTENDS StoreReader

CONSTANTS d1, d2, d3

\* Bodies a write_block request may carry: an i16 block of two samples, an
\* f32 block of one, and a block shorter than its header.
MCBodies ==
    { [type |-> "i16", n |-> 2, data |-> d1],
      [type |-> "f32", n |-> 1, data |-> d2],
      [type |-> "i16", n |-> -1, data |-> d2] }

\* The same, and a BLOCK_TYPE_BYTES block that the reader does not decode.
MCBodiesBytes ==
    { [type |-> "i16", n |-> 2, data |-> d1],
      [type |-> "bytes", n |-> 1, data |-> d3] }

\* A failed fwrite that wrote the header of an i16 block and part of its
\* payload: its samples are no block's samples.
MCTornBodies == { [type |-> "i16", n |-> 2, data |-> d2] }
=============================================================================
