---------------------------- MODULE StoreReader ----------------------------
(***************************************************************************)
(* The store-reader stream of src/src/server/stream/stream.c over one     *)
(* store of Store.tla.  Requests are served one at a time: a write_block  *)
(* request (store_write_block) may come between two read_stream or       *)
(* seek_stream requests on the reader (store_reader_read,                 *)
(* store_reader_seek).                                                    *)
(*                                                                         *)
(* A block body is a record [type, n, data]: the sample type, n the       *)
(* number of buffer entries it fills ((block_length - 128) / item size,   *)
(* -1 when block_length < BLOCK_HEADER_LENGTH) and a payload name data.   *)
(* Sample i of a decoded block is <<data, i>>; scaling is data and is not *)
(* represented.                                                           *)
(***************************************************************************)
EXTENDS Store, Sequences

LOCAL INSTANCE SequencesExt

CONSTANTS
    StartBlock, EndBlock,  \* [start_block, end_block) of the reader
    ReadCounts,            \* sample counts a read request may ask for
    SeekOffsets,           \* block offsets a seek request may carry
    BufferSize,            \* buffer entries modelled (>= every body's n)
    ClearSize              \* entries the clear zeroes (BUFFER_SIZE of the
                           \* READER_BUFFER_SIZE-float buffer)

ASSUME \A b \in Bodies : b.n <= BufferSize
ASSUME ClearSize \in 1 .. BufferSize

\* Block types the decode switch of store_reader_fill_block handles.
DecodedTypes == {"i8", "i16", "i32", "f32", "f64"}

VARIABLES
    sr,        \* struct store_reader_stream
    delivered, \* history: samples returned since the last seek
    fills,     \* history: <<position, body>> of the blocks decoded since then
    written    \* history: every <<block id, body>> a write stored whole

rvars == <<sr, delivered, fills, written>>
allvars == <<vars, rvars>>

Sample(b, i) == <<b.data, i>>

\* A zero-filled buffer entry (bzero, calloc).
ZeroSample == <<Empty, 0>>

\* block_length < BLOCK_HEADER_LENGTH; a zero-filled slot has length 0.
ShortBlock(b) == b = Empty \/ b.n < 0

\* store_reader_clear_buffer: bzero of the first BUFFER_SIZE floats only.
ClearBuffer(r) ==
    [r EXCEPT !.eos = TRUE,
              !.buffer = [i \in 0 .. BufferSize - 1 |-> IF i < ClearSize THEN ZeroSample ELSE @[i]],
              !.buffer_count = 0, !.buffer_offset = 0]

\* Variants of FillRejects: no block_id check; a length check that only
\* rejects an empty (zero-length) slot.
FillRejectsNoId(r) ==
    LET blk == StoreReadBlock(r.current_block)
    IN  r.current_block < r.start_block \/ r.current_block >= r.end_block
        \/ ~Readable(r.current_block) \/ ShortBlock(blk.body)
FillRejectsEmptyOnly(r) ==
    LET blk == StoreReadBlock(r.current_block)
    IN  r.current_block < r.start_block \/ r.current_block >= r.end_block
        \/ ~Readable(r.current_block)
        \/ blk.id /= r.current_block \/ blk.body = Empty

\* The early returns of store_reader_fill_block: out of range, read error
\* (store_read_block fails), wrong id, short block.
FillRejects(r) ==
    LET blk == StoreReadBlock(r.current_block)
    IN  r.current_block < r.start_block \/ r.current_block >= r.end_block
        \/ ~Readable(r.current_block)
        \/ blk.id /= r.current_block \/ ShortBlock(blk.body)

(***************************************************************************)
(* store_reader_fill_block, as a function of the reader record and the    *)
(* history of fills.  Returns [r, fills].                                 *)
(***************************************************************************)
FillBlock(r, fl) ==
    LET blk == StoreReadBlock(r.current_block)
        b   == blk.body
    IN
    IF FillRejects(r)
      THEN [r |-> ClearBuffer(r), fills |-> fl]
      ELSE [r |-> [r EXCEPT
                     !.buffer_offset = 0,
                     !.current_block = (@ + 1) % IdSpace,
                     !.buffer_count = b.n,
                     !.buffer = [i \in 0 .. BufferSize - 1 |->
                                   IF i < b.n /\ b.type \in DecodedTypes
                                     THEN Sample(b, i) ELSE @[i]]],
            fills |-> Append(fl, <<r.current_block, b>>)]

MinOf(a, b) == IF a < b THEN a ELSE b

(***************************************************************************)
(* The loop of store_reader_read: copy what the buffer holds, refill when *)
(* it is used up (also right after the last copy), stop at eos or when    *)
(* count samples were copied.  st is [r, out, fills].                     *)
(***************************************************************************)
RECURSIVE ReadLoop(_, _)
ReadLoop(st, count) ==
    IF st.r.eos \/ count <= 0 THEN st
    ELSE
      LET r       == st.r
          to_read == MinOf(r.buffer_count - r.buffer_offset, count)
          copied  == IF to_read > 0
                       THEN [st EXCEPT
                               !.out = @ \o [i \in 1 .. to_read |->
                                               r.buffer[r.buffer_offset + i - 1]],
                               !.r.buffer_offset = @ + to_read]
                       ELSE st
          filled  == IF copied.r.buffer_offset = copied.r.buffer_count
                       THEN LET f == FillBlock(copied.r, copied.fills)
                            IN [copied EXCEPT !.r = f.r, !.fills = f.fills]
                       ELSE copied
      IN ReadLoop(filled, count - to_read)

\* store_reader_seek: reposition to start_block + offset, clear eos, and
\* refill eagerly.  The histories restart at the seek.
SeekResult(r, offset) ==
    FillBlock([r EXCEPT !.current_block = (r.start_block + offset) % IdSpace,
                        !.eos = FALSE], <<>>)

\* The reader as new_store_reader_stream leaves it, before its seek(0).
NewReader ==
    [start_block |-> StartBlock, end_block |-> EndBlock, current_block |-> 0,
     buffer_offset |-> 0, buffer_count |-> 0, eos |-> FALSE,
     buffer |-> [i \in 0 .. BufferSize - 1 |-> ZeroSample]]

(***************************************************************************)
(* handle_create_stream built the reader (new_store_reader_stream seeks   *)
(* to 0) and then seeked it to 0 again; the store is as Store.tla starts. *)
(***************************************************************************)
RInit ==
    /\ Init
    /\ LET f == SeekResult(SeekResult(NewReader, 0).r, 0)
       IN /\ sr = f.r
          /\ fills = f.fills
    /\ delivered = <<>>
    /\ written = {}

\* handle_read_stream for one chunk: store_reader_read(stream, samples, count).
ReaderRead(count) ==
    LET st == ReadLoop([r |-> sr, out |-> <<>>, fills |-> fills], count)
    IN  /\ ~sr.eos
        /\ sr' = st.r
        /\ delivered' = delivered \o st.out
        /\ fills' = st.fills
        /\ UNCHANGED <<vars, written>>

\* handle_seek_stream: store_reader_seek(stream, block_id).
ReaderSeek(offset) ==
    LET f == SeekResult(sr, offset)
    IN  /\ sr' = f.r
        /\ fills' = f.fills
        /\ delivered' = <<>>
        /\ UNCHANGED <<vars, written>>

\* handle_write_block on the store the reader reads.  Only a write that
\* store_write_block reports as done stores its block whole.
WriteBlock ==
    \E b \in Bodies, ok \in Outcomes, offset \in Offsets \cup {APPEND} :
        /\ StoreWriteBlock(b, offset, ok)
        /\ written' = IF ok THEN written \cup {<<WriteTarget(offset), b>>} ELSE written
    /\ UNCHANGED <<sr, delivered, fills>>

RNext ==
    \/ WriteBlock
    \/ \E c \in ReadCounts : ReaderRead(c)
    \/ \E o \in SeekOffsets : ReaderSeek(o)

RSpec == RInit /\ [][RNext]_allvars

-----------------------------------------------------------------------------
Samples == {ZeroSample} \cup {Sample(b, i) : b \in Bodies, i \in 0 .. BufferSize - 1}

RTypeOK ==
    /\ TypeOK
    /\ sr.current_block \in 0 .. IdSpace - 1
    /\ sr.buffer_offset \in 0 .. BufferSize
    /\ sr.buffer_count \in 0 .. BufferSize
    /\ sr.buffer \in [0 .. BufferSize - 1 -> Samples]
    /\ sr.eos \in BOOLEAN
    /\ delivered \in Seq(Samples)
    /\ fills \in Seq((0 .. IdSpace - 1) \X Bodies)

BlockSamples(b) == [i \in 1 .. b.n |-> Sample(b, i - 1)]

(***************************************************************************)
(* What a read returns since the last seek is, sample for sample, the     *)
(* payload of consecutive blocks, each of them a block that a write      *)
(* reported as done stored under that block id.  store_reader_fill_block *)
(* must check the id,                                                     *)
(* the length and the range, reset buffer_offset, advance current_block  *)
(* and decode every entry of the new block; a stale buffer entry, a      *)
(* skipped or repeated block, or a block of another ring lap breaks it.   *)
(***************************************************************************)
DeliversStoredBlocks ==
    /\ \A i \in 1 .. Len(fills) : fills[i] \in written
    /\ \A i \in 1 .. Len(fills) - 1 : fills[i + 1][1] = (fills[i][1] + 1) % IdSpace
    /\ IsPrefix(delivered, FlattenSeq([i \in 1 .. Len(fills) |-> BlockSamples(fills[i][2])]))
=============================================================================
