------------------------------- MODULE Store -------------------------------
(***************************************************************************)
(* One store of the store engine (src/src/server/store/store.c): a ring   *)
(* of block_count slots, memory- or file-backed, with the append cursor   *)
(* write_offset.  A block is abstracted to its header id and a body (the  *)
(* rest of the record: type, length, payload); magic and checksum         *)
(* stamping are data and are not represented.                             *)
(*                                                                         *)
(* write_offset is a uint32_t in the code; here it is OffsetWidth bits    *)
(* wide, so that the wrap of the counter is reachable by TLC.             *)
(*                                                                         *)
(* Persistence (main.c; load_store_list_from_file and                     *)
(* save_store_list_to_file of store.c): the store's line in the           *)
(* configuration file records its write_offset as of the last save, at   *)
(* flush_stores or at exit.  A restart reloads the store from that line;  *)
(* a file store's slots survive in its file.                              *)
(***************************************************************************)
EXTENDS Integers

CONSTANTS
    BlockCount,   \* store->block_count, fixed at creation
    OffsetWidth,  \* bits of the uint32_t write_offset and block_id
    StoreType,    \* "memory" or "file" (store->store_type)
    Bodies,       \* block contents a client may send
    Empty,        \* body of a never-written memory slot (calloc'd zeros)
    Offsets,      \* explicit non-negative offsets a write request may carry
    MaxAppends,   \* bound on successful appends
    TornBodies    \* what a failed fwrite may leave after the new header

ASSUME BlockCount \in Nat \ {0}
ASSUME StoreType \in {"memory", "file"}
ASSUME Empty \notin Bodies
ASSUME StoreType = "memory" => TornBodies = {}

IdSpace == 2 ^ OffsetWidth

\* The request field `offset` is an int32_t: negative means append.
APPEND == -1

VARIABLES
    slots,         \* store->internal: the block_count records
    write_offset,  \* store->write_offset
    appends,       \* history: successful appends so far (not in the code)
    saved,         \* write_offset in the store's line of the config file
    filelen        \* whole slots the store's file holds (file stores)

vars == <<slots, write_offset, appends, saved, filelen>>

\* calloc'd memory slots read back as zero-filled blocks (id 0), and so do
\* the slots of a file below its end that no write reached (a hole).
ZeroBlock == [id |-> 0, body |-> Empty]

\* new_file_store(..., initialize) opens a created store with "w+": the
\* file is empty.
Init ==
    /\ slots = [k \in 0 .. BlockCount - 1 |-> ZeroBlock]
    /\ write_offset = 0
    /\ appends = 0
    /\ saved = 0   \* created, then saved by a flush_stores
    /\ filelen = 0

\* store_read_block: the slot at block_offset % block_count.  A memory
\* slot is always read; file_store_read_block's fread of a slot the file
\* does not hold whole fails (STORE_READ_ERROR).
Readable(offset) == StoreType = "memory" \/ offset % BlockCount < filelen

StoreReadBlock(offset) == slots[offset % BlockCount]

\* Where store_write_block writes: the cursor when appending, otherwise the
\* requested offset; the block id is stamped to this unreduced value.
WriteTarget(offset) == IF offset < 0 THEN write_offset ELSE offset

\* Variant of NextWriteOffset: the cursor also advances on a write at an
\* explicit offset.
NextWriteOffsetAlways(appending, ok) ==
    IF ok THEN (write_offset + 1) % IdSpace ELSE write_offset

\* The cursor after a write: incremented only for a successful append, and
\* never reduced modulo block_count (only the uint32_t width wraps it).
NextWriteOffset(appending, ok) ==
    IF ok /\ appending THEN (write_offset + 1) % IdSpace ELSE write_offset

MaxOf(a, b) == IF a > b THEN a ELSE b

\* A write can fail only for a file store (fseek or fwrite error).
Outcomes == IF StoreType = "file" THEN BOOLEAN ELSE {TRUE}

(***************************************************************************)
(* store_write_block(store, block, offset): stamp block_id, magic and     *)
(* checksum, write the slot offset % block_count, and advance the cursor  *)
(* after a successful append.  A failed fseek leaves the slot as it was;  *)
(* a failed fwrite may have written the new header (its id) and part of   *)
(* the payload, a body from TornBodies.                                   *)
(***************************************************************************)
StoreWriteBlock(b, offset, ok) ==
    LET target    == WriteTarget(offset)
        slot      == target % BlockCount
        appending == offset < 0
    IN  /\ appending => appends < MaxAppends
        /\ \/ /\ ok
              /\ slots' = [slots EXCEPT ![slot] = [id |-> target, body |-> b]]
              /\ filelen' = MaxOf(filelen, slot + 1)
           \/ /\ ~ok   \* fseek failed, or fwrite wrote nothing
              /\ UNCHANGED <<slots, filelen>>
           \/ /\ ~ok   \* fwrite stopped inside the slot: the file now
                        \* reaches into it, the slots before it are whole
              /\ \E t \in TornBodies :
                    slots' = [slots EXCEPT ![slot] = [id |-> target, body |-> t]]
              /\ filelen' = MaxOf(filelen, slot)
        /\ write_offset' = NextWriteOffset(appending, ok)
        /\ appends' = IF ok /\ appending THEN appends + 1 ELSE appends
        /\ UNCHANGED saved

Next ==
    \E b \in Bodies, ok \in Outcomes :
        \E offset \in Offsets \cup {APPEND} : StoreWriteBlock(b, offset, ok)

Spec == Init /\ [][Next]_vars

\* handle_flush_stores: save_store_list writes the store's current
\* write_offset to the configuration file.
Flush ==
    /\ saved' = write_offset
    /\ UNCHANGED <<slots, write_offset, appends, filelen>>

(***************************************************************************)
(* The server process ends and is started again.  how is "exit" (the     *)
(* request loop returns, the atexit hook save_store_list saves the list), *)
(* "crash" (no save) or "crash_in_save" (killed inside                    *)
(* save_store_list_to_file after fopen("w") emptied the file: the store  *)
(* is no longer listed, and the client creates it again, new_file_store   *)
(* with initialize, cursor 0).  load_store_list_from_file then sets       *)
(* write_offset from the file and opens a file store with "w+" (truncate) *)
(* when that value is 0, "r+" otherwise; a memory store is calloc'd.      *)
(***************************************************************************)
Restart(how) ==
    LET cursor == CASE how = "exit"  -> write_offset
                    [] how = "crash" -> saved
                    [] OTHER         -> 0
        fresh  == StoreType = "memory" \/ cursor = 0
    IN  /\ slots' = IF fresh THEN [k \in 0 .. BlockCount - 1 |-> ZeroBlock] ELSE slots
        /\ filelen' = IF fresh THEN 0 ELSE filelen
        /\ write_offset' = cursor
        /\ saved' = cursor
        /\ UNCHANGED appends

Exits == {"exit", "crash", "crash_in_save"}

\* Writes, flushes and restarts of the server.
PNext == Next \/ Flush \/ \E how \in Exits : Restart(how)

PSpec == Init /\ [][PNext]_vars

-----------------------------------------------------------------------------
TypeOK ==
    /\ slots \in [0 .. BlockCount - 1 ->
                    [id : 0 .. IdSpace - 1, body : Bodies \cup TornBodies \cup {Empty}]]
    /\ write_offset \in 0 .. IdSpace - 1
    /\ appends \in 0 .. MaxAppends
    /\ saved \in 0 .. IdSpace - 1
    /\ filelen \in 0 .. BlockCount

(***************************************************************************)
(* Refinement: the store implements the ring of RingStore, the append     *)
(* cursor being the number of successful appends.  This says that the     *)
(* k-th append (store_write_block with offset < 0) lands in slot          *)
(* k % block_count, i.e. always overwrites the oldest appended block.     *)
(* Under PSpec it also says that flushes and restarts keep the ring: a    *)
(* restarted store holds the blocks it held and appends where it left     *)
(* off.                                                                   *)
(***************************************************************************)
Ring == INSTANCE RingStore
            WITH ring <- slots, cursor <- appends, IdSpace <- IdSpace

RingRefinement == Ring!ASpec
=============================================================================
