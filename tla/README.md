# TLA+ models of eyeq

eyeq is a sample store and stream server. This directory holds TLA+ models
of its C implementation (`src/`) and the TLC configurations that check them.
`PROJECT.json` records:
- each component and its status;
- each run, with its expected result;
- each mutant that shows a property can fail;
- the source lines that every definition translates;
- the findings;
- the hazards of the code.

## The system

The server (`src/src/server`) is one thread. It runs a ZeroMQ ROUTER loop
(`eyeq_server`, server.c) and serves one request to completion before it
reads the next. Its state is two registries.

- **Store list** (`store.c`).
  - `(name, path)` maps to a `store_t`.
  - A store is a ring of `block_count` 16384-byte blocks, held in memory
    (`calloc`) or in a file.
  - A store has an append cursor `write_offset` (`uint32_t`) and a
    `ref_count`.
  - `store_write_block` stamps `block_id` with the target offset (the cursor
    for an append, `offset < 0`). It writes slot `offset % block_count`.
    After a successful append it increments the cursor, which is never
    reduced. It stamps the block with a CRC-32 (`eyeq_crc32`, crc32.c)
    that nothing reads back.
  - `remove_store` refuses while `ref_count > 0`.
  - The list is an SLIST: `add_store` inserts at the head. `list_stores`
    walks it from the head and returns at most 64 stores whose path equals
    the requested one (all stores for an empty path).
  - The list is loaded from a config file at start. It is saved on
    `flush_stores` and at exit.
- **Stream list** (`stream.c`).
  - `(name, path)` maps to a stream pipeline.
  - `handle_create_stream` builds a pipeline layer by layer:
    - a store reader, which must come first (it calls `store_use`);
    - a frequency translation: a complex multiply of the parent with a
      complex sine oscillator;
    - a FIR filter, real or complex, using overlap-save buffering.
  - It then seeks the pipeline to 0 and registers it.
  - `read_stream` pulls samples through the pipeline, top to bottom.
  - `seek_stream` repositions it.
  - `close_stream` frees it; the reader's cleanup calls `store_release`.
  - `list_streams` is `list_stores` over this list.

The client library (`src/src/client/client.c`) sends one request at a time
and matches responses by `req_id`, with a timeout. Some requests expect
several responses: `read_blocks` and `read_stream`. `eyeq_find_store`
looks a store up by searching a `list_stores` response.

The shell (`src/src/client/main.c`, `eyeq_slash.c`) connects one client
and runs one command at a time. Most commands make one `eyeq_*` call.
Three loop:
- `export_blocks` reads a block range in `eyeq_read_blocks` calls of at
  most 100 blocks, writing each block to a file from the callback;
- `import_samples` reads an input file in `fread`s of one block's worth of
  samples into a reused block buffer, converts them to the destination type
  and sends each block with `eyeq_write_block`;
- `import_blocks` does the same with whole 16384-byte blocks.

How the parts interact:
- store readers hold references on stores;
- writes to a store interleave with reads of a stream over it;
- each combinator reads its parent.

### Inventory: state, operations, what makes each part correct

| Part | State | Operations | Correct when |
|---|---|---|---|
| store engine | slots, `write_offset` | `store_write_block`, `store_read_block` | appends fill the ring in order and always overwrite the oldest; a failed write changes nothing |
| store list | map, `ref_count`, list order | `add/find/remove_store`, `store_use/release`, `iterate_store_list` | a count equals its readers; a store in use is never freed; a listing holds the newest matches up to the cap |
| CRC32 | none | `eyeq_crc32` | it is the IEEE CRC-32 |
| store reader | `current_block`, `buffer`, `buffer_offset/count`, `eos` | `fill_block`, `read`, `seek` | it returns the payload of consecutive blocks that the store held under those ids |
| FIR filter | `offset`, `data_offset`, `buffer`, `eos` | `fill`, `shift_and_read`, `fir_filter(_complex)`, `read`, `seek` | its output is the convolution of the parent's samples with the taps |
| multiplier / sine | phase, offsets, parents | `cc_mul`, `seek` | its output is the sample-wise product; a seek repositions both inputs |
| create_stream | the layer loop | `handle_create_stream` | every path either registers a well-formed pipeline or frees everything it built |
| persistence | config file | load at start, save at flush/exit | a restart restores the cursors and keeps the data |
| client protocol | `req_id`, expected responses | `eyeq_transaction` | every request gets the responses the client waits for, with the right tag |
| shell | the running command's locals | `export_blocks`, `import_samples`, `import_blocks`, the one-call commands | an export writes exactly the range asked for; an import sends exactly the file; every command returns |

## Modules

- **`RingStore`**: the abstract ring that the store promises.
  - The k-th append lands in slot `k % BlockCount` with id `k % IdSpace`.
  - An explicit write replaces one slot.
- **`Store`**: `store_write_block` / `store_read_block` on one store.
  - `write_offset` has `OffsetWidth` bits instead of 32, so its wrap is
    reachable.
  - A file store's write may fail. A failed `fseek` leaves the slot alone.
    A failed `fwrite` may have written the new header over part of the
    payload (a body from `TornBodies`).
  - `filelen` is the number of whole slots in a file store's file. A
    created store's file is empty (`"w+"`). A write extends the file, and
    the slots it skips read back as zeros. A torn write reaches only into
    its own slot. `Readable` is `file_store_read_block`'s `fread`, which
    fails (`STORE_READ_ERROR`) on a slot the file does not hold whole.
  - `appends` is a history variable.
  - Persistence: `saved` is the cursor in the store's line of the
    configuration file. `Flush` is `handle_flush_stores`. `Restart(how)` is
    the end of the process (`exit`: the atexit save runs; `crash`; or
    `crash_in_save`, inside `save_store_list_to_file` after `fopen("w")`),
    followed by `load_store_list_from_file`. The reload takes the saved
    cursor, truncates a file store (`"w+"`) when it is 0, and empties a
    memory store. `PSpec` adds these to the writes.
  - `RingRefinement` shows that `Store` implements `RingStore` under the
    mapping `ring <- slots, cursor <- appends`. Under `PSpec` it also says
    that a restart keeps the ring.
- **`Server`**: the request handlers over both registries.
  - Actions: create/delete store, create stream (the whole layer loop of
    `handle_create_stream`, as the RECURSIVE `BuildLayers`), close stream.
  - A stream is abstracted to its pipeline shape: the store its reader
    reads, plus the combinator layers.
  - The allocation sites in `AllocFailures` may return NULL.
  - Store objects are never reused, so a dangling reader stays visible.
  - `store_order` and `stream_order` are the two SLISTs. `Iterate` is the
    walk of `iterate_*_list` with the listing callback, which stops at
    `ListCap` entries (64 in the code). `ListStores`, `ListStreams` and
    `EyeqFindStore` (the client's lookup through a listing) are actions,
    with the history variables `listed` and `found`.
  - A create_stream for a key already in the stream list is refused by
    `find_stream` before anything is built (server.c:170).
  - `FrequencyFilterLayers` is the layer list that
    `eyeq_create_frequency_filter_stream` sends.
- **`Crc32`**: `eyeq_crc32` and the stamp `store_write_block` computes.
  - A `uint32_t` is a pair of 16-bit halves, because TLC's integers stop
    at `2^31 - 1`. `Xor32` and `Shr32` are `^` and `>>` on such pairs.
  - `EyeqCrc32` is the loop (a function over the iterations).
  - The reference is zlib's byte-wise CRC-32. Its table is derived bit by
    bit from the polynomial 0xEDB88320, and an `ASSUME` checks it against
    `zlib.crc32(b"abc")`.
  - `EYEQ_CRC_INITIAL` is not defined in the repository; the comment of
    crc32.c gives 0xffffffff, which is zlib's convention.
- **`StoreReader`** (extends `Store`): a store reader over a live store.
  - `store_reader_fill_block` / `store_reader_read` are operators.
    `FillRejects` holds every early return of the fill: out of range, a
    read error, a wrong id, a short block.
  - `ClearBuffer` zeroes only the first `ClearSize` entries, as
    `store_reader_clear_buffer` zeroes `BUFFER_SIZE` (4096) floats of the
    32768-float buffer.
  - Actions: `ReaderRead`, `ReaderSeek` and `WriteBlock`, in any order.
  - History variables:
    - `written`: every `<<id, body>>` the store held;
    - `fills`: the blocks decoded since the last seek;
    - `delivered`: the samples returned since the last seek.
- **`Multiplier`**: the frequency-translate layer that `handle_create_stream`
  builds. It is `cc_mul` over a store reader (parent1) and a complex sine
  (parent2), both drained by `read_samples_from_stream`.
  - A sample is named after its origin: reader float `k`, oscillator float
    `<<n, i>>`. A product float records both factors.
  - `Zero` is a float zeroed by `bzero`. `Undef` is a float of `cc_mul`'s
    stack array that this call has not written.
  - `MulPass` is one pass of the `cc_mul` loop and `MulLoop` the whole loop.
    `MulRead` is `handle_read_stream`'s call. `MulSeek` is
    `complex_multiply_stream_seek`.
- **`Fir`**: the FIR stream over one parent.
  - The parent is an array stream or a store reader. Only its sample
    sequence and `eos` are kept.
  - Fill, shift, filter and read are operators. Read and seek are actions.
  - The reference `Convolution` is computed directly from the input.
  - Samples and taps are small integers, so the float sums are exact.
- **`Protocol`**: one client's `eyeq_transaction` against the server's
  request loop.
  - The two sockets are FIFO queues.
  - `Call` stamps the request with `req_id` and sends it.
  - `Serve` runs one handler. The handler sends any response sequence its
    code can send; `ReadBlocksResponses` and `ReadStreamResponses` cover the
    multi-response handlers.
  - `Receive` is one pass of the client's receive loop: skip another
    `req_id`; error; wrong tag; no callback; callback stops; count reached.
  - `Timeout` fires whenever nothing has arrived, so late responses of
    abandoned calls are still queued when the next call starts.
  - `served` and `results` are history variables. `delivered` is the
    state of the call's response callback: the responses handed to it.
  - A `read_blocks` response carries its block id, `request->offset + i`
    as a `uint32` (`BlockOf`, with `BlockIds` standing for `2^32`).
- **`Slash`**: the shell composed with `Protocol` (it `EXTENDS Protocol`).
  - `cli` holds the running command and its locals; `sent` is a history of
    the blocks the running import has sent.
  - A command starts (`ExportBlocks`, `ImportStart`, `ListCommand`,
    `ReadStreamCommand`, `StartOneShot`) only while the shell is idle. It
    either returns `SLASH_EUSAGE`/`SLASH_EINVAL` before any call or makes
    its first call through `Protocol`'s `Call`.
  - Once `Protocol`'s client is idle again, `ExportStep`, `ImportStep` or
    `OneShotStep` reads the last call's result and makes the next call or
    returns. The client's `Receive`/`Timeout` and the server's `Serve` run
    between them unchanged.
  - `ExportStep` appends the ids of the blocks `read_block_cb` was handed
    to the file, then advances `offset` (mod `2^32`) and `count`.
  - `ImportLoop` is one pass of the import loop. `ImportRead` is `fread`'s
    result: up to a block's items for `import_samples`, one whole block or
    nothing for `import_blocks`, and nothing from stdout. The items read
    overwrite the start of `bl`, and the rest of `bl` is kept. `Stored`
    converts to the destination type as the x86-64 build does (low bits).
    `bl` starts as `Undef`: the buffer is an uninitialised local.
  - The scale is its default 1.0. An input file is its sequence of items,
    since the input type only fixes the item size. Command text, printing
    and the output file's I/O errors are left out.
- **MC modules** (`MCStore`, `MCServer`, `MCStoreReader`, `MCFirReader`,
  `MCMultiplier`, `MCProtocol`, `MCSlash`) define the model values and the tuples that
  the `.cfg` files cannot write.
  - `MCCrc32` is a driver: its state is a byte string of up to 3 bytes, and
    each step appends a byte (dropping the oldest when full).
  - `MCFir` instantiates `Fir` twice (`INSTANCE ... WITH`), a real and a
    complex filter, each with its own variables. Either one takes a step.

Fairness is stated only in `Slash`'s `SlashSpec`, as weak fairness of
three processes:
- the shell's next step once a call has returned (`ShellStep`): the
  command's code runs on;
- the client's poll (`ClientPoll`, that is `Receive \/ Timeout`):
  `zmq_poll` returns within `timeout_ms`, with a message or without, so one
  of the two is always enabled while a call waits;
- the server's loop (`Serve`): it takes the next queued request.

Nothing is assumed about when a timeout fires relative to the server, and
starting a command is not fair: the shell may stop taking commands.
`CommandsTerminate` (every started command returns) is checked under this
fairness. It fails if a command loop does not make progress, or if a call
could wait for ever.

The other modules have no liveness property. The server acts only on
requests. The progress hazard of the streams is a FIR that ends before its
input is used up, and that is stated as a safety condition in
`FirIsConvolution`: eos never comes before one output per input sample.

## Runs

| Run | Config | Expect | What it shows |
|---|---|---|---|
| store_ring | `MCStoreWrap.cfg` | violation | 3-slot file store, 3-bit cursor, with flushes and restarts. The ring breaks in three ways. A restart whose saved cursor is 0 truncates the file (shortest trace: one append, then a restart). A crash reloads a stale cursor. After the wrap, the 9th append overwrites slot 0, not the oldest block (slot 2). |
| server_refcount | `MCServer.cfg` | pass | One store key, three store objects, two stream keys under different paths, listings that hold 1 entry. All layer shapes that start with a reader. The oscillator and the stream list entry may fail to allocate, and a key may be created twice. Counts stay exact, no reader dangles, and every listing holds the newest entries of its path up to the cap (46,225 states). |
| server_build | `MCServerBuild.cfg` | violation | `ServerContract`: the building contract of spec.md 4.3 and a complete `eyeq_find_store`. The contract breaks in several ways, all reachable. A failed oscillator registers a multiplier without one (TLC's trace: a multiplier as the first layer whose oscillator fails). A multiplier or FIR allocation failure leaks the pipeline and its store reference. A non-leaf first layer is accepted and crashes at the seek. With two stores under one path and a listing of 1 entry, `eyeq_find_store` reports the older store as not found. |
| crc | `MCCrc32.cfg` | pass | Every string of up to 3 bytes over {0, 1, 15, 128, 255} (156 states): the stamped checksum is the IEEE CRC-32. |
| shell | `MCSlash.cfg` | pass | The shell over one client and the server. Commands: export_blocks of blocks 3, 0, 1 (ids wrap at 4) in chunks of 2, imports that fill their blocks, read_stream of 2 or 3 samples (2 per response), the list commands and create_store. At most three calls in all, timeouts at any moment (91,529 states). Every call returns what the server did with its request (`ReturnsFaithful`, an action property checked at the step that returns). An export that returns 0 wrote exactly its range in order (`ExportWritesRange`). Every command returns (`CommandsTerminate`, under the fairness above). |
| shell_import | `MCSlashImport.cfg` | violation | Imports of files that end inside a block or hold 300 for an int8 destination, read from a file or from `-`. Shortest trace: `-` imports nothing and returns 0. Also reachable: a short last block carries the previous block's tail, 300 is stored as 44, and `import_blocks` drops the trailing part-block and returns 0. |
| protocol_violations | `MCProtocolBroken.cfg` | violation | close_stream, flush_stores and block reads from a store that may fail. A successful close returns `EYEQ_INVALID_RESPONSE`. A flush, or a read that fails on a block, is never answered, and the call times out after the server is done. |
| reader | `MCStoreReader.cfg` | pass | 2-slot file store, 2-bit ids, reader range [0, 3). i16/f32 blocks of 1–2 samples, plus a short block. Appends and explicit writes at 3 lap the reader, and the fifth append wraps the cursor. Any write may fail cleanly. Reads of 1–2 samples, seeks 0/1. The reader delivers the stored blocks, and the store refines `RingStore`. |
| reader_violations | `MCStoreReaderBytes.cfg` | violation | A BYTES block returns stale or zero samples. A torn `fwrite` is delivered as a stored block once the file holds its slot whole: TLC's trace is a torn append into the empty file, then a torn write at offset 3, which extends the file past slot 0. |
| fir | `MCFir.cfg` | pass | Real: 3 taps, `BUFFER_SIZE` 5, 4 floats, reads of 1–3, seeks 0/1/3/4. Complex: 2 taps, `BUFFER_SIZE` 6, 3 I/Q samples, reads of 2/4/6 floats, seeks 0/2/4/6. The seeks reach the end of the array and never go past it. Any interleaving (14,625 states). Both are the convolution. |
| fir_violations | `MCFirReader.cfg` | violation | Complex FIR over a store reader. Reachable: a seek to block 1 sets eos at once and nothing is returned; a seek taken at eos (zeros); reads that end at the end of the reader on an odd count (a stale buffer tail, a split I/Q pair). Which of these TLC prints depends on its search order. |
| mul_violations | `MCMultiplier.cfg` | violation | Frequency translation over a 2-block reader, 2-float `cc_mul` buffer, reads of 1–3 floats, seeks 0/1. Shortest trace: a read of 1 float returns an unwritten 0. Also reachable: after a seek the oscillator is not at the signal's sample, and past the reader's end stale floats are returned. |

### Why the bounds are enough

- **`BUFFER_SIZE`** is 5–6 instead of 4096. With it, a shift happens after 2–3
  outputs, and every read count crosses the shift boundary at every offset.
  The overlap arithmetic does not depend on the buffer size.
- **A 2-float `cc_mul` buffer** makes a 3-float read take two passes, so
  the loop's `read / 2` offset and a short reader read mid-loop are both
  reached.
- **The cursor width** is 2–3 bits instead of 32. A wrap is then reached after 4
  or 8 appends, and it keeps the property that decides the wrap's effect: whether
  the block count divides `2^width`.
- **Two slots under a three-block reader range** make the writer lap the
  reader, so the id check is exercised.
- **Two stream keys and three store objects** give the sequences
  open–open–close, delete-while-open and delete–re-create.
- **A listing cap of 1 instead of 64** with two streams (or two stores)
  under the selected path reaches the cap with an entry left over. That is
  the case where the 64 in the code matters; the walk has no other
  dependence on the number.
- **Export chunks of 2 instead of 100**, with a count of 3, give a full
  and a partial chunk. Block ids that wrap at 4, with the export starting
  at block 3, make the second chunk cross the wrap.
- **Three calls in all** let a command time out with responses still queued
  and another command start after it: the case the `req_id` check decides.
- **Blocks of 2 (int16) and 4 (int8) items** keep the real ratio of
  `BLOCK_I16_SAMPLES` to `BLOCK_I8_SAMPLES`. A 3-item file then ends inside
  its second int16 block.
- **Three bytes over five values** feed every nibble through both table
  lookups and reach the high bit of the 32-bit register.

Each passing property has a mutant: a plausible one-line bug in a mapped
definition, listed in `PROJECT.json`. TLC finds each mutant violating its
property under the run's own configuration.

## Findings

1. The append cursor wraps at `2^32`, not at `block_count` (store.c:150).
   The spec's ring order breaks unless `block_count` divides `2^32`.
2. An allocation failure in the layer loop leaks the partial pipeline and its
   store reference (server.c:212, 222). The store can then never be deleted.
3. A combinator accepted as the first layer gets a NULL parent and crashes the
   server.
4. BYTES blocks are accepted but not decoded (stream.c:512).
5. A complex FIR read with an odd count shifts I/Q.
6. A FIR seek taken at eos skips the refill, so the following outputs are
   zeros (stream.c:362).
7. The FIR filters stale samples at the end of its parent (stream.c:263).
8. `eyeq_close_stream` waits for the wrong response tag (client.c:456).
9. `flush_stores` sends no response (server.c:165).
10. A `read_blocks` error sends no response (server.c:151).
11. A FIR seek near the end of its reader reports eos before it returns any
    output (stream.c:367).
12. The multiplier's seek leaves the oscillator where it was, so the
    output after a seek depends on earlier reads (stream.c:165).
13. An odd count makes the oscillator run a sample ahead of the signal, and
    the last float returned is never written (stream.c:90).
14. At the end of the reader, `cc_mul` returns floats left in its stack
    buffer (stream.c:28).
15. A restart truncates a file store whose saved cursor is 0, including
    after a wrap (store.c:286).
16. A crash reloads the cursor of the last save, and appends then overwrite
    newer blocks (main.c:59).
17. A torn `fwrite` is delivered by the reader, which checks neither magic
    nor CRC, as soon as the file holds the torn slot whole: the slot was
    written before, or a later write extends the file past it (store.c:119).
18. A failed oscillator allocation registers a multiplier with a NULL
    parent. The second pass of `handle_read_stream` dereferences it
    (server.c:211).
19. `eyeq_find_store` searches a listing capped at 64, newest first. A
    store with 64 newer stores under its path is reported as not found
    (client.c:283).
20. `import_blocks` and `import_samples` open stdout for the file name `-`.
    `fread` on it returns 0, and the command reports success having imported
    nothing (eyeq_slash.c:111, 408).
21. `import_samples` sends a whole block after every `fread`. A short last
    read sends the previous block's tail, or never-written stack memory
    when the file is shorter than one block (eyeq_slash.c:452).
22. `import_samples` stores out-of-range samples into int8/int16 without a
    check. This is undefined behaviour; the x86-64 build keeps the low bits,
    so 300 becomes 44 (eyeq_slash.c:445).
23. `import_blocks` drops the end of a file that is not a whole number of
    blocks, and returns success (eyeq_slash.c:126).

The protocol and shell runs have no deadlock check. The client may stop
making calls, and the model's client stops after `MaxRequests` calls. A
shell command starts only when the calls it makes if every call succeeds
fit in what is left of `MaxRequests`, so the bound never cuts a command
short.

## Not modelled

Every component in `PROJECT.json` is modelled except the transport. The
parts listed as partly modelled there, and what each leaves out:
- **`Protocol` is not composed with `Server`.** A handler's outcome is any
  response sequence its code can send, not the one the registries decide.
  The composition has not been built. Its question (does a call return
  what the registries say?) is answered in two halves instead:
  `RefCountExact` and `ServerContract` check the registries, and
  `ReturnsFaithful` checks that a call returns what the handler sent.
- **Persistence beyond one store.** The line format, a store whose file is
  missing on reload (it is dropped silently), and the order of the list,
  which each reload reverses (and with it which 64 stores a listing returns).
  `Store` models the save, crash and reload of one store.
- **`list_stores` by prefix.** spec.md says a path prefix, and the code
  compares the whole path. The model follows the code.
- **The array stream** is modelled as the FIR's parent. `array_stream_seek`
  stores any offset. Past the end of the array, the next `array_stream_read`
  passes `memcpy` a negative length, and the process dies. An `ASSUME` of
  `Fir` keeps the seeks modelled within the array, so the crash is not
  modelled.

Left out:
- protobuf encoding and the ZeroMQ transport, which `Protocol` abstracts to
  tags, `req_id`s and block ids;
- the shell's command text and argument vectors: `main` builds a one-shot
  command with `strncat` into a buffer it never terminates, and
  `import_blocks` reads `argv[2]` after checking only `argc < 2`. Both are
  string and array handling that the model, whose commands are chosen from
  sets, cannot express (they are listed as hazards without a property);
- sample scaling, float rounding and trigonometry, which are data.
