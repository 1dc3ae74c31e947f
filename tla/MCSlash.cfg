\* The shell over one client and the server: an export of three blocks
\* from block 3 in chunks of two (100 in the code) with block ids wrapping
\* at 4, imports that fill their blocks, read_stream of two and three
\* samples in chunks of two (4096), list commands and create_store.
\* Timeouts may expire whenever nothing has arrived.  The shell makes at
\* most three calls in all, then stays idle.
CONSTANTS
    Calls <- MCCalls
    Chunk = 2
    ReadErrors = FALSE
    MaxRequests = 3
    BlockIds = 4
    NotServed = NotServed
    ExportChunk = 2
    ExportArgs <- MCExportArgs
    ImportArgs <- MCImportsWhole
    BlockItems <- MCBlockItems
    StreamCounts = {2, 3}
    OneShots <- MCOneShots
    Undef = Undef
SPECIFICATION SlashSpec
CHECK_DEADLOCK FALSE
INVARIANT ExportWritesRange
PROPERTY ReturnsFaithful
PROPERTY CommandsTerminate
