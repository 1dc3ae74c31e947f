\* import_samples and import_blocks over files that end inside a block or
\* hold a sample the destination type cannot hold, read from a file or
\* from "-".  Four ways the store receives other than the file:
\*  - "-" opens stdout, fread on it returns 0, and the command returns 0
\*    having imported nothing;
\*  - a short last fread of import_samples leaves the tail of bl from the
\*    previous block, and the whole block is sent;
\*  - 300 stored into an int8_t sample becomes 44;
\*  - import_blocks drops the part-block at the end of the file and
\*    returns 0.
CONSTANTS
    Calls <- MCCalls
    Chunk = 2
    ReadErrors = FALSE
    MaxRequests = 2
    BlockIds = 4
    NotServed = NotServed
    ExportChunk = 2
    ExportArgs = {}
    ImportArgs <- MCImportsRagged
    BlockItems <- MCBlockItems
    StreamCounts = {}
    OneShots = {}
    Undef = Undef
SPECIFICATION SlashSpec
CHECK_DEADLOCK FALSE
INVARIANT ImportFaithful
