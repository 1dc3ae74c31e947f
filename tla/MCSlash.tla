------------------------------- MODULE MCSlash -------------------------------
EXTENDS Slash

\* block_item_count per destination type: BLOCK_I8_SAMPLES is twice
\* BLOCK_I16_SAMPLES, which is twice BLOCK_F32_SAMPLES; import_blocks moves
\* whole blocks, here two units long.
MCBlockItems == [float |-> 1, int16 |-> 2, int8 |-> 4, bytes |-> 2]

MCCalls == {[kind |-> "create_store", n |-> 0, off |-> 0]}

\* create_store, seek_stream and the other one-call commands answer alike.
MCOneShots == {[kind |-> "create_store", n |-> 0, off |-> 0]}

\* An export of three blocks from block 3: two calls, and the block ids wrap.
MCExportArgs == {[offset |-> 3, count |-> 3]}

\* Imports whose files fill their blocks.
MCImportsWhole ==
    {[cmd |-> "import_samples", input |-> <<1, 2>>, out |-> "int16"],
     [cmd |-> "import_blocks", input |-> <<1, 2>>, out |-> "bytes"]}

\* Imports whose files end inside a block, or hold a sample the
\* destination type cannot hold.
MCImportsRagged ==
    {[cmd |-> "import_samples", input |-> <<1, 2, 3>>, out |-> "int16"],
     [cmd |-> "import_samples", input |-> <<300, 1, 2, 3>>, out |-> "int8"],
     [cmd |-> "import_blocks", input |-> <<1, 2, 3>>, out |-> "bytes"]}
=============================================================================
