------------------------------- MODULE Slash -------------------------------
(***************************************************************************)
(* The eyeq command shell (src/src/client/main.c and the commands of      *)
(* src/src/client/eyeq_slash.c) composed with the client library and the *)
(* server of Protocol.  The shell runs one command at a time; a command   *)
(* makes its eyeq_* calls one after another, each a whole transaction of  *)
(* Protocol, and decides on the next call from the result of the last.    *)
(*                                                                         *)
(*  - export_blocks reads [offset, offset+count) in eyeq_read_blocks      *)
(*    calls of at most ExportChunk blocks; read_block_cb writes every     *)
(*    block handed to it to the output file;                              *)
(*  - import_samples reads the input file in fread calls of              *)
(*    block_item_count samples into the block buffer bl, and sends bl     *)
(*    with eyeq_write_block; import_blocks does the same with whole       *)
(*    blocks (one fread of BLOCK_LENGTH bytes);                          *)
(*  - the other commands make a single call.                              *)
(*                                                                         *)
(* Sample values are small integers, the scale is 1.0 (its default), and  *)
(* the input type only fixes the item size fread uses, so an input file   *)
(* is the sequence of its items.  Command text, printing and file I/O    *)
(* other than the data are left out.                                     *)
(***************************************************************************)
EXTENDS Protocol
LOCAL INSTANCE SequencesExt

CONSTANTS
    ExportChunk,   \* blocks per eyeq_read_blocks call of export_blocks (100)
    ExportArgs,    \* the <offset> <count> arguments of export_blocks
    ImportArgs,    \* [cmd, input, out] of import_samples / import_blocks
    BlockItems,    \* items a block holds, per destination type
    StreamCounts,  \* <sample_count> arguments of read_stream
    OneShots,      \* the calls of the other single-call commands
    Undef          \* model value: a sample of bl never written

VARIABLES
    cli,    \* the running command and its locals
    sent    \* history: the sample blocks the running import has sent

svars == <<cli, sent>>
allvars == <<vars, cli, sent>>

Imports == {"import_samples", "import_blocks"}

\* The locals of a command that has just started.
Begin(cmd) ==
    [cmd |-> cmd, phase |-> "running", made |-> FALSE, ret |-> "ok",
     start |-> 0, total |-> 0, offset |-> 0, count |-> 0, tt |-> 0,
     file |-> <<>>, input |-> <<>>, src |-> "file", pos |-> 0, out |-> "bytes",
     bl |-> <<>>]

\* Calls a command makes when every one succeeds: the commands only start
\* while the client's request budget (MaxRequests) can carry all of them.
CallsOf(c) ==
    CASE c.cmd = "export"         -> (c.count + ExportChunk - 1) \div ExportChunk
      [] c.cmd = "import_samples" -> (Len(c.input) + BlockItems[c.out] - 1) \div BlockItems[c.out]
      [] c.cmd = "import_blocks"  -> Len(c.input) \div BlockItems[c.out]
      [] OTHER                    -> 1

CanStart(c) == cli.phase = "idle" /\ next_rid + CallsOf(c) <= MaxRequests

\* The command returns res to the shell.
Finish(c, res) == cli' = [c EXCEPT !.phase = "idle", !.ret = res]

\* What the command's last call returned.
Outcome == results[client.rid]

(***************************************************************************)
(* main: connect with the -t timeout, hand the client to the commands.    *)
(***************************************************************************)
SlashInit ==
    /\ Init
    /\ cli = [Begin("none") EXCEPT !.phase = "idle"]
    /\ sent = <<>>

(***************************************************************************)
(* export_blocks.                                                         *)
(***************************************************************************)
ReadBlocksCall(c) == [kind |-> "read_blocks", n |-> c.tt, off |-> c.offset]

\* to_transfer = count > 100 ? 100 : count
ToTransfer(count) == IF count > ExportChunk THEN ExportChunk ELSE count

\* One pass of the while loop: a call for the next to_transfer blocks, or
\* the end of the command when count is 0.
ExportLoop(c) ==
    IF c.count > 0
    THEN LET n == [c EXCEPT !.tt = ToTransfer(c.count), !.made = TRUE]
         IN  /\ Call(ReadBlocksCall(n))
             /\ cli' = n
    ELSE /\ Finish(c, "ok")
         /\ UNCHANGED vars

ExportBlocks(a) ==
    LET c == [Begin("export") EXCEPT !.start = a.offset, !.total = a.count,
                                     !.offset = a.offset, !.count = a.count]
    IN  /\ CanStart(c)
        /\ \/ Finish(c, "usage") /\ UNCHANGED vars      \* argc, fopen
           \/ ExportLoop(c)
        /\ UNCHANGED sent

\* Variant of ExportAdvance: the offset is not moved past the blocks read.
ExportAdvanceStay(c) == [c EXCEPT !.count = @ - c.tt]

\* Variant of ExportAdvance: count is not decremented.
ExportAdvanceNoCount(c) == [c EXCEPT !.offset = (@ + c.tt) % BlockIds]

\* offset += to_transfer (a uint32); count -= to_transfer.
ExportAdvance(c) == [c EXCEPT !.offset = (@ + c.tt) % BlockIds, !.count = @ - c.tt]

\* eyeq_read_blocks returned: the blocks read_block_cb was handed are in
\* the file; stop at an error, otherwise loop.
ExportStep ==
    LET c == [cli EXCEPT !.file = @ \o [i \in DOMAIN delivered |-> delivered[i].blk]]
    IN  /\ cli.cmd = "export" /\ cli.phase = "running" /\ cli.made
        /\ client.phase = "idle"
        /\ IF Outcome /= "ok"
           THEN Finish(c, Outcome) /\ UNCHANGED vars
           ELSE ExportLoop(ExportAdvance(c))
        /\ UNCHANGED sent

(***************************************************************************)
(* import_samples and import_blocks.                                      *)
(***************************************************************************)
WriteBlockCall == [kind |-> "write_block", n |-> 0, off |-> 0]

\* A double stored into an int8_t or int16_t sample: out of range this is
\* undefined; the x86-64 build truncates to int32 and keeps the low bits.
Wrap(v, bits) == ((v + 2^(bits - 1)) % 2^bits) - 2^(bits - 1)

Stored(v, out) ==
    CASE out = "int8"  -> Wrap(v, 8)
      [] out = "int16" -> Wrap(v, 16)
      [] OTHER         -> v

\* fread's result: import_samples reads up to block_item_count items,
\* import_blocks one whole block or nothing.  "-" names stdout, which
\* cannot be read.
ImportRead(c) ==
    LET rem == Len(c.input) - c.pos
        n   == BlockItems[c.out]
    IN  CASE c.src = "stdout"          -> 0
          [] c.cmd = "import_samples" -> IF rem < n THEN rem ELSE n
          [] OTHER                    -> IF rem >= n THEN n ELSE 0

\* One pass of the while loop: the items read overwrite the start of bl,
\* the rest of bl keeps what it held, and the whole block is sent
\* (block_length is BLOCK_HEADER_LENGTH + block_item_count * item size).
ImportLoop(c, s) ==
    LET r  == ImportRead(c)
        bl == [i \in DOMAIN c.bl |->
                 IF i <= r THEN Stored(c.input[c.pos + i], c.out) ELSE c.bl[i]]
    IN  IF r > 0
        THEN /\ cli' = [c EXCEPT !.pos = @ + r, !.bl = bl, !.made = TRUE]
             /\ Call(WriteBlockCall)
             /\ sent' = Append(s, bl)
        ELSE /\ Finish(c, "ok")
             /\ sent' = s
             /\ UNCHANGED vars

\* bl is a local of the command that nothing initialises.
ImportStart(a) ==
    LET c == [Begin(a.cmd) EXCEPT !.input = a.input, !.out = a.out,
                                  !.bl = [i \in 1 .. BlockItems[a.out] |-> Undef]]
    IN  /\ CanStart(c)
        /\ \/ Finish(c, "usage") /\ sent' = <<>> /\ UNCHANGED vars   \* argc, type, fopen
           \/ \E src \in {"file", "stdout"} : ImportLoop([c EXCEPT !.src = src], <<>>)

\* eyeq_write_block returned: stop at an error, otherwise read on.
ImportStep ==
    /\ cli.cmd \in Imports /\ cli.phase = "running" /\ cli.made
    /\ client.phase = "idle"
    /\ IF Outcome /= "ok"
       THEN Finish(cli, Outcome) /\ UNCHANGED <<vars, sent>>
       ELSE ImportLoop(cli, sent)

(***************************************************************************)
(* The single-call commands.                                              *)
(***************************************************************************)

\* seek_stream, create_store, create_stream, delete_store, close_stream:
\* too few arguments is SLASH_EUSAGE before any call.
StartOneShot(c) ==
    LET s == Begin("oneshot")
    IN  /\ CanStart(s)
        /\ \/ Finish(s, "usage") /\ UNCHANGED vars
           \/ Call(c) /\ cli' = [s EXCEPT !.made = TRUE]
        /\ UNCHANGED sent

\* read_stream: usage, a failed calloc or fopen return before the call.
ReadStreamCommand(n) == StartOneShot([kind |-> "read_stream", n |-> n, off |-> 0])

\* list_stores and list_streams take an optional path and always call.
ListCommand(kind) ==
    LET s == Begin("oneshot")
    IN  /\ CanStart(s)
        /\ Call([kind |-> kind, n |-> 0, off |-> 0])
        /\ cli' = [s EXCEPT !.made = TRUE]
        /\ UNCHANGED sent

OneShotStep ==
    /\ cli.cmd = "oneshot" /\ cli.phase = "running" /\ cli.made
    /\ client.phase = "idle"
    /\ Finish(cli, Outcome)
    /\ UNCHANGED <<vars, sent>>

(***************************************************************************)
(* The composition.  The shell, the client's zmq_poll (which returns       *)
(* within timeout_ms, with a message or without) and the server's request  *)
(* loop each keep running, so each is weakly fair.                         *)
(***************************************************************************)
ShellStart ==
    \/ \E a \in ExportArgs : ExportBlocks(a)
    \/ \E a \in ImportArgs : ImportStart(a)
    \/ \E k \in {"list_stores", "list_streams"} : ListCommand(k)
    \/ \E n \in StreamCounts : ReadStreamCommand(n)
    \/ \E c \in OneShots : StartOneShot(c)

ShellStep == ExportStep \/ ImportStep \/ OneShotStep

ClientPoll == (Receive \/ Timeout) /\ UNCHANGED svars

Server == Serve /\ UNCHANGED svars

SlashNext == ShellStart \/ ShellStep \/ ClientPoll \/ Server

SlashSpec ==
    /\ SlashInit /\ [][SlashNext]_allvars
    /\ WF_allvars(ShellStep) /\ WF_allvars(ClientPoll) /\ WF_allvars(Server)

-----------------------------------------------------------------------------
(***************************************************************************)
(* When export_blocks returns 0, its file holds the blocks offset,        *)
(* offset+1, ..., offset+count-1 (block ids wrap as uint32), each once    *)
(* and in order.  It takes the chunking of the while loop, the advance of *)
(* offset and count after each eyeq_read_blocks call, and the req_id     *)
(* check that keeps late blocks of an earlier, timed-out command out of   *)
(* the file.                                                              *)
(***************************************************************************)
ExportWritesRange ==
    cli.cmd = "export" /\ cli.phase = "idle" /\ cli.ret = "ok"
        => cli.file = [i \in 1 .. cli.total |-> (cli.start + i - 1) % BlockIds]

(***************************************************************************)
(* The blocks an import sends carry the input file's samples, in order    *)
(* and nothing else, and when the command returns 0 they carry all of     *)
(* them.                                                                   *)
(***************************************************************************)
ImportFaithful ==
    cli.cmd \in Imports =>
        /\ IsPrefix(FlattenSeq(sent), cli.input)
        /\ cli.phase = "idle" /\ cli.ret = "ok" => FlattenSeq(sent) = cli.input

(***************************************************************************)
(* Every command the shell starts returns: each transaction returns       *)
(* (zmq_poll's timeout), and the loops of export_blocks and the imports   *)
(* make finitely many calls.                                              *)
(***************************************************************************)
CommandsTerminate == cli.phase = "running" ~> cli.phase = "idle"
=============================================================================
