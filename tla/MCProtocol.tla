----------------------------- MODULE MCProtocol -----------------------------
EXTENDS Protocol

Call1(kind, n) == [kind |-> kind, n |-> n, off |-> 0]

\* Calls the server answers otherwise than the client expects: a close, a
\* flush, and block reads from a file store that may fail.
MCCallsBroken ==
    {Call1("close_stream", 0), Call1("flush_stores", 0), Call1("read_blocks", 2)}
=============================================================================
