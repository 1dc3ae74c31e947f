\* eyeq_close_stream waits for the delete_store tag, and the server answers a
\* successful close with the close_stream tag.  Neither handle_flush_stores
\* nor the read-error path of handle_read_blocks sends a response, while
\* the client waits for one.
CONSTANTS
    Calls <- MCCallsBroken
    Chunk = 2
    ReadErrors = TRUE
    MaxRequests = 2
    BlockIds = 4
    NotServed = NotServed
SPECIFICATION Spec
CHECK_DEADLOCK FALSE
PROPERTY ReturnsFaithful
