------------------------------ MODULE Protocol ------------------------------
(***************************************************************************)
(* The request/response protocol between one client of                    *)
(* src/src/client/client.c (eyeq_transaction and the eyeq_* calls built   *)
(* on it) and the request loop of src/src/server/server.c.               *)
(*                                                                         *)
(* The client's DEALER socket and the server's ROUTER socket deliver in   *)
(* order and do not lose messages, so both directions are FIFO queues.    *)
(* The client makes one call at a time; each call numbers its request     *)
(* with client->req_id and then receives until it returns.  The server    *)
(* runs one handler at a time to completion, copying the request's        *)
(* req_id into every response it sends (send_response).  zmq_poll's       *)
(* timeout may expire whenever nothing has arrived, however slow the      *)
(* server is, so late responses of an abandoned call are still queued     *)
(* when the next call starts.                                             *)
(*                                                                         *)
(* The registries are abstracted: a handler's outcome is any of the       *)
(* response sequences its code can send.  A message is its req_id, its   *)
(* which_resp tag ("none" for an error response) and its eos flag.        *)
(***************************************************************************)
EXTENDS Integers, Sequences

CONSTANTS
    Calls,        \* the eyeq_* calls the client may make: [kind, n]
    Chunk,        \* samples per read_stream response (4096 in the code)
    ReadErrors,   \* TRUE when store_read_block may fail (file stores)
    MaxRequests,  \* bound on the calls the client makes
    BlockIds,     \* block ids are uint32: they wrap at 2^32
    NotServed     \* model value: a request the server has not handled yet

Rids == 0 .. MaxRequests - 1

\* A call that has not returned yet.
Pending == "pending"

VARIABLES
    client,     \* [phase, rid, call, remaining] of eyeq_transaction
    next_rid,   \* client->req_id
    toServer,   \* requests sent, not yet received by the server
    toClient,   \* responses sent, not yet received by the client
    delivered,  \* the responses handed to the call's response_callback
    served,     \* history: the responses the server sent for each req_id
    results     \* history: what each call returned

vars == <<client, next_rid, toServer, toClient, delivered, served, results>>

(***************************************************************************)
(* The client side.                                                        *)
(***************************************************************************)

\* The which_resp tag a call waits for (the expected_response_tag argument).
\* eyeq_close_stream passes eyeq_ServerResponse_delete_store_response_tag.
ExpectedTag(call) ==
    IF call.kind = "close_stream" THEN "delete_store" ELSE call.kind

\* Variant of ExpectedResponses: read_stream rounds (count + 4096) / 4096.
ExpectedResponsesRoundUp(call) ==
    CASE call.kind = "read_blocks" -> call.n
      [] call.kind = "read_stream" -> (call.n + Chunk) \div Chunk
      [] OTHER                     -> 1

\* The expected_responses argument: count for eyeq_read_blocks,
\* (count + 4095) / 4096 for eyeq_read_stream, 1 otherwise.
ExpectedResponses(call) ==
    CASE call.kind = "read_blocks" -> call.n
      [] call.kind = "read_stream" -> (call.n + Chunk - 1) \div Chunk
      [] OTHER                     -> 1

\* Only read_blocks and read_stream pass a response_callback.
HasCallback(call) == call.kind \in {"read_blocks", "read_stream"}

\* read_stream_callback stops at eos; the read_blocks callback is the
\* caller's and is taken to accept every block.
CallbackContinues(call, m) == call.kind = "read_blocks" \/ ~m.eos

\* Variant of IsCurrent: responses are not matched by req_id.
IsCurrentAny(m) == TRUE

\* `response->req_id != request->req_id` skips responses of earlier calls.
IsCurrent(m) == m.rid = client.rid

Return(res) ==
    /\ client' = [client EXCEPT !.phase = "idle"]
    /\ results' = [results EXCEPT ![client.rid] = res]

\* An eyeq_* call: stamp and increment req_id, send the request.
Call(c) ==
    /\ client.phase = "idle"
    /\ next_rid < MaxRequests
    /\ client' = [phase |-> "waiting", rid |-> next_rid, call |-> c,
                  remaining |-> ExpectedResponses(c)]
    /\ next_rid' = next_rid + 1
    /\ toServer' = Append(toServer, [rid |-> next_rid, call |-> c])
    /\ results' = [results EXCEPT ![next_rid] = Pending]
    /\ delivered' = <<>>
    /\ UNCHANGED <<toClient, served>>

(***************************************************************************)
(* One pass of the receive loop of eyeq_transaction on a response that    *)
(* has arrived.                                                            *)
(***************************************************************************)
Receive ==
    LET m    == Head(toClient)
        call == client.call
    IN  /\ client.phase = "waiting"
        /\ toClient /= <<>>
        /\ toClient' = Tail(toClient)
        /\ CASE ~IsCurrent(m) ->
                  UNCHANGED <<client, results>>
             [] m.tag = "none" -> Return("error")
             [] m.tag /= ExpectedTag(call) -> Return("invalid_response")
             [] ~HasCallback(call) -> Return("ok")
             [] ~CallbackContinues(call, m) -> Return("aborted")
             [] client.remaining - 1 <= 0 -> Return("ok")
             [] OTHER ->
                  /\ client' = [client EXCEPT !.remaining = @ - 1]
                  /\ UNCHANGED results
        /\ delivered' = IF IsCurrent(m) /\ m.tag = ExpectedTag(call) /\ HasCallback(call)
                            THEN Append(delivered, m) ELSE delivered
        /\ UNCHANGED <<next_rid, toServer, served>>

\* zmq_poll returns 0: nothing arrived within timeout_ms.
Timeout ==
    /\ client.phase = "waiting"
    /\ toClient = <<>>
    /\ Return("timeout")
    /\ UNCHANGED <<next_rid, toServer, toClient, delivered, served>>

(***************************************************************************)
(* The server side: the response sequences each handler can send.         *)
(***************************************************************************)
Ok(call) == [tag |-> call.kind, eos |-> FALSE]
Err == [tag |-> "none", eos |-> FALSE]

\* handle_read_blocks: an error response when the store is missing or the
\* count is 0; otherwise one response per block, stopping silently at the
\* first block store_read_block fails on.
ReadBlocksResponses(call) ==
    {<<Err>>} \cup
    {[i \in 1 .. k |-> Ok(call)] :
        k \in IF call.n = 0 THEN {} ELSE IF ReadErrors THEN 0 .. call.n ELSE {call.n}}

\* handle_read_stream: an error response when the stream is missing;
\* otherwise one response per chunk of up to Chunk samples until
\* sample_count are sent, the last one flagged eos if the stream ends.
ReadStreamResponses(call) ==
    LET chunks == (call.n + Chunk - 1) \div Chunk
    IN  {<<Err>>} \cup
        {[i \in 1 .. chunks |-> Ok(call)]} \cup
        {[i \in 1 .. j |-> [Ok(call) EXCEPT !.eos = (i = j)]] : j \in 1 .. chunks}

\* handle_flush_stores saves the store list and sends nothing.
\* handle_list_stores and handle_list_streams always answer.
\* The other handlers send one response, the error response on failure.
Responses(call) ==
    CASE call.kind = "read_blocks"  -> ReadBlocksResponses(call)
      [] call.kind = "read_stream"  -> ReadStreamResponses(call)
      [] call.kind = "flush_stores" -> {<<>>}
      [] call.kind \in {"list_stores", "list_streams"} -> {<<Ok(call)>>}
      [] OTHER -> {<<Ok(call)>>, <<Err>>}

\* The block a response of handle_read_blocks carries: request->offset+i,
\* a uint32.
BlockOf(call, i) == IF call.kind = "read_blocks" THEN (call.off + i - 1) % BlockIds ELSE 0

\* eyeq_server: receive a request, run its handler, which sends its
\* responses stamped with the request's req_id.
Serve ==
    LET req == Head(toServer)
    IN  /\ toServer /= <<>>
        /\ \E rs \in Responses(req.call) :
              /\ toServer' = Tail(toServer)
              /\ toClient' = toClient \o [i \in DOMAIN rs |->
                                        [rid |-> req.rid, tag |-> rs[i].tag, eos |-> rs[i].eos,
                                         blk |-> BlockOf(req.call, i)]]
              /\ served' = [served EXCEPT ![req.rid] = rs]
        /\ UNCHANGED <<client, next_rid, delivered, results>>

Init ==
    /\ client = [phase |-> "idle", rid |-> 0, call |-> CHOOSE c \in Calls : TRUE,
                 remaining |-> 0]
    /\ next_rid = 0
    /\ toServer = <<>>
    /\ toClient = <<>>
    /\ delivered = <<>>
    /\ served = [r \in Rids |-> NotServed]
    /\ results = [r \in Rids |-> NotServed]

Next ==
    \/ \E c \in Calls : Call(c)
    \/ Receive
    \/ Timeout
    \/ Serve

Spec == Init /\ [][Next]_vars

-----------------------------------------------------------------------------
IsError(rs) == \E i \in DOMAIN rs : rs[i].tag = "none"
HasEos(rs)  == \E i \in DOMAIN rs : rs[i].eos

\* What a call returns against the responses the server sent for it.
Faithful(res, rs) ==
    /\ res = "ok" => rs /= NotServed /\ ~IsError(rs) /\ ~HasEos(rs)
    /\ res = "error" => rs /= NotServed /\ IsError(rs)
    /\ res = "aborted" => rs /= NotServed /\ HasEos(rs)
    /\ res = "timeout" => rs = NotServed
    /\ res /= "invalid_response"

(***************************************************************************)
(* Every step that returns a call returns what the server did with that   *)
(* request: EYEQ_OK only when the server carried it out (no error         *)
(* response, no eos), EYEQ_ERROR only when it answered with an error,     *)
(* EYEQ_REQUEST_ABORTED only at the end of a stream, never                *)
(* EYEQ_INVALID_RESPONSE, and EYEQ_NETWORK_TIMEOUT only while the server  *)
(* has not yet handled the request.  It fails if eyeq_transaction takes a *)
(* late response of an abandoned call as its own, waits for a tag the     *)
(* handler never sends, or waits for more responses than the handler      *)
(* sends, so that the call times out after the server has answered all it *)
(* ever will.                                                             *)
(***************************************************************************)
ReturnsFaithful ==
    [][\A r \in Rids :
          results[r] = Pending /\ results'[r] /= Pending
              => Faithful(results'[r], served[r])]_vars
=============================================================================
