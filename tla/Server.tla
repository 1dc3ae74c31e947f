------------------------------- MODULE Server -------------------------------
(***************************************************************************)
(* The request handlers of src/src/server/server.c over the two           *)
(* registries (store list of store.c, stream list of stream.c) and the    *)
(* store reference counts taken by store-reader streams.                  *)
(*                                                                         *)
(* A store object is an id from StoreIds; ids are never reused, so a      *)
(* stream that still points at a freed store is visible.  A stream is     *)
(* abstracted to its pipeline shape: the store its bottom store-reader    *)
(* reads (NoStore when the bottom layer is not a store reader) and the    *)
(* sequence of combinator layers above it.  Sample data is not modelled.  *)
(***************************************************************************)
EXTENDS Integers, Sequences, FiniteSets

CONSTANTS
    StoreKeys,      \* (name, path) pairs of the store list
    StreamKeys,     \* (name, path) pairs of the stream list
    StoreIds,       \* store objects the server may allocate
    LayerRequests,  \* layer sequences a create_stream request may carry
    AllocFailures,  \* allocation sites that may return NULL
    KeyPath(_),     \* the path of a store or stream key
    ListPaths,      \* paths a list_stores / list_streams request may carry
    ListCap,        \* entries a listing response holds (64 in the code)
    NoStore, NoStream, None

ASSUME NoStore \notin StoreIds
ASSUME ListCap \in Nat \ {0}

(* The layer kinds of a create_stream request (eyeq_StreamLayer tags). *)
Reader(key) == [kind |-> "store_reader", store |-> key]
Freq        == [kind |-> "frequency_translate"]
Fir         == [kind |-> "fir_filter"]
Todo        == [kind |-> "const_multiply"]   \* also abs_stream, log_stream
Unknown     == [kind |-> "unknown"]

(***************************************************************************)
(* eyeq_create_frequency_filter_stream: a store reader, a frequency       *)
(* translation if relative_frequency is not 0, a complex FIR if ntaps > 0. *)
(***************************************************************************)
FrequencyFilterLayers(key, translate, filter) ==
    <<Reader(key)>> \o (IF translate THEN <<Freq>> ELSE <<>>)
                    \o (IF filter THEN <<Fir>> ELSE <<>>)

(* Allocation sites: new_store_reader_stream, new_complex_sine_stream,   *)
(* new_complex_multiply_stream, new_fir_stream and the stream list entry  *)
(* of add_stream.                                                          *)
AllocSites == {"reader", "sine", "mul", "fir", "entry"}
ASSUME AllocFailures \subseteq AllocSites

VARIABLES
    stores,     \* store list: key -> store object or NoStore
    allocated,  \* store objects ever allocated
    ref_count,  \* store->ref_count of every store object
    streams,    \* stream list: key -> pipeline or NoStream
    crashed,    \* the server dereferenced a NULL parent stream
    store_order,   \* the keys of the store list (an SLIST), head first
    stream_order,  \* the keys of the stream list, head first
    listed,     \* history: the last listing response and the list it walked
    found       \* history: the last eyeq_find_store and whether it existed

vars == <<stores, allocated, ref_count, streams, crashed,
          store_order, stream_order, listed, found>>
regs == <<stores, allocated, ref_count, streams, crashed, store_order, stream_order>>

\* "mul0": a multiplier whose oscillator (parent2) is NULL.
Pipeline == [base : StoreIds \cup {NoStore}, layers : Seq({"mul", "mul0", "fir"})]

\* No stream at all: the C variable `stream` is NULL.
NULL == NoStream

\* add_store / add_stream: SLIST_INSERT_HEAD.
AddEntry(order, key) == <<key>> \o order

\* remove_store / remove_stream: SLIST_REMOVE of the key's entry.
RemoveEntry(order, key) == SelectSeq(order, LAMBDA k : k /= key)

Live == {stores[k] : k \in {k2 \in StoreKeys : stores[k2] /= NoStore}}

Init ==
    /\ stores = [k \in StoreKeys |-> NoStore]
    /\ allocated = {}
    /\ ref_count = [s \in StoreIds |-> 0]
    /\ streams = [k \in StreamKeys |-> NoStream]
    /\ crashed = FALSE
    /\ store_order = <<>>
    /\ stream_order = <<>>
    /\ listed = None
    /\ found = None

\* store_release: decrement, never below zero.
StoreRelease(rc, s) ==
    IF s = NoStore THEN rc ELSE [rc EXCEPT ![s] = IF @ > 0 THEN @ - 1 ELSE 0]

\* store_use.
StoreUse(rc, s) == [rc EXCEPT ![s] = @ + 1]

\* Variants of FreeStream: store_reader_cleanup without store_release; a
\* combinator cleanup (fir_stream_cleanup, complex_multiply_stream_cleanup)
\* that does not free its parent.
FreeStreamNoRelease(rc, p) == rc
FreeStreamNoParentFree(rc, p) ==
    IF p = NULL \/ p.layers /= <<>> THEN rc ELSE StoreRelease(rc, p.base)

\* free_stream: the cleanup callbacks free the parents recursively, and the
\* store reader at the bottom releases its store.
FreeStream(rc, p) == IF p = NULL THEN rc ELSE StoreRelease(rc, p.base)

(***************************************************************************)
(* One iteration of the layer loop of handle_create_stream.  st is the    *)
(* loop state [cur, rc, status]: cur the stream built so far (NULL        *)
(* initially), rc the reference counts, status "building", "ok" or an     *)
(* early "error" return.  fail is the allocation site of this layer that *)
(* returns NULL, or "none".                                               *)
(***************************************************************************)
AddLayer(st, layer, fail) ==
    LET cur == st.cur IN
    CASE layer.kind = "store_reader" ->
            IF cur /= NULL
              THEN [st EXCEPT !.rc = FreeStream(@, cur), !.status = "error"]
            ELSE IF stores[layer.store] = NoStore
              THEN [st EXCEPT !.status = "error"]
            ELSE IF fail = "reader"
              THEN st
            ELSE [st EXCEPT !.cur = [base |-> stores[layer.store], layers |-> <<>>],
                            !.rc = StoreUse(@, stores[layer.store])]
      [] layer.kind = "frequency_translate" ->
            \* sine = new_complex_sine_stream(...), not checked for NULL;
            \* new_complex_multiply_stream(stream, sine), NULL on failure,
            \* dropping (leaking) the pipeline built so far.
            LET m == IF fail = "sine" THEN "mul0" ELSE "mul"
            IN  [st EXCEPT !.cur =
                    IF fail = "mul" THEN NULL
                    ELSE IF cur = NULL THEN [base |-> NoStore, layers |-> <<m>>]
                    ELSE [cur EXCEPT !.layers = Append(@, m)]]
      [] layer.kind = "fir_filter" ->
            [st EXCEPT !.cur =
                IF fail = "fir" THEN NULL
                ELSE IF cur = NULL THEN [base |-> NoStore, layers |-> <<"fir">>]
                ELSE [cur EXCEPT !.layers = Append(@, "fir")]]
      [] layer.kind = "const_multiply" -> st
      [] OTHER ->
            IF cur /= NULL
              THEN [st EXCEPT !.rc = FreeStream(@, cur), !.status = "error"]
              ELSE st

\* The allocation sites a layer goes through.
SitesOf(layer) ==
    CASE layer.kind = "store_reader"        -> {"reader"}
      [] layer.kind = "frequency_translate" -> {"sine", "mul"}
      [] layer.kind = "fir_filter"          -> {"fir"}
      [] OTHER                              -> {}

\* The layer loop, stopping at the first early return.
RECURSIVE BuildLayers(_, _, _)
BuildLayers(st, layers, fails) ==
    IF layers = <<>> \/ st.status = "error" THEN st
    ELSE BuildLayers(AddLayer(st, Head(layers), Head(fails)),
                     Tail(layers), Tail(fails))

\* stream->seek(stream, 0) dereferences a NULL parent when a FIR filter sits
\* over a pipeline without a store reader: fir_stream_fill calls
\* parent->read, and cc_mul reads parent1->eos.
SeekCrashes(p) == p.base = NoStore /\ \E i \in DOMAIN p.layers : p.layers[i] = "fir"

(***************************************************************************)
(* handle_create_stream.                                                  *)
(***************************************************************************)
CreateStream(key, layers, fails, entryFails) ==
    LET st == BuildLayers([cur |-> NULL, rc |-> ref_count, status |-> "building"],
                          layers, fails)
        \* add_stream fails only when the entry cannot be allocated (the key
        \* was free at find_stream); it inserts at the list's head.
        added == ~entryFails
    IN  /\ streams[key] = NoStream   \* find_stream: "Stream already exists"
        /\ layers /= <<>>
        /\ IF st.status = "error" \/ st.cur = NULL
             THEN /\ ref_count' = st.rc
                  /\ UNCHANGED <<streams, crashed, stream_order>>
           ELSE IF SeekCrashes(st.cur)
             THEN /\ crashed' = TRUE
                  /\ UNCHANGED <<ref_count, streams, stream_order>>
           ELSE IF ~added
             THEN /\ ref_count' = FreeStream(st.rc, st.cur)
                  /\ UNCHANGED <<streams, crashed, stream_order>>
           ELSE /\ streams' = [streams EXCEPT ![key] = st.cur]
                /\ stream_order' = AddEntry(stream_order, key)
                /\ ref_count' = st.rc
                /\ UNCHANGED crashed
        /\ UNCHANGED <<stores, allocated, store_order, listed, found>>

\* handle_close_stream / remove_stream: free the pipeline.
CloseStream(key) ==
    /\ streams[key] /= NoStream
    /\ streams' = [streams EXCEPT ![key] = NoStream]
    /\ stream_order' = RemoveEntry(stream_order, key)
    /\ ref_count' = FreeStream(ref_count, streams[key])
    /\ UNCHANGED <<stores, allocated, crashed, store_order, listed, found>>

\* handle_create_store: find_store, new_*_store, add_store.
CreateStore(key, s) ==
    /\ stores[key] = NoStore
    /\ s \notin allocated
    /\ stores' = [stores EXCEPT ![key] = s]
    /\ allocated' = allocated \cup {s}
    /\ store_order' = AddEntry(store_order, key)
    /\ UNCHANGED <<ref_count, streams, crashed, stream_order, listed, found>>

\* Variant of RemoveStore without the STORE_STILL_IN_USE check.
RemoveStoreUnchecked(key) ==
    /\ stores[key] /= NoStore
    /\ stores' = [stores EXCEPT ![key] = NoStore]
    /\ store_order' = RemoveEntry(store_order, key)
    /\ UNCHANGED <<allocated, ref_count, streams, crashed, stream_order, listed, found>>

\* handle_delete_store / remove_store: refused while ref_count > 0.
RemoveStore(key) ==
    /\ stores[key] /= NoStore
    /\ ref_count[stores[key]] = 0
    /\ stores' = [stores EXCEPT ![key] = NoStore]
    /\ store_order' = RemoveEntry(store_order, key)
    /\ UNCHANGED <<allocated, ref_count, streams, crashed, stream_order, listed, found>>

\* A listing selects every entry for the empty path, else the entries whose
\* path equals the requested one (strncmp, not a prefix).
Selects(path, k) == path = "" \/ KeyPath(k) = path

\* Variant of Iterate whose callback stops only once the count exceeds the cap.
RECURSIVE IterateOverrun(_, _, _)
IterateOverrun(list, path, resp) ==
    IF list = <<>> THEN resp
    ELSE IF ~Selects(path, Head(list)) THEN IterateOverrun(Tail(list), path, resp)
    ELSE IF Len(resp) + 1 > ListCap THEN Append(resp, Head(list))
    ELSE IterateOverrun(Tail(list), path, Append(resp, Head(list)))

(***************************************************************************)
(* iterate_store_list / iterate_stream_list with store_list_iterator or   *)
(* stream_list_iterator as the callback: walk the list from its head; the *)
(* callback adds each selected entry (stores_count++) and stops the walk  *)
(* once the count reaches the cap.                                        *)
(***************************************************************************)
RECURSIVE Iterate(_, _, _)
Iterate(list, path, resp) ==
    IF list = <<>> THEN resp
    ELSE IF ~Selects(path, Head(list)) THEN Iterate(Tail(list), path, resp)
    ELSE IF Len(resp) + 1 >= ListCap THEN Append(resp, Head(list))
    ELSE Iterate(Tail(list), path, Append(resp, Head(list)))

\* handle_list_stores: one response listing the selected stores.
ListStores(path) ==
    /\ listed' = [kind |-> "stores", path |-> path, order |-> store_order,
                  entries |-> Iterate(store_order, path, <<>>)]
    /\ UNCHANGED <<regs, found>>

\* handle_list_streams: the same over the stream list.
ListStreams(path) ==
    /\ listed' = [kind |-> "streams", path |-> path, order |-> stream_order,
                  entries |-> Iterate(stream_order, path, <<>>)]
    /\ UNCHANGED <<regs, found>>

(***************************************************************************)
(* eyeq_find_store(name, path): a list_stores request for the key's path  *)
(* (handle_list_stores), then a scan of the response for the name and     *)
(* path: EYEQ_OK if it is there, EYEQ_NOT_FOUND otherwise.                *)
(***************************************************************************)
EyeqFindStore(key) ==
    LET resp == Iterate(store_order, KeyPath(key), <<>>)
    IN  /\ found' = [key |-> key, ok |-> \E i \in DOMAIN resp : resp[i] = key,
                     exists |-> stores[key] /= NoStore]
        /\ UNCHANGED <<regs, listed>>

Next ==
    /\ ~crashed
    /\ \/ \E key \in StoreKeys, s \in StoreIds : CreateStore(key, s)
       \/ \E key \in StoreKeys : RemoveStore(key)
       \/ \E key \in StreamKeys : CloseStream(key)
       \/ \E key \in StreamKeys, layers \in LayerRequests :
            \E fails \in [1 .. Len(layers) -> {"none"} \cup AllocFailures],
               entryFails \in BOOLEAN :
                 /\ \A i \in 1 .. Len(layers) :
                        fails[i] \in {"none"} \cup SitesOf(layers[i])
                 /\ entryFails => "entry" \in AllocFailures
                 /\ CreateStream(key, layers, fails, entryFails)
       \/ \E path \in ListPaths : ListStores(path) \/ ListStreams(path)
       \/ \E key \in StoreKeys : EyeqFindStore(key)

Spec == Init /\ [][Next]_vars

-----------------------------------------------------------------------------
\* Types; a store's count never exceeds the number of stream-list slots.
TypeOK ==
    /\ stores \in [StoreKeys -> StoreIds \cup {NoStore}]
    /\ allocated \subseteq StoreIds
    /\ ref_count \in [StoreIds -> 0 .. Cardinality(StreamKeys)]
    /\ streams \in [StreamKeys -> Pipeline \cup {NoStream}]
    /\ crashed \in BOOLEAN
    /\ store_order \in Seq(StoreKeys)
    /\ stream_order \in Seq(StreamKeys)

ReadersOf(s) == {k \in StreamKeys : streams[k] /= NoStream /\ streams[k].base = s}

(***************************************************************************)
(* The reference count of every live store equals the number of streams   *)
(* in the stream list whose store reader reads it.  store_use in          *)
(* new_store_reader_stream and store_release in store_reader_cleanup must *)
(* balance on every path of handle_create_stream (each early return, the  *)
(* add_stream failure) and of handle_close_stream; a leaked pipeline      *)
(* keeps the count up and the store can never be deleted.                 *)
(***************************************************************************)
RefCountExact ==
    \A s \in Live : ref_count[s] = Cardinality(ReadersOf(s))

(***************************************************************************)
(* No stream in the stream list reads a store that has been freed:        *)
(* remove_store must refuse (STORE_STILL_IN_USE) while a reader holds it. *)
(***************************************************************************)
NoDanglingReader ==
    \A k \in StreamKeys :
        streams[k] /= NoStream /\ streams[k].base /= NoStore
            => streams[k].base \in Live

(***************************************************************************)
(* Every stream handle_create_stream registers, and every pipeline it     *)
(* seeks, has all its parents: a store reader at its bottom (spec.md 4.3: *)
(* building fails unless the first layer is a leaf) and an oscillator     *)
(* under every multiplier.  Otherwise a combinator dereferences a NULL    *)
(* parent: the FIR's fill at the seek, or cc_mul on the second pass of    *)
(* handle_read_stream, after its first call cleared the eos that          *)
(* complex_multiply_stream_seek set for the missing oscillator (cc_mul    *)
(* tests parent1->eos twice).                                             *)
(***************************************************************************)
StreamsHaveLeaf ==
    /\ ~crashed
    /\ \A k \in StreamKeys :
          streams[k] /= NoStream =>
              /\ streams[k].base /= NoStore
              /\ \A i \in DOMAIN streams[k].layers : streams[k].layers[i] /= "mul0"

(***************************************************************************)
(* handle_create_stream keeps spec.md 4.3's contract for building a       *)
(* pipeline: building fails unless the first layer is a leaf, every       *)
(* combinator gets all its parents (StreamsHaveLeaf), and on any failure  *)
(* the partial pipeline is released, so that every store's reference     *)
(* count still equals its readers in the stream list (RefCountExact).     *)
(* It breaks when a layer's allocation failure drops the pipeline built  *)
(* so far, or when a non-leaf first layer or a missing oscillator is      *)
(* accepted.                                                              *)
(***************************************************************************)
BuildContract == RefCountExact /\ StreamsHaveLeaf

\* The listing the code should give: the first ListCap selected entries, in
\* list order.
ListingOf(order, path) ==
    LET sel == SelectSeq(order, LAMBDA k : Selects(path, k))
    IN  SubSeq(sel, 1, IF Len(sel) < ListCap THEN Len(sel) ELSE ListCap)

(***************************************************************************)
(* Every list_stores and list_streams response holds, newest first        *)
(* (add_store and add_stream insert at the head), exactly the first       *)
(* ListCap entries of the list that its path selects, all of them when    *)
(* fewer are selected.  It fails if store_list_iterator or                *)
(* stream_list_iterator stops one entry late, writing past the response's *)
(* array, or one entry early, or if the walk skips a selected entry.      *)
(***************************************************************************)
ListingIsNewestFirst ==
    listed /= None => listed.entries = ListingOf(listed.order, listed.path)

(***************************************************************************)
(* eyeq_find_store finds a store exactly when the store list holds it     *)
(* (spec.md: a client looks a store up by name and path).  It fails when  *)
(* more than ListCap stores share the path: the listing it searches holds *)
(* only the newest of them.                                                *)
(***************************************************************************)
FindStoreComplete ==
    found /= None => (found.ok <=> found.exists)

(***************************************************************************)
(* The server keeps the contract of a stream's building (BuildContract)   *)
(* and the client library finds every store the server holds             *)
(* (FindStoreComplete): the promises spec.md makes to a client that       *)
(* creates stores and streams and then looks them up.                     *)
(***************************************************************************)
ServerContract == BuildContract /\ FindStoreComplete
=============================================================================
