\* A layer above a store reader whose multiplier, FIR or oscillator fails to
\* allocate, raw requests whose first layer is not a store reader, and two
\* stores under one path with a listing that holds one entry (64 in the
\* code), so that eyeq_find_store searches only the newer store.
CONSTANTS
    k1 = k1
    k2 = k2
    t1 = t1
    t2 = t2
    s1 = s1
    s2 = s2
    s3 = s3
    StoreKeys = {k1, k2}
    StreamKeys = {t1, t2}
    StoreIds = {s1, s2, s3}
    LayerRequests <- MCLayersBuild
    AllocFailures = {"mul", "fir", "sine"}
    NoStore = NoStore
    NoStream = NoStream
    None = None
    KeyPath <- MCKeyPathShared
    ListPaths = {"p"}
    ListCap = 1
SPECIFICATION Spec
INVARIANT ServerContract
