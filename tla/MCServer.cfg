\* One store key, three store objects (create, delete, re-create), two stream
\* keys.  The oscillator (new_complex_sine_stream) and the stream list
\* entry (add_stream) may fail to allocate.  A listing holds one entry, so
\* listing both streams reaches the cap.
CONSTANTS
    k1 = k1
    k2 = k2
    t1 = t1
    t2 = t2
    s1 = s1
    s2 = s2
    s3 = s3
    StoreKeys = {k1}
    StreamKeys = {t1, t2}
    StoreIds = {s1, s2, s3}
    LayerRequests <- MCLayersPass
    AllocFailures = {"sine", "entry"}
    NoStore = NoStore
    NoStream = NoStream
    None = None
    KeyPath <- MCKeyPath
    ListPaths <- MCListPaths
    ListCap = 1
SPECIFICATION Spec
INVARIANT TypeOK
INVARIANT RefCountExact
INVARIANT NoDanglingReader
INVARIANT ListingIsNewestFirst
