------------------------------ MODULE MCServer ------------------------------
EXTENDS Server

CONSTANTS k1, k2, t1, t2, s1, s2, s3

\* Requests as the client library builds them, and the malformed orders a raw
\* request may carry after a store reader.
ClientLayers ==
    { FrequencyFilterLayers(k1, f, t) : f, t \in BOOLEAN } \cup
    { <<Reader(k1), Reader(k1)>>, <<Reader(k1), Unknown>>, <<Reader(k1), Todo>> }

\* Requests whose first layer is not a store reader.
NonLeafFirst == { <<Freq>>, <<Fir>>, <<Unknown, Reader(k1)>> }

MCLayersPass  == ClientLayers
\* A layer above a store reader, and requests whose first layer is not one.
MCLayersBuild == { <<Reader(k1), Freq>>, <<Reader(k1), Fir>> } \cup NonLeafFirst

\* Store k1 and stream t1 live under path "p", stream t2 and store k2 under
\* "q"; a listing asks for one path or for every entry ("").
MCKeyPath(k) == IF k \in {k1, t1} THEN "p" ELSE "q"
MCListPaths == {"", "p"}

\* Stores of one path, more of them than a listing holds.
MCKeyPathShared(k) == "p"
=============================================================================
