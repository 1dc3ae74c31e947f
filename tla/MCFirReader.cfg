\* (MCFirReader.tla)
\* A complex FIR (two taps) over a store reader of three blocks of one I/Q
\* pair, 6-float buffer, reads of 2 or 3 floats, seeks to blocks 0 and 1.
\* Three ways its output leaves the convolution are reachable:
\*  - a seek while the filter is at eos: eos is still set when
\*    fir_stream_seek calls fir_stream_shift_and_read, so nothing is read
\*    and the window is zeros;
\*  - a refill that reaches the end of the reader stops with the rest of
\*    the buffer holding floats of the previous window;
\*  - a read of an odd count splits an I/Q pair between two reads.
CONSTANTS
    Taps <- MCTapsComplex
    IsComplex = TRUE
    BufferSize = 6
    Input <- MCInputComplex
    ParentKind = "reader"
    BlockSamples = 2
    ReadCounts = {2, 3}
    SeekOffsets = {0, 1}
    MaxOutputs = 16
SPECIFICATION Spec
INVARIANT FirIsConvolution
