\* A frequency-translate stream over a store reader of two blocks of one I/Q
\* pair each, a 2-float cc_mul buffer (so a read of 3 floats takes two
\* passes), reads of 1, 2 or 3 floats and seeks to blocks 0 and 1.
\* Its output leaves the product of signal and oscillator: after a seek
\* (the oscillator is not reset), after an odd read (the oscillator runs a
\* sample ahead) and at the end of the reader (a short read leaves stale
\* floats in v1 and cc_mul still returns the whole count).
CONSTANTS
    InputLen = 4
    BlockSamples = 2
    BufferSize = 2
    ReadCounts = {1, 2, 3}
    SeekOffsets = {0, 1}
    MaxOutputs = 6
    MaxOscOffset = 6
    Zero = Zero
    Undef = Undef
SPECIFICATION Spec
INVARIANT MulIsProduct
