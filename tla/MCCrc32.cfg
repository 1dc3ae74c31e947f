\* Every string of up to three bytes over five values that reach both ends of
\* each nibble and the high bit.
CONSTANTS
    Bytes = {0, 1, 15, 128, 255}
    MaxLen = 3
SPECIFICATION Spec
INVARIANT CrcIsIeee
