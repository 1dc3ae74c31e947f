\* The unit test of test_stream.c (taps [1,2,1] over [1,2,3,4]) with a
\* 5-float buffer, beside a complex filter of two taps with a 6-float buffer.
\* The values are in MCFir.tla.
SPECIFICATION MCSpec
INVARIANT TypesOK
INVARIANT RealIsConvolution
INVARIANT ComplexIsConvolution
