-------------------------------- MODULE MCFir --------------------------------
(***************************************************************************)
(* Two FIR streams of the stream list, a real and a complex one, each     *)
(* over its own array stream, read and seeked in any interleaving.  The   *)
(* server serves one request at a time, so each step is one read or seek *)
(* of one of them; they share no state.                                   *)
(***************************************************************************)
EXTENDS Integers

\* taps [1, 2, 1] and input [1, 2, 3, 4] of test_fir_stream (test_stream.c)
MCTapsReal  == <<1, 2, 1>>
MCInputReal == <<1, 2, 3, 4>>

\* Two complex taps (1 + 0i, 2 - 1i) over three I/Q samples.
MCTapsComplex  == <<1, 0, 2, -1>>
MCInputComplex == <<1, 2, -1, 0, 3, 1>>

VARIABLES fsR, parentR, outR, originR, fsC, parentC, outC, originC

rvars == <<fsR, parentR, outR, originR>>
cvars == <<fsC, parentC, outC, originC>>

\* A 5-float buffer: the window shifts every three outputs.
Real == INSTANCE Fir
          WITH Taps <- MCTapsReal, IsComplex <- FALSE, BufferSize <- 5,
               Input <- MCInputReal, ParentKind <- "array", BlockSamples <- 2,
               ReadCounts <- {1, 2, 3}, SeekOffsets <- {0, 1, 3, 4},
               MaxOutputs <- 30,
               fs <- fsR, parent <- parentR, out <- outR, origin <- originR

\* Overlap 2 floats, a 6-float buffer: the window shifts every two outputs.
Complex == INSTANCE Fir
          WITH Taps <- MCTapsComplex, IsComplex <- TRUE, BufferSize <- 6,
               Input <- MCInputComplex, ParentKind <- "array", BlockSamples <- 2,
               ReadCounts <- {2, 4, 6}, SeekOffsets <- {0, 2, 4, 6},
               MaxOutputs <- 56,
               fs <- fsC, parent <- parentC, out <- outC, origin <- originC

MCInit == Real!Init /\ Complex!Init

MCNext ==
    \/ Real!Next /\ UNCHANGED cvars
    \/ Complex!Next /\ UNCHANGED rvars

MCSpec == MCInit /\ [][MCNext]_<<rvars, cvars>>

\* The types of both filters.
TypesOK == Real!TypeOK /\ Complex!TypeOK

(***************************************************************************)
(* The real filter's output since its last seek is the convolution of the *)
(* array with the taps (fir_stream_fir_filter across shifts and seeks).   *)
(***************************************************************************)
RealIsConvolution == Real!FirIsConvolution

(***************************************************************************)
(* The complex filter's output, read in whole I/Q pairs, is the complex   *)
(* convolution (fir_stream_fir_filter_complex across shifts and seeks).   *)
(***************************************************************************)
ComplexIsConvolution == Complex!FirIsConvolution
=============================================================================
