----------------------------- MODULE MCFirReader -----------------------------
EXTENDS Fir

\* Two complex taps (1 + 0i, 2 - 1i) over three I/Q samples, one per block.
MCTapsComplex  == <<1, 0, 2, -1>>
MCInputComplex == <<1, 2, -1, 0, 3, 1>>
=============================================================================
