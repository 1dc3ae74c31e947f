---------------------------- MODULE MCMultiplier ----------------------------
EXTENDS Multiplier
=============================================================================
