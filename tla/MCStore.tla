------------------------------ MODULE MCStore ------------------------------
EXTENDS Store

CONSTANTS b1, b2

MCBodies == {b1, b2}
=============================================================================
