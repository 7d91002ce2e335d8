--------------------------- MODULE MCRWSpinMutex ---------------------------
EXTENDS RWSpinMutex

CONSTANTS a, b, c
=============================================================================
