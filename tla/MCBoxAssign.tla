---------------------------- MODULE MCBoxAssign ----------------------------
EXTENDS BoxAssign

CONSTANTS t1, x, y
=============================================================================
