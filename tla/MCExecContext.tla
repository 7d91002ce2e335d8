--------------------------- MODULE MCExecContext ---------------------------
EXTENDS ExecContext

CONSTANTS a, b
=============================================================================
