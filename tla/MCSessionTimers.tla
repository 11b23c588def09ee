--------------------------- MODULE MCSessionTimers ---------------------------
EXTENDS SessionTimers
=============================================================================
