--------------------------- MODULE MCSessionExec ---------------------------
EXTENDS SessionExec
=============================================================================
