--------------------------- MODULE MCSessionEvents ---------------------------
EXTENDS SessionEvents, TLC
=============================================================================
