--------------------------- MODULE MCAcceptanceGate ---------------------------
EXTENDS AcceptanceGate
==============================================================================
