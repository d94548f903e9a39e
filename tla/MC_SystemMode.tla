--------------------------- MODULE MC_SystemMode ---------------------------
EXTENDS SystemMode
=============================================================================
