---------------------------- MODULE MC_Processes ----------------------------
EXTENDS Processes
=============================================================================
