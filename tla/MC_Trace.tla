------------------------------ MODULE MC_Trace ------------------------------
EXTENDS Trace

Firmware == [conf |-> {"missing", "empty", "data"}, dev |-> {"missing"}, ld |-> {"data"}]
Lines == <<5, 3>>
=============================================================================
