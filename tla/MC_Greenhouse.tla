---------------------------- MODULE MC_Greenhouse ----------------------------
EXTENDS Greenhouse

(* Every obstacle alone, every pair of which the first can be passed and   *)
(* the second is within reach, and some that need files between patches.   *)
Hopeless == {"stuck", "dead", "place", "adrift"}
Pairs == {<<a, b>> : a \in Obstacle \ {"dead"}, b \in Obstacle \ Hopeless}
Longer == {<<"file", "daemon", "crash">>, <<"daemon", "crash", "cwd">>, <<"loop", "key", "exit">>,
           <<"address", "exit", "prepared">>, <<"key", "file", "exit">>}
Firmwares == {<< >>} \cup {<<o>> : o \in Obstacle} \cup Pairs \cup Longer
=============================================================================
