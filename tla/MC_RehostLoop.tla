--------------------------- MODULE MC_RehostLoop ---------------------------
(* The target and one helper; a few things each of them can miss.  The     *)
(* strings stand for files, as "init_bash" stands for a process.           *)
EXTENDS RehostLoop

MC_Service == {"httpd", "helper"}
MC_Nobody == "nobody"
MC_NoError == Err("none", "none", MC_Nobody)
=============================================================================
