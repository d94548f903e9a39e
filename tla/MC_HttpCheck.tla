---------------------------- MODULE MC_HttpCheck ----------------------------
(* Two addresses, the second at port 443; the page of the first may send   *)
(* the browser on to a third.                                              *)
EXTENDS HttpCheck

MC_Page == {"home", "tls", "login"}
MC_Targets == <<"home", "tls">>
MC_Leads == [p \in MC_Page |-> IF p = "home" THEN {"login"} ELSE {}]
MC_Pairs == <<"admin", "root">>
=============================================================================
