---------------------------- MODULE MC_RedisLock ----------------------------
(* Three pods with names of their own, one of them started without         *)
(* --enable_redis_lock; two commands, so that a client's lock_value        *)
(* changes from one call to the next.                                      *)
EXTENDS RedisLock

CONSTANTS c1, c2, c3

MC_Client == {c1, c2, c3}
MC_Enabled == {c1, c2}
MC_Name == {"dlink", "tenda", "asus"}
MC_NameOf == [c \in MC_Client |->
                CASE c = c1 -> "dlink" [] c = c2 -> "tenda" [] OTHER -> "asus"]
MC_NoKey == <<>>
=============================================================================
