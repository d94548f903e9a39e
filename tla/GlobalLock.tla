----------------------------- MODULE GlobalLock -----------------------------
(***************************************************************************)
(* What a user of "my_global_lock" is promised: a lease.  The lock is      *)
(* granted only when nobody holds it; it is lost when its holder finishes  *)
(* or when the lease runs out, and never because somebody else finished.   *)
(* A user whose lease ran out may still be at work: the service does not   *)
(* promise mutual exclusion of the work, only of the leases.               *)
(***************************************************************************)
CONSTANTS Client, NoClient

VARIABLES holder,  \* the client whose lease is running, or NoClient
          users    \* the clients at work under a lease, expired or not

vars == <<holder, users>>

Init == /\ holder = NoClient
        /\ users = {}

Grant(c) == /\ holder = NoClient
            /\ c \notin users
            /\ holder' = c
            /\ users' = users \cup {c}

(* The grant is recorded, its answer is lost: nobody works under it. *)
Orphan(c) == /\ holder = NoClient
             /\ holder' = c
             /\ UNCHANGED users

Finish(c) == /\ c \in users
             /\ users' = users \ {c}
             /\ holder' = IF holder = c THEN NoClient ELSE holder

(* The user stops without giving the lease back. *)
Abandon(c) == /\ c \in users
              /\ users' = users \ {c}
              /\ UNCHANGED holder

Expire == /\ holder # NoClient
          /\ holder' = NoClient
          /\ UNCHANGED users

Next == \/ \E c \in Client : Grant(c) \/ Orphan(c) \/ Finish(c) \/ Abandon(c)
        \/ Expire

Spec == Init /\ [][Next]_vars
=============================================================================
