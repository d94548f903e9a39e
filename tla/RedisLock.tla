------------------------------ MODULE RedisLock ------------------------------
(***************************************************************************)
(* The Redis lock of firmwell/backend/RedisLock.py and its two users in    *)
(* firmwell/backend/DockerManager.py: exec_run_lock, which runs a command  *)
(* in the rehosting container, and start_rehosting_env, which creates that *)
(* container.  Every pod of a batch contends for the one key               *)
(* "my_global_lock"; a client is one pod's firmwell.py process.            *)
(*                                                                         *)
(* Time is kept as remaining time: wait[c] until acquire's `end`, ttl      *)
(* until Redis drops the key.  A tick is any unit that divides the two     *)
(* timeouts of the code.                                                   *)
(***************************************************************************)
EXTENDS Integers

CONSTANTS Client,          \* the firmwell.py processes of a batch
          NoClient,
          Name,            \* firmware names
          NameOf,          \* the name each client rehosts
          Cmd,             \* the commands sent to containers, "build_docker" too
          NoKey,
          TTL,             \* ex=360 of the SET
          AcquireTimeout,  \* timeout=360 of acquire
          Enabled          \* the clients started with --enable_redis_lock

ASSUME NoClientAssumption == NoClient \notin Client
ASSUME NameAssumption == NameOf \in [Client -> Name]
ASSUME TimeAssumption == TTL \in Nat \ {0} /\ AcquireTimeout \in Nat
ASSUME NoKeyAssumption == NoKey \notin Name \X Cmd
ASSUME EnableAssumption == Enabled \subseteq Client

VARIABLES pc,       \* where each client is in exec_run_lock / start_rehosting_env
          value,    \* lock_value of each client's current RedisLock object
          wait,     \* time left until `end` of each client's acquire
          key,      \* value stored in Redis under lock_id, or NoKey
          ttl,      \* time left until Redis drops the key
          grantee,  \* auxiliary: the client whose SET stored the key
          lease     \* auxiliary: time left of the grant each client works under

vars == <<pc, value, wait, key, ttl, grantee, lease>>
redis == <<key, ttl, grantee>>

(* Broken variant: the command alone, without the firmware's name. *)
CommandOnly(c, cmd) == <<CHOOSE n \in Name : TRUE, cmd>>

LockValue(c, cmd) == <<NameOf[c], cmd>>

PC == {"idle", "check", "set", "sleep", "critical", "release"}

TypeOK == /\ pc \in [Client -> PC]
          /\ value \in [Client -> (Name \X Cmd) \cup {NoKey}]
          /\ wait \in [Client -> 0..AcquireTimeout]
          /\ key \in (Name \X Cmd) \cup {NoKey}
          /\ ttl \in 0..TTL
          /\ grantee \in Client \cup {NoClient}
          /\ lease \in [Client -> 0..TTL]

Init == /\ pc = [c \in Client |-> "idle"]
        /\ value = [c \in Client |-> NoKey]
        /\ wait = [c \in Client |-> 0]
        /\ key = NoKey
        /\ ttl = 0
        /\ grantee = NoClient
        /\ lease = [c \in Client |-> 0]

-----------------------------------------------------------------------------
(* A new RedisLock for this command, then acquire: with the lock disabled  *)
(* acquire answers True at once.                                           *)
Call(c, cmd) ==
  /\ pc[c] = "idle"
  /\ value' = [value EXCEPT ![c] = LockValue(c, cmd)]
  /\ \/ /\ c \in Enabled
        /\ pc' = [pc EXCEPT ![c] = "check"]
        /\ wait' = [wait EXCEPT ![c] = AcquireTimeout]
     \/ /\ c \notin Enabled
        /\ pc' = [pc EXCEPT ![c] = "critical"]
        /\ UNCHANGED wait
  /\ UNCHANGED <<redis, lease>>

(* while time.time() < end *)
BeforeDeadline(c) ==
  /\ pc[c] = "check"
  /\ wait[c] > 0
  /\ pc' = [pc EXCEPT ![c] = "set"]
  /\ UNCHANGED <<value, wait, redis, lease>>

(* acquire returns False: exec_run_lock answers "", start_rehosting_env    *)
(* leaves `container` unbound and raises; either way the call is over.     *)
GiveUp(c) ==
  /\ pc[c] = "check"
  /\ wait[c] = 0
  /\ pc' = [pc EXCEPT ![c] = "idle"]
  /\ UNCHANGED <<value, wait, redis, lease>>

(* Broken variant: SET without EX. *)
StoreKeyForGood(c) ==
  /\ key = NoKey
  /\ key' = value[c]
  /\ ttl' = 0
  /\ grantee' = c

StoreKey(c) ==
  /\ key = NoKey
  /\ key' = value[c]
  /\ ttl' = TTL
  /\ grantee' = c

(* SET lock_id lock_value NX EX 360 answers OK *)
SetKey(c) ==
  /\ pc[c] = "set"
  /\ StoreKey(c)
  /\ pc' = [pc EXCEPT ![c] = "critical"]
  /\ lease' = [lease EXCEPT ![c] = TTL]
  /\ UNCHANGED <<value, wait>>

(* SET answers nil: time.sleep(0.5) *)
KeyTaken(c) ==
  /\ pc[c] = "set"
  /\ key # NoKey
  /\ pc' = [pc EXCEPT ![c] = "sleep"]
  /\ UNCHANGED <<value, wait, redis, lease>>

Wake(c) ==
  /\ pc[c] = "sleep"
  /\ pc' = [pc EXCEPT ![c] = "check"]
  /\ UNCHANGED <<value, wait, redis, lease>>

(* exec_run / containers.create returns or raises: on to the finally *)
WorkDone(c) ==
  /\ pc[c] = "critical"
  /\ pc' = [pc EXCEPT ![c] = "release"]
  /\ UNCHANGED <<value, wait, redis, lease>>

(* Broken variant: DEL without comparing the value. *)
DeleteAnyKey(c) == key' = NoKey /\ ttl' = 0 /\ grantee' = NoClient

DeleteKey(c) ==
  IF key = value[c]
  THEN key' = NoKey /\ ttl' = 0 /\ grantee' = NoClient
  ELSE UNCHANGED redis

(* the compare-and-delete script; nothing at all when the lock is disabled *)
Release(c) ==
  /\ pc[c] = "release"
  /\ IF c \in Enabled THEN DeleteKey(c) ELSE UNCHANGED redis
  /\ pc' = [pc EXCEPT ![c] = "idle"]
  /\ lease' = [lease EXCEPT ![c] = 0]
  /\ UNCHANGED <<value, wait>>

(* Redis does not answer: the client raises out of the call, whether or    *)
(* not the server executed its request.                                    *)
ConnectionLost(c) ==
  /\ c \in Enabled
  /\ \/ pc[c] = "set" /\ StoreKey(c)
     \/ pc[c] = "release" /\ DeleteKey(c)
     \/ pc[c] \in {"set", "release"} /\ UNCHANGED redis
  /\ pc' = [pc EXCEPT ![c] = "idle"]
  /\ lease' = [lease EXCEPT ![c] = 0]
  /\ UNCHANGED <<value, wait>>

(* timeout 7200, an OOM kill or an eviction ends the process; the pod that *)
(* replaces it starts over, with the key still in Redis.                   *)
Crash(c) ==
  /\ pc[c] # "idle"
  /\ pc' = [pc EXCEPT ![c] = "idle"]
  /\ lease' = [lease EXCEPT ![c] = 0]
  /\ UNCHANGED <<value, wait, redis>>

Less(n) == IF n = 0 THEN 0 ELSE n - 1

(* One unit of time; Redis drops a key whose time has run out. *)
Tick ==
  /\ wait' = [c \in Client |-> Less(wait[c])]
  /\ lease' = [c \in Client |-> Less(lease[c])]
  /\ ttl' = Less(ttl)
  /\ IF ttl = 1
     THEN key' = NoKey /\ grantee' = NoClient
     ELSE UNCHANGED <<key, grantee>>
  /\ UNCHANGED <<pc, value>>

Step(c) == \/ BeforeDeadline(c) \/ GiveUp(c)
           \/ SetKey(c) \/ KeyTaken(c) \/ Wake(c)
           \/ WorkDone(c) \/ Release(c)

Next == \/ \E c \in Client : \/ Step(c)
                             \/ \E cmd \in Cmd : Call(c, cmd)
                             \/ ConnectionLost(c)
                             \/ Crash(c)
        \/ Tick

Spec == Init /\ [][Next]_vars

(* Processes are scheduled, clocks advance and a Docker request ends       *)
(* (docker.from_env(timeout=360)); nobody has to call, crash or lose a     *)
(* connection.                                                             *)
Fairness == /\ WF_vars(Tick)
            /\ \A c \in Client : WF_vars(Step(c))

FairSpec == Spec /\ Fairness

-----------------------------------------------------------------------------
(* Two clients are never both inside the lease of a grant of theirs: the   *)
(* compare-and-delete of a holder whose lease ran out, a crash or a lost   *)
(* reply does not let a third client in early.                             *)
LeaseMutex ==
  \A c, d \in Client : lease[c] > 0 /\ lease[d] > 0 => c = d

(* A running lease is in Redis: as long as c is inside it, the key holds   *)
(* c's value and drops exactly when the lease ends.                        *)
LeaseInRedis ==
  \A c \in Client : lease[c] > 0 => /\ key = value[c]
                                    /\ grantee = c
                                    /\ ttl = lease[c]

(* No client but the one whose SET stored it deletes a key, late releases  *)
(* included; time is the only other way for it to go.                      *)
OnlyGranteeDeletes ==
  [][\A c \in Client :
        pc[c] = "release" /\ pc'[c] = "idle" /\ key # NoKey /\ key' = NoKey
          => grantee = c]_vars

(* A key left by a crash or a lost reply does not lock the batch out.      *)
KeyIsDropped == key # NoKey ~> key = NoKey

(* The Redis key implements the lease service, for the clients that use it. *)
GL == INSTANCE GlobalLock WITH
        holder <- grantee,
        users <- {c \in Enabled : pc[c] \in {"critical", "release"}}

(* Every step of the Redis lock, crashes, late releases and lost replies   *)
(* included, is a step of the lease service.                               *)
ImplementsGlobalLock == GL!Spec
=============================================================================
