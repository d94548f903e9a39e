--------------------------- MODULE RedisLock_proofs ---------------------------
(***************************************************************************)
(* What the runs of RedisLock check on three clients, proved for any set   *)
(* of clients, any commands and any timeouts.  The only hypothesis beyond  *)
(* the module's assumptions is that no two clients rehost firmware of the  *)
(* same name: the code derives lock_value from that name alone.            *)
(***************************************************************************)
EXTENDS RedisLock, TLAPS

DistinctNames == \A c, d \in Client : NameOf[c] = NameOf[d] => c = d

(* A client in a call has the lock_value of its command. *)
Calling == \A c \in Client : pc[c] # "idle" => \E cmd \in Cmd : value[c] = LockValue(c, cmd)

(* The key, its time to live and its grantee come and go together, and a   *)
(* stored key carries its grantee's name.                                  *)
KeyState == /\ key = NoKey <=> ttl = 0
            /\ key = NoKey <=> grantee = NoClient
            /\ key # NoKey => key[1] = NameOf[grantee]

(* Only a client between its SET and its release has a lease. *)
LeaseInUse == \A c \in Client : lease[c] > 0 => pc[c] \in {"critical", "release"}

IInv == TypeOK /\ Calling /\ KeyState /\ LeaseInUse /\ LeaseInRedis

LEMMA LockValueType ==
  ASSUME NEW c \in Client, NEW cmd \in Cmd
  PROVE  /\ LockValue(c, cmd) \in Name \X Cmd
         /\ LockValue(c, cmd) # NoKey
         /\ LockValue(c, cmd)[1] = NameOf[c]
BY NameAssumption, NoKeyAssumption DEF LockValue

LEMMA LessType ==
  ASSUME NEW m \in Nat, NEW n \in 0..m
  PROVE  Less(n) \in 0..m /\ (Less(n) > 0 => n > 1) /\ (n = 1 => Less(n) = 0) /\ (Less(n) = 0 => n \in {0, 1})
BY DEF Less

LEMMA InitIInv == Init => IInv
BY TimeAssumption DEF Init, IInv, TypeOK, Calling, KeyState, LeaseInUse, LeaseInRedis, PC

(* The actions that leave Redis and the leases alone. *)
LEMMA LocalStep ==
  ASSUME IInv, NEW c \in Client,
         \/ \E cmd \in Cmd : Call(c, cmd)
         \/ BeforeDeadline(c) \/ GiveUp(c) \/ KeyTaken(c) \/ Wake(c) \/ WorkDone(c)
  PROVE  IInv'
<1> USE TimeAssumption DEF IInv, redis, PC
<1>1. CASE \E cmd \in Cmd : Call(c, cmd)
  <2> PICK cmd \in Cmd : Call(c, cmd) BY <1>1
  <2>1. TypeOK'
    BY LockValueType DEF TypeOK, Call
  <2>2. Calling'
    BY LockValueType DEF Calling, Call, TypeOK
  <2>3. KeyState'
    BY DEF KeyState, Call
  <2>4. lease[c] = 0
    BY DEF Call, LeaseInUse, TypeOK
  <2>5. LeaseInUse' /\ LeaseInRedis'
    BY <2>4 DEF LeaseInUse, LeaseInRedis, Call, TypeOK
  <2> QED BY <2>1, <2>2, <2>3, <2>5
<1>2. CASE BeforeDeadline(c) \/ GiveUp(c) \/ KeyTaken(c) \/ Wake(c) \/ WorkDone(c)
  <2> USE DEF BeforeDeadline, GiveUp, KeyTaken, Wake, WorkDone
  <2>1. TypeOK'
    BY <1>2 DEF TypeOK
  <2>2. Calling'
    BY <1>2 DEF Calling, TypeOK
  <2>3. KeyState' /\ LeaseInRedis'
    BY <1>2 DEF KeyState, LeaseInRedis
  <2>4. LeaseInUse'
    BY <1>2 DEF LeaseInUse, TypeOK
  <2> QED BY <2>1, <2>2, <2>3, <2>4
<1> QED BY <1>1, <1>2

(* While no key is stored nobody is inside a lease. *)
LEMMA NoKeyNoLease ==
  ASSUME IInv, key = NoKey, NEW c \in Client
  PROVE  lease[c] = 0
<1>1. CASE lease[c] > 0
  <2>1. grantee = c /\ grantee = NoClient
    BY <1>1 DEF IInv, LeaseInRedis, KeyState
  <2> QED BY <2>1, NoClientAssumption
<1> QED BY <1>1 DEF IInv, TypeOK

LEMMA StoreKeyFacts ==
  ASSUME IInv, NEW c \in Client, pc[c] = "set", StoreKey(c)
  PROVE  /\ key' \in Name \X Cmd
         /\ KeyState'
         /\ key' = value[c] /\ ttl' = TTL /\ grantee' = c
<1>1. PICK cmd \in Cmd : value[c] = LockValue(c, cmd)
  BY DEF IInv, Calling
<1>2. key' = value[c] /\ ttl' = TTL /\ grantee' = c
  BY DEF StoreKey
<1>3. key' \in Name \X Cmd /\ key' # NoKey /\ key'[1] = NameOf[c]
  BY <1>1, <1>2, LockValueType
<1> QED BY <1>2, <1>3, TimeAssumption, NoClientAssumption DEF KeyState

(* A key is deleted by its grantee's script alone. *)
LEMMA DeleteOwnKey ==
  ASSUME IInv, DistinctNames, NEW c \in Client, pc[c] = "release", key = value[c]
  PROVE  grantee = c
<1>1. PICK cmd \in Cmd : value[c] = LockValue(c, cmd)
  BY DEF IInv, Calling
<1>2. key # NoKey /\ key[1] = NameOf[c]
  BY <1>1, LockValueType
<1>3. grantee \in Client /\ key[1] = NameOf[grantee]
  BY <1>2 DEF IInv, KeyState, TypeOK
<1> QED BY <1>2, <1>3 DEF DistinctNames

LEMMA SetKeyStep ==
  ASSUME IInv, NEW c \in Client, SetKey(c)
  PROVE  IInv'
<1>1. /\ key' \in Name \X Cmd
      /\ KeyState'
      /\ key' = value[c] /\ ttl' = TTL /\ grantee' = c
  BY StoreKeyFacts DEF SetKey
<1>2. \A d \in Client : lease[d] = 0
  BY NoKeyNoLease DEF SetKey, StoreKey
<1>3. TypeOK'
  BY <1>1, TimeAssumption DEF IInv, TypeOK, SetKey, PC
<1>4. Calling'
  BY DEF IInv, Calling, SetKey, TypeOK
<1>5. LeaseInUse' /\ LeaseInRedis'
  BY <1>1, <1>2, TimeAssumption DEF IInv, TypeOK, LeaseInUse, LeaseInRedis, SetKey
<1> QED BY <1>1, <1>3, <1>4, <1>5 DEF IInv

(* The steps that end a call, Redis updated as `Effect' says. *)
LEMMA EndOfCall ==
  ASSUME IInv, DistinctNames, NEW c \in Client,
         pc' = [pc EXCEPT ![c] = "idle"],
         lease' = [lease EXCEPT ![c] = 0],
         UNCHANGED <<value, wait>>,
         \/ pc[c] = "set" /\ StoreKey(c)
         \/ pc[c] = "release" /\ DeleteKey(c)
         \/ UNCHANGED redis
  PROVE  IInv'
<1> USE DEF IInv
<1>1. Calling'
  BY DEF Calling, TypeOK
<1>2. LeaseInUse'
  BY DEF LeaseInUse, TypeOK
<1>3. pc' \in [Client -> PC] /\ lease' \in [Client -> 0..TTL]
  BY TimeAssumption DEF TypeOK, PC
<1>4. CASE pc[c] = "set" /\ StoreKey(c)
  <2>1. /\ key' \in Name \X Cmd
        /\ KeyState'
        /\ ttl' = TTL /\ grantee' = c
    BY <1>4, StoreKeyFacts
  <2>2. \A d \in Client : lease'[d] = 0
    BY <1>4, NoKeyNoLease DEF StoreKey, TypeOK
  <2>3. TypeOK'
    BY <1>3, <2>1, TimeAssumption DEF TypeOK
  <2>4. LeaseInRedis'
    BY <2>2 DEF LeaseInRedis
  <2> QED BY <1>1, <1>2, <2>1, <2>3, <2>4
<1>5. CASE pc[c] = "release" /\ key = value[c] /\ DeleteKey(c)
  <2>1. grantee = c
    BY <1>5, DeleteOwnKey
  <2>2. key' = NoKey /\ ttl' = 0 /\ grantee' = NoClient
    BY <1>5 DEF DeleteKey
  <2>3. TypeOK'
    BY <1>3, <2>2, TimeAssumption DEF TypeOK
  <2>4. KeyState'
    BY <2>2 DEF KeyState
  <2>5. \A d \in Client : lease'[d] = 0
    BY <2>1 DEF LeaseInRedis, TypeOK
  <2>6. LeaseInRedis'
    BY <2>5 DEF LeaseInRedis
  <2> QED BY <1>1, <1>2, <2>3, <2>4, <2>6
<1>6. CASE UNCHANGED redis
  <2>1. TypeOK'
    BY <1>3, <1>6 DEF TypeOK, redis
  <2>2. KeyState' /\ LeaseInRedis'
    BY <1>6 DEF KeyState, LeaseInRedis, redis, TypeOK
  <2> QED BY <1>1, <1>2, <2>1, <2>2
<1> QED BY <1>4, <1>5, <1>6 DEF DeleteKey

LEMMA TickStep ==
  ASSUME IInv, Tick
  PROVE  IInv'
<1> USE TimeAssumption DEF IInv
<1>1. \A c \in Client : Less(wait[c]) \in 0..AcquireTimeout /\ Less(lease[c]) \in 0..TTL
  BY LessType DEF TypeOK
<1>2. Less(ttl) \in 0..TTL
  BY LessType DEF TypeOK
<1>3. TypeOK'
  BY <1>1, <1>2 DEF TypeOK, Tick
<1>4. Calling'
  BY DEF Calling, Tick
<1>5. KeyState'
  BY DEF KeyState, Tick, Less, TypeOK
<1>6. LeaseInUse'
  BY LessType DEF LeaseInUse, Tick, TypeOK, Less
<1>7. LeaseInRedis'
  BY DEF LeaseInRedis, Tick, Less, TypeOK
<1> QED BY <1>3, <1>4, <1>5, <1>6, <1>7

LEMMA NextIInv ==
  ASSUME IInv, DistinctNames, [Next]_vars
  PROVE  IInv'
<1>1. ASSUME NEW c \in Client, Step(c)
      PROVE  IInv'
  <2>1. CASE BeforeDeadline(c) \/ GiveUp(c) \/ KeyTaken(c) \/ Wake(c) \/ WorkDone(c)
    BY <2>1, LocalStep
  <2>2. CASE SetKey(c)
    BY <2>2, SetKeyStep
  <2>3. CASE Release(c)
    BY <2>3, EndOfCall DEF Release
  <2> QED BY <1>1, <2>1, <2>2, <2>3 DEF Step
<1>2. ASSUME NEW c \in Client, NEW cmd \in Cmd, Call(c, cmd)
      PROVE  IInv'
  BY <1>2, LocalStep
<1>3. ASSUME NEW c \in Client, ConnectionLost(c)
      PROVE  IInv'
  BY <1>3, EndOfCall DEF ConnectionLost
<1>4. ASSUME NEW c \in Client, Crash(c)
      PROVE  IInv'
  BY <1>4, EndOfCall DEF Crash
<1>5. CASE Tick
  BY <1>5, TickStep
<1>6. CASE UNCHANGED vars
  BY <1>6 DEF IInv, TypeOK, Calling, KeyState, LeaseInUse, LeaseInRedis, vars
<1> QED BY <1>1, <1>2, <1>3, <1>4, <1>5, <1>6 DEF Next

-----------------------------------------------------------------------------
(* Every variable keeps its type: no time left becomes negative, and Redis *)
(* holds a whole lock_value or nothing.                                    *)
THEOREM TypeCorrect == DistinctNames => (Spec => []TypeOK)
<1> SUFFICES ASSUME DistinctNames PROVE Spec => []TypeOK
  OBVIOUS
<1>1. IInv /\ [Next]_vars => IInv'
  BY NextIInv
<1>2. IInv => TypeOK
  BY DEF IInv
<1> QED BY InitIInv, <1>1, <1>2, PTL DEF Spec

(* A running lease stays in Redis for its whole length, whatever late      *)
(* releases, crashes and lost replies happen around it.                    *)
THEOREM LeaseSafe == DistinctNames => (Spec => []LeaseInRedis)
<1> SUFFICES ASSUME DistinctNames PROVE Spec => []LeaseInRedis
  OBVIOUS
<1>1. IInv /\ [Next]_vars => IInv'
  BY NextIInv
<1>2. IInv => LeaseInRedis
  BY DEF IInv
<1> QED BY InitIInv, <1>1, <1>2, PTL DEF Spec

(* Two clients are never both inside a lease. *)
THEOREM LeaseExclusive == DistinctNames => (Spec => []LeaseMutex)
<1> SUFFICES ASSUME DistinctNames PROVE Spec => []LeaseMutex
  OBVIOUS
<1>1. Spec => []LeaseInRedis
  BY LeaseSafe
<1>2. LeaseInRedis => LeaseMutex
  BY DEF LeaseInRedis, LeaseMutex
<1> QED BY <1>1, <1>2, PTL

(* A late release, a repeated one or one whose reply is lost never deletes *)
(* the key of another client.                                              *)
THEOREM ReleaseSafe == DistinctNames => (Spec => OnlyGranteeDeletes)
<1> DEFINE Deletes(c) == pc[c] = "release" /\ pc'[c] = "idle" /\ key # NoKey /\ key' = NoKey
<1> SUFFICES ASSUME DistinctNames PROVE Spec => OnlyGranteeDeletes
  OBVIOUS
<1>1. IInv /\ [Next]_vars => IInv'
  BY NextIInv
<1>2. ASSUME IInv, Next, NEW c \in Client, Deletes(c)
      PROVE  grantee = c
  <2>1. key = value[c]
    <3>1. ASSUME NEW d \in Client, Step(d) PROVE key = value[c]
      BY <1>2, <3>1 DEF Step, BeforeDeadline, GiveUp, SetKey, StoreKey, KeyTaken, Wake,
                        WorkDone, Release, DeleteKey, redis, IInv, TypeOK
    <3>2. ASSUME NEW d \in Client, NEW cmd \in Cmd, Call(d, cmd) PROVE FALSE
      BY <1>2, <3>2 DEF Call, redis
    <3>3. ASSUME NEW d \in Client, ConnectionLost(d) PROVE key = value[c]
      BY <1>2, <3>3 DEF ConnectionLost, StoreKey, DeleteKey, redis, IInv, TypeOK
    <3>4. ASSUME NEW d \in Client, Crash(d) PROVE FALSE
      BY <1>2, <3>4 DEF Crash, redis
    <3>5. ASSUME Tick PROVE FALSE
      BY <1>2, <3>5 DEF Tick
    <3> QED BY <1>2, <3>1, <3>2, <3>3, <3>4, <3>5 DEF Next
  <2> QED BY <1>2, <2>1, DeleteOwnKey
<1>3. IInv /\ [Next]_vars => [\A c \in Client : Deletes(c) => grantee = c]_vars
  BY <1>2
<1> QED BY InitIInv, <1>1, <1>3, PTL DEF Spec, OnlyGranteeDeletes

-----------------------------------------------------------------------------
(* A client at work whose grant still stands finds its own value in Redis. *)
OwnKey == \A c \in Enabled : pc[c] \in {"critical", "release"} /\ grantee = c => key = value[c]

Users == {c \in Enabled : pc[c] \in {"critical", "release"}}

LEMMA OwnKeyStep ==
  ASSUME IInv, OwnKey, DistinctNames, [Next]_vars
  PROVE  OwnKey'
<1> USE NoClientAssumption, EnableAssumption DEF IInv, TypeOK, OwnKey, redis
<1>1. ASSUME NEW c \in Client, Step(c) PROVE OwnKey'
  <2>1. CASE BeforeDeadline(c) \/ GiveUp(c) \/ KeyTaken(c) \/ Wake(c) \/ WorkDone(c)
    BY <2>1 DEF BeforeDeadline, GiveUp, KeyTaken, Wake, WorkDone
  <2>2. CASE SetKey(c)
    BY <2>2 DEF SetKey, StoreKey
  <2>3. CASE Release(c)
    BY <2>3 DEF Release, DeleteKey
  <2> QED BY <1>1, <2>1, <2>2, <2>3 DEF Step
<1>2. ASSUME NEW c \in Client, NEW cmd \in Cmd, Call(c, cmd) PROVE OwnKey'
  BY <1>2 DEF Call
<1>3. ASSUME NEW c \in Client, ConnectionLost(c) PROVE OwnKey'
  BY <1>3 DEF ConnectionLost, StoreKey, DeleteKey
<1>4. ASSUME NEW c \in Client, Crash(c) PROVE OwnKey'
  BY <1>4 DEF Crash
<1>5. CASE Tick
  BY <1>5 DEF Tick
<1>6. CASE UNCHANGED vars
  BY <1>6 DEF vars
<1> QED BY <1>1, <1>2, <1>3, <1>4, <1>5, <1>6 DEF Next

LEMMA LeaseStep ==
  ASSUME IInv, OwnKey, DistinctNames, [Next]_vars
  PROVE  [GL!Next]_(GL!vars)
<1> USE NoClientAssumption, EnableAssumption DEF IInv, TypeOK, redis, GL!vars
<1>1. ASSUME NEW c \in Client,
             \/ \E cmd \in Cmd : Call(c, cmd)
             \/ BeforeDeadline(c) \/ GiveUp(c) \/ KeyTaken(c) \/ Wake(c) \/ WorkDone(c)
      PROVE  UNCHANGED GL!vars
  BY <1>1 DEF Call, BeforeDeadline, GiveUp, KeyTaken, Wake, WorkDone
<1>2. ASSUME NEW c \in Client, SetKey(c) PROVE GL!Grant(c) \/ GL!Orphan(c)
  <2>1. grantee = NoClient /\ grantee' = c /\ pc[c] = "set" /\ pc' = [pc EXCEPT ![c] = "critical"]
    BY <1>2 DEF SetKey, StoreKey, KeyState
  <2>2. CASE c \in Enabled
    <3>1. Users' = Users \cup {c} /\ c \notin Users
      BY <2>1, <2>2 DEF Users
    <3> QED BY <2>1, <3>1 DEF GL!Grant, Users
  <2>3. CASE c \notin Enabled
    <3>1. Users' = Users
      BY <2>1, <2>3 DEF Users
    <3> QED BY <2>1, <3>1 DEF GL!Orphan, Users
  <2> QED BY <2>2, <2>3
<1>3. ASSUME NEW c \in Enabled, pc[c] = "release", pc' = [pc EXCEPT ![c] = "idle"], DeleteKey(c)
      PROVE  GL!Finish(c)
  <2>1. key = value[c] <=> grantee = c
    BY <1>3, DeleteOwnKey DEF OwnKey
  <2>2. grantee' = IF grantee = c THEN NoClient ELSE grantee
    BY <1>3, <2>1 DEF DeleteKey
  <2>3. Users' = Users \ {c} /\ c \in Users
    BY <1>3 DEF Users
  <2> QED BY <2>2, <2>3 DEF GL!Finish, Users
<1>4. ASSUME NEW c \in Client, pc[c] # "idle", pc' = [pc EXCEPT ![c] = "idle"], UNCHANGED redis
      PROVE  GL!Abandon(c) \/ UNCHANGED GL!vars
  <2>1. CASE c \in Users
    BY <1>4, <2>1 DEF GL!Abandon, Users
  <2>2. CASE c \notin Users
    BY <1>4, <2>2 DEF Users
  <2> QED BY <2>1, <2>2
<1>5. ASSUME NEW c \in Client, ConnectionLost(c)
      PROVE  GL!Orphan(c) \/ GL!Finish(c) \/ GL!Abandon(c) \/ UNCHANGED GL!vars
  <2>1. CASE pc[c] = "set" /\ StoreKey(c)
    BY <1>5, <2>1 DEF ConnectionLost, StoreKey, KeyState, GL!Orphan
  <2>2. CASE pc[c] = "release" /\ DeleteKey(c)
    BY <1>3, <1>5, <2>2 DEF ConnectionLost
  <2>3. CASE pc[c] \in {"set", "release"} /\ UNCHANGED redis
    BY <1>4, <1>5, <2>3 DEF ConnectionLost
  <2> QED BY <1>5, <2>1, <2>2, <2>3 DEF ConnectionLost
<1>6. ASSUME Tick PROVE GL!Expire \/ UNCHANGED GL!vars
  BY <1>6 DEF Tick, KeyState, GL!Expire
<1>7. ASSUME NEW c \in Client, Step(c) PROVE [GL!Next]_(GL!vars)
  <2>1. CASE Release(c) /\ c \in Enabled
    BY <1>3, <2>1 DEF Release, GL!Next
  <2>2. CASE Release(c) /\ c \notin Enabled
    BY <2>2 DEF Release
  <2> QED BY <1>1, <1>2, <1>7, <2>1, <2>2 DEF Step, GL!Next
<1>8. CASE UNCHANGED vars
  BY <1>8 DEF vars
<1> QED BY <1>1, <1>4, <1>5, <1>6, <1>7, <1>8 DEF Next, Crash, GL!Next

(* With distinct names, the Redis lock implements the lease service:       *)
(* whatever a client does, somebody else's lease stands.                   *)
THEOREM Refinement == DistinctNames => (Spec => ImplementsGlobalLock)
<1> SUFFICES ASSUME DistinctNames PROVE Spec => ImplementsGlobalLock
  OBVIOUS
<1>1. Init => IInv /\ OwnKey /\ GL!Init
  BY InitIInv, EnableAssumption DEF Init, OwnKey, GL!Init
<1>2. IInv /\ OwnKey /\ [Next]_vars => IInv' /\ OwnKey' /\ [GL!Next]_(GL!vars)
  BY NextIInv, OwnKeyStep, LeaseStep
<1> QED BY <1>1, <1>2, PTL DEF Spec, ImplementsGlobalLock, GL!Spec
=============================================================================
