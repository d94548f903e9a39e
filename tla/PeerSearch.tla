----------------------------- MODULE PeerSearch -----------------------------
(***************************************************************************)
(* _identify_peer_process and _identify_shm_peer_process: which executable *)
(* of the firmware serves the socket, or the shared memory, on which a     *)
(* traced process failed.                                                  *)
(*                                                                         *)
(* The candidates are analysed one by one in a process of their own, which *)
(* is limited in time and memory: the calls of bind and connect (or of     *)
(* shm_open) are grouped by the function that really makes them, each such *)
(* function is executed symbolically, and the address is read where a call *)
(* is reached.  What an execution reaches is data here; which executions   *)
(* are tried, and what is made of their results, is the code's.            *)
(***************************************************************************)
EXTENDS Integers, Sequences, FiniteSets, SequencesExt

CONSTANTS Binaries,       \* the executables of the firmware
          Funcs,          \* the functions of an executable
          NoBinary, NoFunc,
          Worlds,         \* the firmwares
          Large,          \* 100: blocks of a function that is executed in parts
          MaxSites,       \* MAX_CALL_SITES
          MaxCallers      \* MAX_CALLER_FUNCTIONS

(* A call: the function it stands in (of none when no function has it),    *)
(* whether it is given the address in question, from where an execution    *)
(* reaches it, and whether the address can be read there.  "behind": from  *)
(* the entry, but seen only by those who look behind the call, too;        *)
(* "near": only from a block of the caller close before it.                *)
Site == [in : Funcs \cup {NoFunc}, addr : BOOLEAN, reach : {"entry", "behind", "near", "never"}, read : BOOLEAN]

(* An executable: whether it has the address among its strings, its calls, *)
(* its wrappers and the function that calls one first, the blocks of each  *)
(* function, whether the analysis exceeds its limits or fails, and the     *)
(* address its strings suggest when none can be read.                      *)
Program ==
  [named : BOOLEAN, sites : Seq(Site), wrapper : SUBSET Funcs, up : [Funcs -> Funcs \cup {NoFunc}],
   size : [Funcs -> Nat], fails : BOOLEAN, guess : {"addr", "other", "none"}]

ASSUME NamesAssumption == NoBinary \notin Binaries /\ NoFunc \notin Funcs /\ IsFiniteSet(Binaries) /\ IsFiniteSet(Funcs)
ASSUME BoundsAssumption == {Large, MaxSites, MaxCallers} \subseteq Nat
ASSUME WorldAssumption == Worlds \subseteq [seek : {"socket", "shm"}, of : [Binaries -> Program]]

VARIABLES world, todo, matching, binary, callers, extracted, phase, peer

vars == <<world, todo, matching, binary, callers, extracted, phase, peer>>

P == world.of[binary]

Candidates == {b \in Binaries : world.of[b].named}

Init ==
  /\ world \in Worlds /\ todo = {} /\ matching = << >> /\ binary = NoBinary
  /\ callers = << >> /\ extracted = << >> /\ phase = "start" /\ peer = NoBinary
-----------------------------------------------------------------------------
(* find_actual_caller: a wrapper stands for the function that calls it     *)
(* first, however often that takes.                                        *)
Unwraps(p, f) == f \in p.wrapper /\ p.up[f] # NoFunc

Outer(p, f) ==
  LET out[n \in 0 .. Cardinality(Funcs)] == IF n = 0 THEN f ELSE IF Unwraps(p, out[n - 1]) THEN p.up[out[n - 1]] ELSE out[n - 1]
  IN out[Cardinality(Funcs)]

Endless(p, f) == Unwraps(p, Outer(p, f))

(* The calls that are looked at, and the functions that make them.         *)
Known(p) == {i \in 1 .. Len(p.sites) : i <= MaxSites /\ p.sites[i].in # NoFunc}

CallerOf(p, i) == Outer(p, p.sites[i].in)

Group(p, c) == {i \in Known(p) : CallerOf(p, i) = c}

(* The smallest functions come first, and only so many of them.            *)
Sooner(p, c, d) ==
  p.size[c] < p.size[d] \/ (p.size[c] = p.size[d] /\ \E i \in Group(p, c) : \A j \in Group(p, d) : i < j)

Selected(p) ==
  LET all == {CallerOf(p, i) : i \in Known(p)}
  IN {c \in all : Cardinality({d \in all : Sooner(p, d, c)}) < MaxCallers}

CutOff(p) == p.fails
Raises(p) == CutOff(p) \/ \E i \in Known(p) : Endless(p, p.sites[i].in)
-----------------------------------------------------------------------------
(* One candidate is taken unseen, several are analysed.                    *)
Sole == world.seek = "socket" /\ Cardinality(Candidates) = 1

Identify ==
  /\ phase = "start"
  /\ IF Sole THEN peer' \in Candidates /\ phase' = "done" /\ UNCHANGED todo
             ELSE todo' = Candidates /\ phase' = "next" /\ UNCHANGED peer
  /\ UNCHANGED <<world, matching, binary, callers, extracted>>

Sorted(p) == {q \in SetToSeqs(Selected(p)) : \A k, l \in DOMAIN q : k < l => Sooner(p, q[k], q[l])}

CallersOf(p) == IF Raises(p) THEN {<< >>} ELSE Sorted(p)

Analyze ==
  /\ phase = "next" /\ phase' = "callers" /\ extracted' = << >>
  /\ \E b \in todo :
     /\ binary' = b /\ todo' = todo \ {b}
     /\ callers' \in CallersOf(world.of[b])
  /\ UNCHANGED <<world, matching, peer>>

(* A large function is executed from close before each of its own calls, a *)
(* small one from its entry; only if that reaches none of its calls, each  *)
(* is tried from close before it and, less exactly, from the entry again.  *)
Inside(p, c) ==
  {i \in Group(p, c) : p.sites[i].in = c /\ p.sites[i].reach \in {"entry", "near"}}

FromEntry(p, c) == {i \in Group(p, c) : p.sites[i].reach = "entry"}

Targeted(p, c) == {i \in Group(p, c) : p.sites[i].reach = "near"}

Simplified(p, c) == {i \in Group(p, c) : p.sites[i].reach = "behind"}

(* Broken variant: what is not reached from the entry is given up. *)
ReachedWhole(p, c) == IF p.size[c] > Large THEN Inside(p, c) ELSE FromEntry(p, c)

Reached(p, c) ==
  IF p.size[c] > Large THEN Inside(p, c) ELSE IF FromEntry(p, c) # {} THEN FromEntry(p, c) ELSE Targeted(p, c) \cup Simplified(p, c)

InOrder(p, c) == p.size[c] > Large \/ FromEntry(p, c) = {}

Execute ==
  /\ phase = "callers" /\ callers # << >>
  /\ \E q \in SetToSeqs(Reached(P, Head(callers))) :
     /\ InOrder(P, Head(callers)) => \A k, l \in DOMAIN q : k < l => q[k] < q[l]
     /\ extracted' = extracted \o q
  /\ callers' = Tail(callers)
  /\ UNCHANGED <<world, todo, matching, binary, phase, peer>>

(* analyze_socket: a path that is not known ends the comparison.           *)
Address(p, i) == IF p.sites[i].addr THEN "addr" ELSE "other"

Value(p, i) == IF p.sites[i].read THEN Address(p, i) ELSE p.guess

UsesAny == extracted # << >>  \* broken variant: any call is enough

Uses ==
  IF world.seek = "shm" THEN extracted # << >>
  ELSE \E k \in DOMAIN extracted :
         Value(P, extracted[k]) = "addr" /\ \A l \in 1 .. k - 1 : Value(P, extracted[l]) # "none"

(* The first executable with shared memory is the peer; every socket is    *)
(* compared before one of them is.                                         *)
JudgeShm ==
  IF Uses THEN peer' = binary /\ phase' = "done" ELSE phase' = "next" /\ UNCHANGED peer

JudgeSocket == phase' = "next" /\ matching' = (IF Uses THEN Append(matching, binary) ELSE matching)

Judge ==
  /\ phase = "callers" /\ callers = << >>
  /\ IF world.seek = "shm" THEN JudgeShm /\ UNCHANGED matching ELSE JudgeSocket /\ UNCHANGED peer
  /\ UNCHANGED <<world, todo, binary, callers, extracted>>

Decide ==
  /\ phase = "next" /\ todo = {}
  /\ IF matching = << >> THEN phase' = "none" /\ UNCHANGED peer ELSE phase' = "done" /\ peer' = matching[1]
  /\ UNCHANGED <<world, todo, matching, binary, callers, extracted>>

Next == Identify \/ Analyze \/ Execute \/ Judge \/ Decide

Spec == Init /\ [][Next]_vars
-----------------------------------------------------------------------------
(* The variables keep their types. *)
TypeOK ==
  /\ world \in Worlds /\ todo \subseteq Candidates /\ binary \in Binaries \cup {NoBinary}
  /\ matching \in Seq(Candidates) /\ extracted \in Seq(Nat)
  /\ (callers # << >> => binary \in Candidates /\ callers \in Seq(Selected(P)))
  /\ phase \in {"start", "next", "callers", "done", "none"} /\ peer \in Binaries \cup {NoBinary}

(* A program has shown the use that is sought: a call that some execution  *)
(* reached, with the address, read or suggested by its strings.            *)
Shown(p) ==
  /\ ~ Raises(p)
  /\ \E i \in Known(p) : p.sites[i].reach # "never" /\ (world.seek = "socket" => Value(p, i) = "addr")

(* The peer that is started by the fix is one whose analysis ran to its    *)
(* end and found the address (or a call for shared memory), not one whose  *)
(* analysis was cut off: only a single candidate is believed unseen.       *)
PeerUsesIt == phase = "done" /\ ~ Sole => Shown(world.of[peer])

(* Why a call that is really made with the address may not be noticed.     *)
NotExecuted(p, i) ==
  LET c == CallerOf(p, i)
  IN \/ p.sites[i].reach = "never"
     \/ c \notin Selected(p)
     \/ p.size[c] > Large /\ (p.sites[i].in # c \/ p.sites[i].reach = "behind")
     \/ ~ p.size[c] > Large /\ p.sites[i].reach # "entry" /\ \E j \in Group(p, c) : p.sites[j].reach = "entry"

NotRead(p, i) ==
  \/ ~ p.sites[i].read /\ p.guess # "addr"
  \/ p.guess = "none" /\ \E j \in Known(p) : ~ p.sites[j].read /\ p.sites[j].reach # "never"

Hidden(p, i) == Raises(p) \/ i \notin Known(p) \/ NotExecuted(p, i) \/ (world.seek = "socket" /\ NotRead(p, i))

Sought(p) == {i \in DOMAIN p.sites : world.seek = "socket" => p.sites[i].addr}

(* When no peer is named, each call that does use the address was out of   *)
(* reach for one of the reasons above: nothing is lost between candidates, *)
(* callers and the ways of execution that are tried in turn.               *)
MatchUnlessHidden == phase = "none" => \A b \in Candidates : \A i \in Sought(world.of[b]) : Hidden(world.of[b], i)
=============================================================================
