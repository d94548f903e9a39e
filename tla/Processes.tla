----------------------------- MODULE Processes -----------------------------
(***************************************************************************)
(* The processes of the firmware and what Rehosting does to them before it *)
(* looks for errors: waiting_all_process waits until the boot comes to a   *)
(* halt, find_error_proc kills whatever the boot hangs on until the target *)
(* is executed, run_binary replaces the target by an instance of its own.  *)
(*                                                                         *)
(* The firmware boots by a script, the child of process 1, that runs one   *)
(* command after the other, waits for each, and starts the target in the   *)
(* background.  A command is a process, or a process with a child, which   *)
(* it waits for or starts again whenever it dies.  Each hangs until it is  *)
(* killed.  A prompt firmware has reacted to a kill when the sleep after   *)
(* it is over; a slow one reacts at any time.                              *)
(***************************************************************************)
EXTENDS Integers, FiniteSets, Sequences, FiniteSetsExt

CONSTANTS Tries,          \* range(0, 15) of find_error_proc
          Rounds,         \* max_time of waiting_all_process
          MaxCommands,    \* bound on the commands that hang,
          MaxSlow,        \* and on those of a slow firmware
          ScriptIsRcS     \* the boot script is one of those the walk passes over

ASSUME BootAssumption ==
  {Tries, Rounds, MaxCommands, MaxSlow} \subseteq Nat /\ Tries > 0 /\ Rounds > 0 /\ MaxSlow <= MaxCommands
ASSUME FlagAssumption == ScriptIsRcS \in BOOLEAN

(* A command that hangs: alone, waiting for a child, starting its child    *)
(* again, or waiting for sleep.  The last command has the target.          *)
Blocker == {"alone", "waits", "watches", "sleeps"}
LastCommand == {"target", "watched", "none"}

VARIABLES boot,      \* the commands of the script
          prompt,
          procs,     \* pid -> [name, parent, kid, watch]
          step,      \* the command that the script has reached
          executed,  \* the names in EXECVE_TRACE
          procPc,
          rounds, showed,          \* waiting_all_process
          tries, lastNode, fresh,  \* find_error_proc: its iteration, last_node, and whether the
                                   \* target was started after the look at the call chain
          killed, killIndex,       \* killed_process_name_set, process_tree_kill_index
          answer, toKill, spared

procVars == <<boot, prompt, procs, step, executed, procPc, rounds, showed, tries, lastNode, fresh, killed,
          killIndex, answer, toKill, spared>>
booted == <<boot, prompt>>
waiting == <<rounds, showed>>
walk == <<tries, lastNode, fresh, killed, killIndex, answer, spared>>

Target == <<0, "target">>
Script == <<0, "script">>
InitBinary == <<0, "init">>
None == <<0, "none">>
ProcNames == (0..MaxCommands + 1) \X {"command", "kid", "sleep", "target", "script", "init", "none"}

Alive(t, name) == \E p \in DOMAIN t : t[p].name = name
Proc(name, parent, kid, watch) == [name |-> name, parent |-> parent, kid |-> kid, watch |-> watch]
NewPid(t) == 1 + Max(DOMAIN t)
Started(t, proc) == [p \in DOMAIN t \cup {NewPid(t)} |-> IF p \in DOMAIN t THEN t[p] ELSE proc]
StartedWith(t, proc, child) == Started(Started(t, proc), Proc(child, NewPid(t), None, FALSE))

(* A child of a dead process becomes a child of process 1, which a kill    *)
(* from inside its own container does not reach.                           *)
Killed(t, dead) ==
  LET left == DOMAIN t \ (dead \ {1})
  IN  [p \in left |-> IF t[p].parent \in left \cup {0} THEN t[p] ELSE [t[p] EXCEPT !.parent = 1]]

ProcInit ==
  /\ prompt \in BOOLEAN
  /\ \E n \in 0..(IF prompt THEN MaxCommands ELSE MaxSlow) :
       \E b \in [1..n -> Blocker], c \in LastCommand : boot = Append(b, c)
  /\ procs = [p \in 1..2 |-> IF p = 1 THEN Proc(InitBinary, 0, None, FALSE) ELSE Proc(Script, 1, None, FALSE)]
  /\ step = 0 /\ executed = {InitBinary, Script} /\ procPc = "wait"
  /\ rounds = 0 /\ showed = {} /\ tries = 0 /\ lastNode = InitBinary /\ fresh = FALSE
  /\ killed = {} /\ killIndex = << >> /\ answer = None /\ toKill = {} /\ spared = TRUE
-----------------------------------------------------------------------------
(* The firmware.                                                           *)
ScriptPid == CHOOSE p \in DOMAIN procs : procs[p].name = Script
Hangs == \E p \in DOMAIN procs : procs[p].name = <<step, "command">>
Kid(i, kind) == <<i, IF kind = "sleeps" THEN "sleep" ELSE "kid">>
Command(i, kind) ==
  IF kind \in Blocker
  THEN LET top == Proc(<<i, "command">>, ScriptPid, IF kind = "alone" THEN None ELSE Kid(i, kind), kind = "watches")
       IN  IF kind = "alone" THEN Started(procs, top) ELSE StartedWith(procs, top, Kid(i, kind))
  ELSE IF kind = "target" THEN Started(procs, Proc(Target, ScriptPid, None, FALSE))
       ELSE StartedWith(procs, Proc(<<i, "kid">>, ScriptPid, Target, TRUE), Target)

NextCommand ==
  /\ Alive(procs, Script) /\ ~Hangs /\ step' = step + 1
  /\ IF step' > Len(boot) \/ boot[step'] = "none"
     THEN procs' = Killed(procs, {ScriptPid})
     ELSE procs' = Command(step', boot[step'])
(* A process whose child has died starts it again, or ends. *)
Bereaved == {p \in DOMAIN procs :
  procs[p].kid # None /\ ~\E q \in DOMAIN procs : procs[q].parent = p /\ procs[q].name = procs[p].kid}
ChildDied(p) ==
  /\ p \in Bereaved /\ UNCHANGED step
  /\ procs' = IF procs[p].watch
              THEN Started(procs, Proc(procs[p].kid, p, None, FALSE))
              ELSE Killed(procs, {p})
Calm == Bereaved = {} /\ (Alive(procs, Script) => Hangs)
InTime == prompt => Calm
FirmwareRuns ==
  /\ procPc # "end"
  /\ NextCommand \/ \E p \in Bereaved : ChildDied(p)
  /\ executed' = executed \cup {procs'[p].name : p \in DOMAIN procs'}
  /\ fresh' = (fresh \/ (Alive(procs', Target) /\ ~Alive(procs, Target)))
  /\ UNCHANGED <<booted, procPc, waiting, tries, lastNode, killed, killIndex, answer, toKill, spared>>

-----------------------------------------------------------------------------
(* waiting_all_process: until no new name shows up, or the target does.    *)
HasCmdline(name) == Alive(procs, name) \/ name \in executed
Showing == {procs[p].name : p \in {q \in DOMAIN procs : procs[q].name[2] # "sleep"}}
Wait ==
  /\ procPc = "wait" /\ InTime
  /\ rounds' = rounds + 1 /\ showed' = Showing
  /\ procPc' = IF HasCmdline(Target) \/ Showing \subseteq showed \/ rounds' = Rounds THEN "look" ELSE "wait"
  /\ UNCHANGED <<booted, procs, step, executed, walk, toKill>>

-----------------------------------------------------------------------------
(* find_error_proc.  get_service_cmdline finds a name among the processes  *)
(* and in EXECVE_TRACE; the chain is the init binary, the script and the   *)
(* target.                                                                 *)
LastAlive == IF Alive(procs, Script) THEN Script ELSE Target
LastExecuted == IF HasCmdline(Target) THEN Target ELSE Script
Found(name) == answer' = name /\ procPc' = (IF name = Script THEN "end" ELSE "collect")

Look ==
  /\ procPc = "look" /\ InTime
  /\ lastNode' = LastExecuted /\ fresh' = FALSE
  /\ IF tries = Tries THEN Found(None) /\ UNCHANGED tries
     ELSE IF lastNode' = Target THEN Found(Target) /\ UNCHANGED tries
     ELSE IF ~Alive(procs, lastNode') THEN Found(lastNode') /\ UNCHANGED tries
     ELSE procPc' = "tree" /\ tries' = tries + 1 /\ UNCHANGED answer
  /\ UNCHANGED <<booted, procs, step, executed, waiting, killed, killIndex, toKill, spared>>

PathTo(t, q) ==
  LET path[p \in DOMAIN t] == IF t[p].parent = 0 THEN <<p>> ELSE Append(path[t[p].parent], p)
  IN  path[q]
Deepest(t) == {p \in DOMAIN t : \A q \in DOMAIN t : Len(PathTo(t, q)) <= Len(PathTo(t, p))}
OnPath(name, path) == \E i \in DOMAIN path : procs[path[i]].name = name

(* From the leaf up to process 1: the first one that is not passed over.   *)
PassedOver(name) == name[2] = "sleep" \/ (name = Script /\ ScriptIsRcS)
IndexOf(dominant) == IF dominant \in DOMAIN killIndex THEN killIndex[dominant] ELSE {}
Noted(dominant, indices) ==
  [d \in DOMAIN killIndex \cup {dominant} |-> IF d = dominant THEN indices ELSE killIndex[d]]
Eligible(path) ==
  {i \in DOMAIN path : /\ ~PassedOver(procs[path[i]].name)
                       /\ procs[path[i]].name \notin killed
                       /\ i \notin IndexOf(path[2])}
Dominant == 2  \* worklist[1]
Victims(pid) == {p \in DOMAIN procs : procs[p].name = procs[pid].name}
KilledNames(pid) == {procs[p].name : p \in Victims(pid)}

NothingToKill == UNCHANGED <<procs, killed, killIndex, spared>>
NoRestart(path) == NothingToKill
Restart(path) ==
  /\ killIndex' = Noted(path[Dominant], {})
  /\ UNCHANGED <<procs, killed, spared>>
KillAt(path, i) ==
  /\ procs' = Killed(procs, Victims(path[i]))
  /\ killed' = killed \cup KilledNames(path[i])
  /\ killIndex' = Noted(path[Dominant], IndexOf(path[Dominant]) \cup {i})
  /\ spared' = (spared /\ (Target \in KilledNames(path[i]) => fresh))
Walk(path) ==
  IF Eligible(path) = {} THEN NothingToKill
  ELSE IF Max(Eligible(path)) = Dominant THEN Restart(path)
  ELSE KillAt(path, Max(Eligible(path)))

(* get_subtree_depth is 0 unless the process lies on the longest path of   *)
(* all, of which networkx returns any.                                     *)
Tree ==
  /\ procPc = "tree" /\ procPc' = "look"
  /\ \E longest, leaf \in Deepest(procs) :
       IF ~OnPath(lastNode, PathTo(procs, longest)) THEN NothingToKill ELSE Walk(PathTo(procs, leaf))
  /\ UNCHANGED <<booted, step, executed, waiting, tries, lastNode, fresh, answer, toKill>>

-----------------------------------------------------------------------------
(* run_binary: the target and the parents of its instances are killed,     *)
(* then it is started by a process of the container.                       *)
Collect ==
  /\ procPc = "collect" /\ toKill' = {p \in DOMAIN procs : procs[p].name = Target} /\ procPc' = "parents"
  /\ UNCHANGED <<booted, procs, step, executed, waiting, walk>>
NoWatchdogs(pids) == {}
Watchdogs(pids) == {procs[p].parent : p \in pids \cap DOMAIN procs} \ {0, 1}
KillByName ==
  /\ procPc = "parents" /\ procs' = Killed(procs, toKill \cup Watchdogs(toKill)) /\ procPc' = "start"
  /\ UNCHANGED <<booted, step, executed, waiting, walk, toKill>>
RunBinary ==
  /\ procPc = "start" /\ InTime /\ procPc' = "end"
  /\ procs' = Started(procs, Proc(Target, 1, None, FALSE))
  /\ UNCHANGED <<booted, step, executed, waiting, walk, toKill>>

ProcNext == FirmwareRuns \/ Wait \/ Look \/ Tree \/ Collect \/ KillByName \/ RunBinary
ProcTerminated == procPc = "end" /\ UNCHANGED procVars
ProcSpec == ProcInit /\ [][ProcNext \/ ProcTerminated]_procVars
-----------------------------------------------------------------------------
(* Processes, call chain and bookkeeping keep their types, and every       *)
(* process but the first is the child of a living one.                     *)
ProcTypeOK ==
  /\ 1 \in DOMAIN procs /\ DOMAIN procs \subseteq Nat
  /\ \A p \in DOMAIN procs :
       procs[p] \in [name : ProcNames, parent : {0} \cup (DOMAIN procs \ {p}), kid : ProcNames, watch : BOOLEAN]
  /\ step \in 0..MaxCommands + 2 /\ executed \subseteq ProcNames
  /\ procPc \in {"wait", "look", "tree", "collect", "parents", "start", "end"}
  /\ rounds \in 0..Rounds /\ showed \subseteq ProcNames /\ tries \in 0..Tries
  /\ lastNode \in ProcNames /\ answer \in ProcNames /\ fresh \in BOOLEAN /\ spared \in BOOLEAN
  /\ killed \subseteq ProcNames /\ toKill \subseteq Nat

(* The walk of find_error_proc gets every boot that hangs on a few         *)
(* processes to start the target, whether they end with their child or     *)
(* start it again: two tries for each of them, three for a watchdog.       *)
Effort ==
  2 * Cardinality({i \in DOMAIN boot : boot[i] \in Blocker}) + Cardinality({i \in DOMAIN boot : boot[i] = "watches"})
Unblocks ==
  prompt /\ Effort < Tries /\ boot[Len(boot)] # "none" /\ procPc \in {"collect", "end"} => answer = Target

(* The walk never kills the target, unless it was started between the look *)
(* at the call chain and that at the process tree.                         *)
TargetSpared == spared

(* run_binary leaves one instance of a target that the firmware runs, its  *)
(* own: the watchdog of the other is killed with it.                       *)
OneTarget ==
  procPc = "end" /\ prompt /\ answer = Target =>
    \E own \in DOMAIN procs : {p \in DOMAIN procs : procs[p].name = Target} = {own}
=============================================================================
