----------------------------- MODULE Greenhouse -----------------------------
(***************************************************************************)
(* The patch loop of Greenhouse, which greenhouse_fix_func hands a service *)
(* over to: run the target in the container of Firmwell, make the files it *)
(* misses, and when that changes nothing any more, patch the instruction   *)
(* at which it waits, exits or crashes.  The loop works on a copy of the   *)
(* file system on the host and copies what it changes into the container.  *)
(*                                                                         *)
(* A firmware is the sequence of obstacles its target meets; it stops at   *)
(* the first that is still there.  What the target does there, whether a   *)
(* patch helps, and what Docker, angr or radare2 fail at is chosen freely. *)
(* nostrict is FALSE: checker.check calls nothing a success that is not    *)
(* wellformed, so the branches of the loop for such a success (the search  *)
(* for a nodaemon flag, the patch taken back) are never taken.             *)
(***************************************************************************)
EXTENDS Integers, Sequences

CONSTANTS Firmware, \* sequences of obstacles
          MaxCycles \* max_cycles

\* a file or a key of nvram, one that initial_setup or setup_cl_args has
\* prepared on the host; a file that exists already, or a folder
Copied == {"file", "key", "prepared"}
Made == Copied \cup {"place"}
\* a relative file that another directory has, and one that none has
Relative == {"cwd", "adrift"}
Seen == Made \cup Relative
\* an address without a probe; what no system call tells, an exit without a branch before it
Obstacle == Seen \cup {"address", "stuck", "dead", "daemon", "crash", "exit", "loop"}

ASSUME FirmwareAssumption == Firmware \subseteq Seq(Obstacle)
ASSUME CycleAssumption == MaxCycles \in Nat /\ MaxCycles > 0

VARIABLES ghPc,
          firmware, patchOnly, \* the target, greenhouse_patch_flag
          count, mode,    \* greenhouse_mode: with strace, or with a trace of the code
          made, patched,  \* the obstacles that the host's files and binary no longer have
          there, running, \* and those of the container
          set,            \* those that urls, ports and bin_cwd settle
          at,             \* where the target of this round stops
          own,            \* what it does there
          holder, good,   \* whose is the port, and whether wellformed pages come from it
          hung,           \* an earlier target still runs, without the port
          exit, timed,    \* exit_code, timedout
          heard,          \* an answer has ended the wait
          seen, last,     \* targets, folders and configs of this round and of the one before
          failed,         \* the trace or an analysis failed
          slipped,        \* docker cp failed once
          missed,         \* a patch did not remove the obstacle
          success

program == <<firmware, patchOnly>>
copies == <<made, patched, there, running>>
round == <<at, own, exit, timed, heard>>
port == <<holder, good, hung>>
mishaps == <<failed, slipped, missed>>
ghVars == <<ghPc, program, count, mode, copies, set, round, port, seen, last, mishaps, success>>

Place == 1 .. Len(firmware)
KindAt(i) == IF i \in Place THEN firmware[i] ELSE "none"
Gone == there \cup running \cup set
Stops(i) == i \in Place => i \notin Gone /\ firmware[i] # "daemon"
Stop == CHOOSE i \in 1 .. Len(firmware) + 1 : Stops(i) /\ \A j \in 1 .. i - 1 : ~ Stops(j)

(* greenhouse_fix_func: the target that Firmwell started is not stopped,   *)
(* and may wait or listen.                                                 *)
LeftByFirmwell == {"none", "old"}
Prepared == {i \in Place : firmware[i] = "prepared"}
GhInit ==
  /\ ghPc = "run" /\ firmware \in Firmware /\ patchOnly \in BOOLEAN
  /\ count = 0 /\ mode = "greenhouse"
  /\ made = Prepared /\ patched = {} /\ there = {} /\ running = {} /\ set = {}
  /\ at = 0 /\ own = "none" /\ exit = "none" /\ timed = FALSE /\ heard = FALSE
  /\ holder \in LeftByFirmwell /\ good = FALSE /\ hung \in BOOLEAN
  /\ seen = {} /\ last = {}
  /\ failed = FALSE /\ slipped = FALSE /\ missed = FALSE /\ success = FALSE
-----------------------------------------------------------------------------
(* QemuRunner.run: the scripts are copied, the log is begun anew and run.sh*)
(* started; what an earlier round has started goes on.  A target may listen*)
(* before it comes to its loop, where it answers no more.                  *)
Fate(i) ==
  CASE KindAt(i) = "crash" -> {"crashes"}
    [] KindAt(i) \in {"exit", "dead"} -> {"exits"}
    [] KindAt(i) = "loop" -> {"loops"} \cup (IF holder = "none" THEN {"jams"} ELSE {})
    [] KindAt(i) = "none" -> IF holder = "none" THEN {"serves"} ELSE {"exits", "hangs"}
    [] OTHER -> {"crashes", "exits", "hangs"} \cup (IF holder = "none" THEN {"listens"} ELSE {})
Code == [o \in {"crashes", "exits", "loops", "jams", "hangs", "listens", "serves"} |->
           IF o = "crashes" THEN "error" ELSE IF o = "exits" THEN "code" ELSE "none"]
(* The daemons that the target starts before it stops: the exit of their   *)
(* parent is an exit code too.                                             *)
Daemons(i) == {j \in Place : j < i /\ firmware[j] = "daemon" /\ j \notin running}
Codes(i, o) == {Code[o]} \cup (IF Daemons(i) = {} THEN {} ELSE {"code"})
RunTarget(o) == IF o \in {"jams", "listens", "serves"} THEN holder' = "own" /\ good' = (o = "serves")
                                               ELSE UNCHANGED <<holder, good>>
ModeAsked == IF patchOnly THEN "patch" ELSE mode
StartRound ==
  /\ ghPc = "run" /\ ghPc' = "wait"
  /\ count' = IF count < MaxCycles THEN count + 1 ELSE count  \* only compared with max_cycles
  /\ mode' = ModeAsked
  /\ at' = Stop /\ own' \in Fate(Stop) /\ exit' \in Codes(Stop, own') /\ timed' = FALSE /\ heard' = FALSE
  /\ RunTarget(own')
  /\ UNCHANGED <<program, copies, set, hung, seen, last, mishaps, success>>

(* An earlier target ends.  Its run.sh appends the exit code to the log of *)
(* the current round, which may have its own already.                      *)
OldEnds ==
  /\ ghPc = "wait"
  /\ \/ hung /\ hung' = FALSE /\ UNCHANGED <<holder, good>>
     \/ holder = "old" /\ holder' = "none" /\ good' = FALSE /\ UNCHANGED hung
  /\ exit' \in {"code", "error"} \cup ({exit} \ {"none"})
  /\ UNCHANGED <<ghPc, program, count, mode, copies, set, at, own, timed, heard, seen, last, mishaps, success>>

(* The wait: an answer, and a request to any address of urls that only     *)
(* times out counts as one, a trace that no longer grows, one that repeats *)
(* itself or still grows at the end of the time, or an exception, which    *)
(* run swallows.                                                           *)
WaitEnds ==
  ghPc = "wait" /\ ghPc' = "judge"
  /\ UNCHANGED <<program, count, mode, copies, set, port, at, own, exit, success>>
Answered == WaitEnds /\ heard' = TRUE /\ UNCHANGED <<timed, seen, last, mishaps>>
Loops == own \in {"loops", "jams"}
StillRuns == Loops \/ own \in {"hangs", "listens", "serves"} \/ Daemons(at) # {}
Stable == WaitEnds /\ ~ Loops /\ UNCHANGED <<timed, heard, seen, last, mishaps>>
TimedOut == WaitEnds /\ StillRuns /\ timed' = TRUE /\ UNCHANGED <<heard, seen, last, mishaps>>
Interrupted == WaitEnds /\ failed' = TRUE /\ UNCHANGED <<timed, heard, seen, last, slipped, missed>>

(* The cleanup of run looks for the path on the host among the processes   *)
(* of the container, where no command line has it: nothing is killed.      *)
LeftOver ==
  /\ hung' = (hung \/ own \in {"loops", "hangs"})
  /\ holder' = IF holder = "own" THEN "old" ELSE holder
  /\ UNCHANGED good
-----------------------------------------------------------------------------
(* fw_patch_loop after the run: convert, parse, check.                     *)
NoTrace ==
  /\ ghPc = "judge" /\ failed /\ ghPc' = "done"
  /\ UNCHANGED <<program, count, mode, copies, set, round, port, seen, last, mishaps, success>>
Connected == heard
Good == heard /\ good
Wellformed ==
  /\ ghPc = "judge" /\ ~ failed /\ Good /\ success' = TRUE /\ ghPc' = "done"
  /\ UNCHANGED <<program, count, mode, copies, set, round, port, seen, last, mishaps>>
(* Targets and folders show with strace only.  Of the keys the container   *)
(* keeps a list, which names those that have been made since.              *)
Parsed == {i \in Place : \/ i <= at /\ firmware[i] = "key"
                         \/ i = at /\ mode = "greenhouse" /\ firmware[i] \in Seen}
Malformed ==
  /\ ghPc = "judge" /\ ~ failed /\ ~ Good
  /\ last' = seen /\ seen' = Parsed
  /\ ghPc' = IF patchOnly THEN "patch" ELSE "arrange"
  /\ UNCHANGED <<program, count, mode, copies, set, round, port, mishaps, success>>

(* check_cwd reports a change whenever another directory has the file, the *)
(* one in use already included.  An address is probed in the next round,   *)
(* and no change: new_ips is overwritten by the addresses in nvram, which  *)
(* are new only with their key.                                            *)
Changed == \E i \in seen : KindAt(i) \in Relative
Settled == {i \in {at} : KindAt(i) = "address" \/ (KindAt(i) = "cwd" /\ i \in seen)}
Arranged == set' = set \cup Settled

(* transplant, and the files copied to the container that initial_files    *)
(* does not have, those of earlier rounds again; a copy may fail.  Though   *)
(* nothing is left, a card address that nvram tells for the first time, or *)
(* other accesses that failed, start another round of the kind.            *)
Transplanted == made \cup {i \in seen : KindAt(i) \in Made}
NewFiles(files) == {i \in files : KindAt(i) \in Copied}
Copy(files) ==
  /\ there' \in {there \cup f : f \in SUBSET NewFiles(files)}
  /\ slipped' = (slipped \/ ~ NewFiles(files) \subseteq there')
Unchanged == seen = {} \/ seen = last
Exhausted == ~ Changed /\ Unchanged
ReachedInPatching == mode = "patch" /\ count >= MaxCycles
MaxCyclesReached == count >= MaxCycles
Transplant ==
  /\ ghPc = "arrange" /\ mode = "greenhouse" /\ ~ MaxCyclesReached
  /\ Arranged /\ made' = Transplanted /\ Copy(made')
  /\ mode' \in (IF Exhausted THEN {mode, "patch"} ELSE {mode}) /\ ghPc' = "run" /\ LeftOver
  /\ UNCHANGED <<program, count, patched, running, round, seen, last, failed, missed, success>>
StopTrying ==
  /\ ghPc = "arrange" /\ MaxCyclesReached /\ Arranged /\ ghPc' = "done"
  /\ UNCHANGED <<program, count, mode, copies, round, port, seen, last, mishaps, success>>
GoPatching ==
  /\ ghPc = "arrange" /\ mode = "patch" /\ ~ MaxCyclesReached /\ Arranged /\ ghPc' = "patch"
  /\ UNCHANGED <<program, count, mode, copies, round, port, seen, last, mishaps, success>>
-----------------------------------------------------------------------------
(* Patcher: what applies is tried in the order of its priority until one   *)
(* succeeds.  Of the exit code nothing tells whose it is.                  *)
DaemonFork == Daemons(at) # {} /\ patched' = patched \cup Daemons(at) /\ UNCHANGED missed
CrashesAlone == ~ timed /\ exit = "error"
PrematureExit == ~ timed /\ exit # "none"
WaitLoop == timed
CrashingInstr == ~ timed /\ exit = "error"
Diagnosed == PrematureExit \/ WaitLoop \/ CrashingInstr
Avoided == PrematureExit /\ own = "exits" /\ KindAt(at) # "dead"
Left == WaitLoop /\ Loops
Skipped == CrashingInstr /\ own = "crashes"
OtherPatch ==
  \/ at \in Place /\ (Avoided \/ Left \/ Skipped) /\ patched' = patched \cup {at} /\ UNCHANGED missed
  \/ Diagnosed /\ missed' = TRUE /\ UNCHANGED patched
CopyBinary ==
  \/ running' = patched' /\ UNCHANGED slipped
  \/ UNCHANGED running /\ slipped' = TRUE
StayPatching == "patch"
ModeAfterPatch == IF patchOnly THEN "patch" ELSE "greenhouse"
Patch ==
  /\ ghPc = "patch" /\ (DaemonFork \/ OtherPatch)
  /\ CopyBinary /\ mode' = ModeAfterPatch /\ ghPc' = "run" /\ LeftOver
  /\ UNCHANGED <<program, count, made, there, set, round, seen, last, failed, success>>
NoTrunk == failed' = TRUE /\ UNCHANGED <<slipped, missed>>
Unpatched == Daemons(at) = {} /\ ~ (Diagnosed /\ KindAt(at) \in {"crash", "exit", "loop"}) /\ UNCHANGED mishaps
NoPatch ==
  /\ ghPc = "patch" /\ ghPc' = "done" /\ (NoTrunk \/ Unpatched)
  /\ UNCHANGED <<program, count, mode, copies, set, round, port, seen, last, success>>

GhNext ==
  \/ StartRound \/ OldEnds \/ Answered \/ Stable \/ TimedOut \/ Interrupted
  \/ NoTrace \/ Wellformed \/ Malformed \/ Transplant \/ StopTrying \/ GoPatching \/ Patch \/ NoPatch
GhTerminated == ghPc = "done" /\ UNCHANGED ghVars
GhSpec == GhInit /\ [][GhNext \/ GhTerminated]_ghVars /\ WF_ghVars(GhNext)
-----------------------------------------------------------------------------
GhTypeOK ==
  /\ ghPc \in {"run", "wait", "judge", "arrange", "patch", "done"} /\ firmware \in Firmware
  /\ count \in 0 .. MaxCycles /\ mode \in {"greenhouse", "patch"}
  /\ {made, patched, there, running, set, seen, last} \subseteq SUBSET Place
  /\ at \in 0 .. Len(firmware) + 1 /\ own \in DOMAIN Code \cup {"none"}
  /\ exit \in {"none", "code", "error"} /\ holder \in {"none", "old", "own"}
  /\ {patchOnly, timed, heard, good, hung, failed, slipped, missed, success} \subseteq BOOLEAN

(* The binary is not patched around a file, a key or a working directory  *)
(* that the loop could have provided, unless the round before has found    *)
(* nothing but an address: transplants come first.                         *)
Provided == Copied \cup {"cwd"}
AfterAddress == \E i \in set : i < at /\ KindAt(i) = "address"
PatchIsLast == ghPc = "patch" /\ ~ patchOnly /\ ~ slipped => KindAt(at) \notin Provided \/ AfterAddress

(* What was once seen to serve wellformed pages starts and serves in every *)
(* later run of that container, whichever target it was that answered.     *)
SuccessRunsAgain == success => KindAt(Stop) = "none"

(* The loop gives up only when an analysis or a copy has failed, a patch   *)
(* has missed, the obstacle is out of its reach, the cycles are spent, or  *)
(* this target met none and found the port taken or served too late; when  *)
(* an answer, perhaps of an earlier target or a mere time-out, has ended   *)
(* the wait before its loop was seen; or when the round before found       *)
(* nothing but an address.                                                 *)
BeyondPatch ==
  KindAt(at) \in {"stuck", "dead", "place", "adrift"} \cup (IF patchOnly THEN Seen \cup {"address"} ELSE {})
CutShort == heard /\ ~ timed /\ exit = "none" /\ KindAt(at) = "loop"
GivesUpForCause ==
  ghPc = "done" /\ ~ success =>
    \/ failed \/ missed \/ slipped \/ BeyondPatch
    \/ ~ patchOnly /\ count = MaxCycles
    \/ CutShort
    \/ KindAt(at) = "none" \/ AfterAddress

(* The loop ends, by max_cycles at the latest, unless only patches are     *)
(* asked for: greenhouse_patch_flag passes over the test of max_cycles.    *)
Ends == patchOnly \/ <>(ghPc = "done")
=============================================================================
