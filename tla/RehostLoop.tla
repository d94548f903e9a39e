----------------------------- MODULE RehostLoop -----------------------------
(***************************************************************************)
(* One firmwell.py process from Rehosting.run to its verdict: starting the *)
(* rehosting container, the fix rounds, the errors ErrorLocator finds, the *)
(* recursion into peer processes (rehosting_binary), the export and the    *)
(* removal of the container.  User mode, without the Redis lock.           *)
(*                                                                         *)
(* The program is sequential; what is chosen freely is everything it       *)
(* observes: whether a container comes up, what find_error_proc answers,   *)
(* what a trace shows, whether a probe of the web service succeeds, and    *)
(* which call into Docker raises.                                          *)
(***************************************************************************)
EXTENDS Integers, Sequences, FiniteSets

CONSTANTS Service,        \* the binaries that may be run: the target and its helpers
          Target,         \* httpd_path
          Device,         \* network devices the firmware may miss
          SysFile,        \* files a fix may fill (fill_file_content)
          LibFile,        \* files a fix may supply in another way (reuse_file, ...)
          SocketFd,       \* descriptors on which a connect may fail
          Nobody, NoError,
          MaxRounds,      \* 10 in the code
          FallbackRound,  \* 5 in the code
          HasProcd,       \* the firmware has procd
          Baseline,       \* --baseline
          FixEnabled,     \* enable_3_3
          Export          \* --export

ASSUME ServiceAssumption == Target \in Service /\ Nobody \notin Service
ASSUME RoundAssumption == MaxRounds \in Nat \ {0} /\ FallbackRound \in Nat
ASSUME FlagAssumption == {HasProcd, Baseline, FixEnabled, Export} \subseteq BOOLEAN

EnvTries == 3    \* range(0, 3) of run
StartTries == 2  \* range(0, 2) of start_env
Iterations == 2  \* range(0, 2) of rehosting_binary

Box == 1..(EnvTries * StartTries)  \* the containers of a run, in the order of their creation

(* The errors locate_errors tells apart, by fix_strategy and the key that  *)
(* _is_same_error compares; peer is peer_process_name.                     *)
Err(strategy, key, peer) == [strategy |-> strategy, key |-> key, peer |-> peer]
Net(devices) == Err("create_network_device", devices, Nobody)
Fill(f) == Err("fill_file_content", f, Nobody)
Supply(f) == Err("reuse_file", f, Nobody)
Magic(f) == Err("infer_magic_byte", f, Nobody)
Socket(fd, s) == Err("fix_ipc_socket_service", fd, s)
Shm(s) == Err("fix_shared_memory", "shmat", s)

FileFailure == {Fill(f) : f \in SysFile} \cup {Supply(f) : f \in LibFile}
SocketFailure == {Socket(fd, s) : fd \in SocketFd, s \in Service}
ShmFailure == {Shm(s) : s \in Service}
Failure == {Net({d}) : d \in Device} \cup FileFailure \cup SocketFailure \cup ShmFailure
Error == Failure \cup {Net(d) : d \in SUBSET Device} \cup {Magic(f) : f \in SysFile}

(* Neither the peer nor, for shared memory, the process is compared. *)
IsSameError(e, f) == e.strategy = f.strategy /\ e.key = f.key

ASSUME NoErrorAssumption == \A e \in Error : ~IsSameError(NoError, e)

VARIABLES
  pc,
  envtry, starttry,  \* the loops of run and start_env
  env,               \* self.env: the container rehosting works in, 0 if none yet
  manager,           \* self.docker_manager: the container created last
  box,               \* what became of each container
  round,             \* of the fix loop
  err,               \* error_process_cmdline
  cmdline,           \* self.httpd_cmdline is set
  frames,            \* the calls of rehosting_binary, the innermost last
  located,           \* self.located_errors: the errors of each service and the last answer
  cand,              \* candidate
  ret,               \* what the last rehosting_binary returned
  quiet,             \* self.global_not_found_error
  devices, netinfo,  \* the container's network and self.network_info
  verdict,           \* the checker's urlchecks hold a wellformed answer
  wellformed,        \* the local variable of run
  exitcode,
  (* auxiliary *)
  fresh,             \* no process was killed or started since the last probe
  exported, saved,   \* the export is in /tmp/<name>_rehosted; and in outpath
  status             \* REHOST STATUS

inEnv == <<envtry, starttry, env, manager, box>>
inRound == <<round, err, cmdline>>
inCall == <<frames, located, cand, ret, quiet>>
network == <<devices, netinfo>>
web == <<verdict, fresh>>
outcome == <<wellformed, exitcode, exported, saved, status>>
vars == <<pc, inEnv, inRound, inCall, network, web, outcome>>

Frame == [service : Service, iter : 1..Iterations, notfound : BOOLEAN]

TypeOK ==
  /\ pc \in {"start", "wait", "first", "find", "probe", "dispatch", "run", "locate", "fix",
             "settle", "result", "check", "export", "cleanup", "verify", "report", "done"}
  /\ envtry \in 1..EnvTries /\ starttry \in 1..StartTries
  /\ env \in Box \cup {0} /\ manager \in Box \cup {0}
  /\ box \in [Box -> {"absent", "running", "stopped"}]
  /\ round \in 0..MaxRounds
  /\ err \in Service \cup {Nobody, "init_bash"}
  /\ frames \in Seq(Frame)
  /\ located \in [Service -> [fixed : SUBSET Error, last : Error \cup {NoError}]]
  /\ cand \in Error \cup {NoError}
  /\ ret \in {"none", "true", "false"}
  /\ devices \subseteq Device /\ netinfo \subseteq Device
  /\ {cmdline, quiet, verdict, fresh, wellformed, exported, saved} \subseteq BOOLEAN
  /\ exitcode \in {0, 1}
  /\ status \in {"none", "SUCCESS", "PARTIAL"}

Init ==
  /\ pc = "start"
  /\ envtry = 1 /\ starttry = 1 /\ env = 0 /\ manager = 0
  /\ box = [b \in Box |-> "absent"]
  /\ round = 0 /\ err = Nobody /\ cmdline = FALSE
  /\ frames = <<>>
  /\ located = [s \in Service |-> [fixed |-> {}, last |-> NoError]]
  /\ cand = NoError /\ ret = "none" /\ quiet = FALSE
  /\ devices = {} /\ netinfo = {}
  /\ verdict = FALSE /\ fresh = FALSE
  /\ wellformed = FALSE /\ exitcode = 0
  /\ exported = FALSE /\ saved = FALSE /\ status = "none"

At(step) == pc = step
Goto(step) == pc' = step

-----------------------------------------------------------------------------
(* The container. *)

NewBox == (envtry - 1) * StartTries + starttry

(* waiting_is_running answers True: self.env is the new container. *)
EnvStarts ==
  /\ At("start")
  /\ box' = [box EXCEPT ![NewBox] = "running"]
  /\ manager' = NewBox /\ env' = NewBox
  /\ Goto("wait")
  /\ UNCHANGED <<envtry, starttry, inRound, inCall, network, web, outcome>>

(* The container exited, or did not come up in ten polls.  A second        *)
(* failure is not reported: run goes on with whatever self.env is.         *)
EnvFails ==
  /\ At("start")
  /\ box' = [box EXCEPT ![NewBox] = "stopped"]
  /\ manager' = NewBox
  /\ IF starttry < StartTries
     THEN starttry' = starttry + 1 /\ UNCHANGED pc
     ELSE Goto("wait") /\ UNCHANGED starttry
  /\ UNCHANGED <<envtry, env, inRound, inCall, network, web, outcome>>

EnvIsUp == env # 0 /\ box[env] = "running"

(* Broken variant: only what has stopped by itself is removed. *)
PruneOnly(b) == [x \in Box |-> IF box[x] = "stopped" THEN "absent" ELSE box[x]]

(* kill, remove, `docker system prune': every stopped container goes too. *)
Removed(b) == [x \in Box |-> IF x = b \/ box[x] = "stopped" THEN "absent" ELSE box[x]]

(* procd did not start: remove the container and try again, but not in the *)
(* last attempt.                                                           *)
RestartForProcd ==
  /\ At("wait") /\ EnvIsUp
  /\ HasProcd /\ envtry < EnvTries
  /\ box' = Removed(manager)
  /\ envtry' = envtry + 1 /\ starttry' = 1
  /\ Goto("start")
  /\ UNCHANGED <<env, manager, inRound, inCall, network, web, outcome>>

ServicesAreUp ==
  /\ At("wait") /\ EnvIsUp
  /\ Goto("first")
  /\ UNCHANGED <<inEnv, inRound, inCall, network, web, outcome>>

-----------------------------------------------------------------------------
(* The fix rounds. *)

(* reconfig_network: what network_info does not name is deleted, unless    *)
(* the command is lost, and what it names is created; it works on a        *)
(* snapshot and deletes Docker networks with all that use them, so it may  *)
(* fail to create a device and take away one that was right (Network).     *)
Reconfigure == devices' \in SUBSET (devices \cup netinfo)

(* Broken variant: no need to probe a service that answered before. *)
ProbeUnlessWellformed ==
  IF verdict THEN UNCHANGED web ELSE verdict' \in BOOLEAN /\ fresh' = TRUE

(* checker.probe and its strict check *)
Probe == verdict' \in BOOLEAN /\ fresh' = TRUE

(* Broken variant: `while True' instead of range(0, 10). *)
NextRoundForever == Goto("find") /\ UNCHANGED round

NextRound ==
  /\ round' = round + 1
  /\ IF round + 1 < MaxRounds THEN Goto("find") ELSE Goto("check")

(* "success without any fix"; --baseline stops here either way *)
FirstProbe ==
  /\ At("first")
  /\ Probe
  /\ IF verdict' \/ Baseline THEN Goto("check") ELSE Goto("find")
  /\ UNCHANGED <<inEnv, inRound, inCall, network, outcome>>

(* find_error_proc: with self.httpd_cmdline set, get_service_cmdline       *)
(* answers for the target at once; otherwise blocking processes may be     *)
(* killed on the way to an answer.                                         *)
FindErrorProc ==
  /\ At("find")
  /\ IF cmdline
     THEN err' = Target /\ UNCHANGED fresh
     ELSE /\ err' \in Service \cup {Nobody, "init_bash"}
          /\ fresh' = FALSE
  /\ Goto("probe")
  /\ UNCHANGED <<inEnv, round, cmdline, inCall, network, verdict, outcome>>

(* "success after kill" *)
ProbeAfterKill ==
  /\ At("probe")
  /\ Reconfigure
  /\ Probe
  /\ IF verdict' THEN Goto("check") ELSE Goto("dispatch")
  /\ UNCHANGED <<inEnv, inRound, inCall, netinfo, outcome>>

(* init_bash located again: run it and go to the next round *)
RerunInitBash ==
  /\ At("dispatch")
  /\ err = "init_bash"
  /\ fresh' = FALSE
  /\ NextRound
  /\ UNCHANGED <<inEnv, err, cmdline, inCall, network, verdict, outcome>>

(* The services rehosting_binary is called for: the error process, the     *)
(* target if there is none or it is busybox, or in FallbackRound if the    *)
(* target has no command line.                                             *)
Dispatch ==
  /\ At("dispatch")
  /\ err # "init_bash"
  /\ \E s \in Service :
       /\ \/ s = err
          \/ s = Target /\ (err = Nobody \/ (round = FallbackRound /\ ~cmdline))
       /\ err' = s
       /\ cmdline' = (cmdline \/ s = Target)
       /\ frames' = <<[service |-> s, iter |-> 1, notfound |-> FALSE]>>
  /\ Goto("run")
  /\ UNCHANGED <<inEnv, round, located, cand, ret, quiet, network, web, outcome>>

-----------------------------------------------------------------------------
(* rehosting_binary. *)

Depth == Len(frames)
Top == frames[Depth]

(* Leave the innermost call: its caller, if it is a rehosting_binary too,  *)
(* does not look at the value.                                             *)
Return(value) ==
  /\ frames' = SubSeq(frames, 1, Depth - 1)
  /\ ret' = value
  /\ IF Depth > 1 THEN Goto("settle") ELSE Goto("result")

(* run_binary, perhaps twice after status 400: network_info is restored,   *)
(* the service started, and the checker answers.                           *)
StartAndProbe == Reconfigure /\ Probe

RunBinary ==
  /\ At("run")
  /\ StartAndProbe
  /\ IF verdict'
     THEN Return("true")
     ELSE IF ~FixEnabled
     THEN Return("false")
     ELSE Goto("locate") /\ UNCHANGED <<frames, ret>>
  /\ UNCHANGED <<inEnv, inRound, located, cand, quiet, netinfo, outcome>>

(* found_peer_process *)
FoundPeerProcess(depth) == depth = 1

IsErrorFixed(s, e) == \E f \in located[s].fixed : IsSameError(e, f)

(* locate_errors: the first class, in this order, that holds an error; the *)
(* missing devices of the whole log are the one class that is not compared *)
(* with the errors located before.                                         *)
Candidates(s, lastfile, missing, failing) ==
  LET unfixed(errors) == {e \in failing \cap errors : ~IsErrorFixed(s, e)}
      peers(errors) == IF FoundPeerProcess(Depth) THEN unfixed(errors) ELSE {}
      classes == << {Magic(f) : f \in {f \in lastfile : located[s].last = Fill(f)}},
                    unfixed({Net({d}) : d \in missing}),
                    IF missing = {} THEN {} ELSE {Net(missing)},
                    unfixed(FileFailure),
                    peers(SocketFailure),
                    peers(ShmFailure) >>
      found == {i \in DOMAIN classes : classes[i] # {}}
  IN  IF found = {} THEN {NoError} ELSE classes[CHOOSE i \in found : \A j \in found : i <= j]

(* The trace of the run: the system files it read last, the devices it     *)
(* missed, the calls that failed.                                          *)
Locate ==
  /\ At("locate")
  /\ \E lastfile \in SUBSET SysFile, missing \in SUBSET (Device \ devices), failing \in SUBSET Failure :
       cand' \in Candidates(Top.service, lastfile, missing, failing)
  /\ located' = [located EXCEPT ![Top.service] =
                   [fixed |-> IF cand' = NoError THEN @.fixed ELSE @.fixed \cup {cand'},
                    last |-> cand']]
  /\ Goto("fix")
  /\ UNCHANGED <<inEnv, inRound, frames, ret, quiet, network, web, outcome>>

InPeer(e) == e.strategy \in {"fix_ipc_socket_service", "fix_shared_memory"}

(* fixer.apply_fix; whether it worked is not looked at.  A device is given *)
(* a Docker network of its own, and any other of that subnet is deleted    *)
(* with the device that uses it.                                           *)
ApplyFix ==
  /\ At("fix")
  /\ cand # NoError /\ ~InPeer(cand) /\ cand.strategy # "infer_magic_byte"
  /\ IF cand.strategy = "create_network_device"
     THEN \E gone \in SUBSET devices, d \in SUBSET cand.key : devices' = (devices \ gone) \cup d
     ELSE UNCHANGED devices
  /\ quiet' = FALSE
  /\ Goto("settle")
  /\ UNCHANGED <<inEnv, inRound, frames, located, cand, ret, netinfo, web, outcome>>

(* apply_fix: an exception in a strategy is exit(1) *)
FixExits ==
  /\ At("fix")
  /\ cand # NoError /\ ~InPeer(cand) /\ cand.strategy # "infer_magic_byte"
  /\ exitcode' = 1
  /\ Goto("cleanup")
  /\ UNCHANGED <<inEnv, inRound, inCall, network, web, wellformed, exported, saved, status>>

(* pc_trace run, whose result is dropped, then infer_magic_bytes *)
InferMagicByte ==
  /\ At("fix")
  /\ cand # NoError /\ cand.strategy = "infer_magic_byte"
  /\ Reconfigure
  /\ Probe
  /\ Goto("settle")
  /\ UNCHANGED <<inEnv, inRound, inCall, netinfo, outcome>>

(* The peer is noted in bg_cmds, for the export, right before the call.    *)
RehostPeer ==
  /\ At("fix")
  /\ cand # NoError /\ InPeer(cand)
  /\ frames' = Append(frames, [service |-> cand.peer, iter |-> 1, notfound |-> FALSE])
  /\ cmdline' = (cmdline \/ cand.peer = Target)
  /\ Goto("run")
  /\ UNCHANGED <<inEnv, round, err, located, cand, ret, quiet, network, web, outcome>>

(* "No error found in strace, rerun without fix" *)
NothingFound ==
  /\ At("fix")
  /\ cand = NoError
  /\ frames' = [frames EXCEPT ![Depth].notfound = TRUE]
  /\ Goto("settle")
  /\ UNCHANGED <<inEnv, inRound, located, cand, ret, quiet, network, web, outcome>>

(* Broken variant: the network of the start stays the one to restore. *)
ForgetNetwork == UNCHANGED netinfo

(* self.network_info = self.env.network.get_network_info() *)
SaveNetwork == netinfo' = devices

(* `continue': a second iteration, or the end of the loop and None *)
Iterate ==
  IF Top.iter < Iterations
  THEN /\ frames' = [frames EXCEPT ![Depth].iter = @ + 1]
       /\ Goto("run")
       /\ UNCHANGED ret
  ELSE Return("none")

(* The end of an iteration. *)
Settle ==
  /\ At("settle")
  /\ SaveNetwork
  /\ IF ~Top.notfound
     THEN Return("none") /\ UNCHANGED quiet
     ELSE IF quiet
     THEN Return("false") /\ UNCHANGED quiet
     ELSE Iterate /\ quiet' = TRUE
  /\ UNCHANGED <<inEnv, inRound, located, cand, devices, web, outcome>>

(* "success or no error to fix", or the next round *)
Result ==
  /\ At("result")
  /\ IF ret # "none" /\ err = Target
     THEN Goto("check") /\ UNCHANGED round
     ELSE NextRound
  /\ UNCHANGED <<inEnv, err, cmdline, inCall, network, web, outcome>>

-----------------------------------------------------------------------------
(* After the rounds. *)

Check ==
  /\ At("check")
  /\ wellformed' = verdict
  /\ IF verdict /\ Export THEN Goto("export") ELSE Goto("cleanup")
  /\ UNCHANGED <<inEnv, inRound, inCall, network, web, exitcode, exported, saved, status>>

(* export_rehosting_container; its exceptions are printed *)
ExportContainer ==
  /\ At("export")
  /\ exported' \in BOOLEAN
  /\ Goto("cleanup")
  /\ UNCHANGED <<inEnv, inRound, inCall, network, web, wellformed, exitcode, saved, status>>

(* An exception out of any call into Docker or the checker; out of         *)
(* start_rehosting_env also with the new container already running, out of *)
(* a probe with the earlier answers already cleared.                       *)
Raise ==
  /\ pc \notin {"export", "cleanup", "verify", "report", "done"}
  /\ IF At("start") THEN \E b \in {"absent", "stopped", "running"} : box' = [box EXCEPT ![NewBox] = b]
     ELSE UNCHANGED box
  /\ verdict' \in (IF pc \in {"first", "probe", "run", "fix"} THEN {verdict, FALSE} ELSE {verdict})
  /\ Goto("cleanup")
  /\ UNCHANGED <<envtry, starttry, env, manager, inRound, inCall, network, fresh, outcome>>

(* Broken variant: no `finally', an exit skips the removal. *)
CleanupUnlessExit ==
  /\ At("cleanup")
  /\ box' = IF env = 0 \/ exitcode # 0 THEN box ELSE Removed(env)
  /\ IF exitcode = 0 THEN Goto("verify") ELSE Goto("done")
  /\ UNCHANGED <<envtry, starttry, env, manager, inRound, inCall, network, web, outcome>>

(* finally: env.remove_docker() *)
Cleanup ==
  /\ At("cleanup")
  /\ box' = IF env = 0 THEN box ELSE Removed(env)
  /\ IF exitcode = 0 THEN Goto("verify") ELSE Goto("done")
  /\ UNCHANGED <<envtry, starttry, env, manager, inRound, inCall, network, web, outcome>>

(* Broken variant: an export that is not there is passed over. *)
VerifyAnyway ==
  /\ At("verify")
  /\ verdict /\ Export
  /\ saved' \in {exported, FALSE} /\ Goto("report")
  /\ UNCHANGED <<inEnv, inRound, inCall, network, web, wellformed, exitcode, exported, status>>

(* run_rehosting: the export is started and a new checker probes it, at    *)
(* two addresses; without the export's directory this raises.              *)
VerifyExport ==
  /\ At("verify")
  /\ verdict /\ Export
  /\ \/ exported /\ saved' \in BOOLEAN /\ Goto("report") /\ UNCHANGED exitcode
     \/ exitcode' = 1 /\ Goto("done") /\ UNCHANGED saved
  /\ UNCHANGED <<inEnv, inRound, inCall, network, web, wellformed, exported, status>>

NothingToVerify ==
  /\ At("verify")
  /\ ~(verdict /\ Export)
  /\ Goto("report")
  /\ UNCHANGED <<inEnv, inRound, inCall, network, web, outcome>>

(* The checker's last answers again *)
Report ==
  /\ At("report")
  /\ status' = IF verdict THEN "SUCCESS" ELSE "PARTIAL"
  /\ Goto("done")
  /\ UNCHANGED <<inEnv, inRound, inCall, network, web, wellformed, exitcode, exported, saved>>

Done == At("done") /\ UNCHANGED vars

EnvNext == EnvStarts \/ EnvFails \/ RestartForProcd \/ ServicesAreUp
RoundNext == FirstProbe \/ FindErrorProc \/ ProbeAfterKill \/ RerunInitBash \/ Dispatch \/ Result
CallNext == RunBinary \/ Locate \/ ApplyFix \/ FixExits \/ InferMagicByte \/ RehostPeer
              \/ NothingFound \/ Settle
EndNext == Check \/ ExportContainer \/ Raise \/ Cleanup \/ VerifyExport \/ NothingToVerify
             \/ Report \/ Done

Next == EnvNext \/ RoundNext \/ CallNext \/ EndNext

Spec == Init /\ [][Next]_vars

(* Supposed of the calls: each returns or raises.  Requests to Docker have *)
(* a timeout, those of a login to the web service do not (HttpCheck).      *)
FairSpec == Spec /\ WF_vars(Next)
-----------------------------------------------------------------------------
(* No peer of a peer is ever run, whatever its trace shows: the recursion  *)
(* of rehosting_binary ends, and a service that is its own peer does not   *)
(* call itself for ever.                                                   *)
OnlyOnePeerDeep == Len(frames) <= 2

(* Restarts for procd and failed starts never leave two containers of the  *)
(* same firmware running side by side on its addresses.                    *)
AtMostOneRunning ==
  \A b, c \in Box : box[b] = "running" /\ box[c] = "running" => b = c

(* A saved image is the export of a container that was found wellformed    *)
(* and removed: it never runs beside the container it was taken from.      *)
SavedRunsAlone == saved => wellformed /\ \A b \in Box : box[b] # "running"

(* The status is decided by the answers the checker gave last, also after  *)
(* an exception or a failed export; nevertheless, with --export, SUCCESS   *)
(* is only reported of a run that came to its end with a wellformed answer *)
(* and has left an export (in a /tmp that was empty before).               *)
SuccessIsExported == status = "SUCCESS" /\ Export => exported /\ wellformed

(* However run ends (success, ten rounds, an exception, exit(1) inside a   *)
(* fix), the container it worked in is gone.                               *)
EnvRemoved == At("done") /\ env # 0 => box[env] = "absent"

(* A positive answer that is exported or recorded as wellformed was given  *)
(* after the last process was killed or started by find_error_proc.        *)
VerdictFresh == pc \in {"check", "export"} /\ verdict => fresh

(* Whenever reconfig_network is called next, by this call of               *)
(* rehosting_binary, by its caller or in a later round, network_info names *)
(* every device a fix has created and the container still has: it is never *)
(* told to delete one.                                                     *)
FixesAreSaved ==
  pc \in {"probe", "run"} \/ (At("fix") /\ cand.strategy = "infer_magic_byte") => devices \subseteq netinfo

(* Once the target's command line is known every later round works on it,  *)
(* even if it became known inside the call for another process.            *)
TargetSticks == [][cmdline /\ err' # err => err' = Target]_vars

(* A run ends with a verdict, whatever the firmware does, if every call    *)
(* returns.                                                                *)
Terminates == <>At("done")

-----------------------------------------------------------------------------
(* What the repository says of the rehosting, without missing devices.     *)

(* "Locate the next unfixed error": an error that was located before is    *)
(* not returned again.                                                     *)
LocatedIsUnfixed ==
  [][At("locate") /\ pc' = "fix" => \A e \in located[Top.service].fixed : ~IsSameError(cand', e)]_vars
=============================================================================
