----------------------------- MODULE SystemMode -----------------------------
(***************************************************************************)
(* System mode: QemuSysRunner starts a whole virtual machine from an image *)
(* of the firmware, talks to its serial console and configures its network,*)
(* and Rehosting.start_env and run try again with a new runner when that   *)
(* fails.  With Fuzz the variant of sys_fuzz/, which starts qemu under a   *)
(* fuzzer.                                                                 *)
(*                                                                         *)
(* The guest and the host are chosen freely: whether qemu survives its     *)
(* start, when the console answers, in which subnets the firmware puts br0,*)
(* whether a ping answers that may, and when Python collects an old runner.*)
(***************************************************************************)
EXTENDS Integers, FiniteSets

CONSTANTS Subnet,   \* /24 networks
          Wanted,   \* the subnet of initial_network_config["br0"]
          NoNet,
          HasProcd, \* the firmware has procd: run may restart the environment
          Fuzz,     \* SYS_FUZZ
          EnvTries, \* range(0, 3) of run
          MaxLooks  \* bound on the tries of one wait (the timeout of 240 s)

ASSUME SubnetAssumption == Wanted \in Subnet /\ NoNet \notin Subnet
ASSUME FlagAssumption == {HasProcd, Fuzz} \subseteq BOOLEAN
ASSUME BoundAssumption == {EnvTries, MaxLooks} \subseteq Nat /\ EnvTries > 0

Restarts == 2    \* max_restart_attempts
StartTries == 2  \* range(0, 2) of start_env
Runner == 0..(StartTries * EnvTries)
Machine == 1..(Restarts + 1)  \* by the attempt that started it; a new runner kills them all

VARIABLES pc,
          try,      \* the iteration of run, from 1
          runner,   \* the number of the last QemuSysRunner, 0 before the first
          env,      \* self.env, 0 if it was never set
          garbage,  \* an earlier environment waits for the garbage collector
          attempt,  \* restart_count
          config,   \* ip_addr[0], one list with initial_network_config and network_info
          tap,      \* the subnet of the host's tap device
          image,    \* image.raw: none, mounted on the host, or unmounted
          tools,    \* the fuzzer was copied into the firmware
          vms,      \* the machines that run, with what the guest has made of itself
          console,  \* the machine behind the socket of the serial console
          session,  \* socat_session is open
          looks,
          lost      \* the started machine has gone by itself, or no start succeeded

vars == <<pc, try, runner, env, garbage, attempt, config, tap, image, tools, vms, console,
          session, looks, lost>>
starting == <<try, runner, env, garbage>>
host == <<config, tap, image, tools>>

Nothing == [m \in {} |-> 0]
Running == DOMAIN vms
Answers == console \in Running
Without(m) == [n \in Running \ {m} |-> vms[n]]
(* Broken variant: a machine of an earlier attempt keeps its cable. *)
StillPlugged == vms
Unplugged == [m \in Running |-> [vms[m] EXCEPT !.plugged = FALSE]]
Guest(nets) == [br0 |-> nets, plugged |-> TRUE]

(* kill_qemu: every qemu-system process of the host and every tap device.  *)
KillQemu == vms' = Nothing /\ tap' = NoNet

Init ==
  /\ pc = "runner" /\ try = 1 /\ runner = 0 /\ env = 0 /\ garbage = FALSE
  /\ attempt = 0 /\ config = Wanted /\ tap = NoNet /\ image = "none" /\ tools = FALSE
  /\ vms = Nothing /\ console = 0 /\ session = FALSE /\ looks = 0
  /\ lost = FALSE
-----------------------------------------------------------------------------
(* start_env: a new runner, whose constructor kills what still runs.       *)
NewRunner ==
  /\ pc = "runner" /\ runner' = runner + 1 /\ KillQemu
  /\ attempt' = 0 /\ session' = FALSE /\ pc' = (IF Fuzz THEN "tools" ELSE "tap")
  /\ UNCHANGED <<try, env, garbage, config, image, tools, console, looks, lost>>

(* _init_sys_fuzz: an exception while copying is printed and forgotten.    *)
CopyTools ==
  /\ pc = "tools" /\ tools' \in {tools, TRUE} /\ pc' = "tap"
  /\ UNCHANGED <<starting, attempt, config, tap, image, vms, console, session, looks, lost>>

(* start_tap_netdev deletes every tap device first: a machine that is left *)
(* from an earlier attempt loses its cable.                                *)
StartTap ==
  /\ pc = "tap" /\ tap' = config /\ vms' = Unplugged /\ pc' = "image"
  /\ UNCHANGED <<starting, attempt, config, image, tools, console, session, looks, lost>>

(* make_image: an image that exists is used as it is.                      *)
ReuseImage == pc = "image" /\ image # "none" /\ pc' = "boot" /\ UNCHANGED image
BuildImage == pc = "image" /\ image = "none" /\ image' = "mounted" /\ pc' = "unmount"
BuildFails == pc = "image" /\ image = "none" /\ UNCHANGED image /\ pc' = "cleanup"  \* exit(0), or mount_image raises
Unmount == pc = "unmount" /\ image' \in {"mounted", "ready"} /\ pc' = "boot"  \* errors are printed
MakeImage ==
  /\ ReuseImage \/ BuildImage \/ BuildFails \/ Unmount
  /\ UNCHANGED <<starting, attempt, config, tap, tools, vms, console, session, looks, lost>>

(* Popen: qemu takes over the path of the console; it may die at once, for *)
(* the lock on an image in use or a fuzzer that is not there.              *)
Fresh == attempt + 1
Startable == Fuzz => tools
Boots(nets) == vms' = [m \in Running \cup {Fresh} |-> IF m = Fresh THEN Guest(nets) ELSE vms[m]]
StartQemu ==
  /\ pc = "boot" /\ console' = Fresh
  /\ \/ Startable /\ \E nets \in SUBSET Subnet : Boots(nets)
     \/ UNCHANGED vms
  /\ looks' = 0 /\ pc' = "wait"
  /\ UNCHANGED <<starting, attempt, host, session, lost>>

-----------------------------------------------------------------------------
(* _wait_for_connection_and_configure: looks for a prompt and tries ls.    *)
Look ==
  /\ pc = "wait" /\ looks < MaxLooks /\ looks' = looks + 1 /\ pc' = "look"
  /\ UNCHANGED <<starting, attempt, host, vms, console, session, lost>>
NoAnswer ==
  /\ pc = "look" /\ session' = FALSE /\ pc' = "wait"  \* no prompt, or ls answers nothing
  /\ UNCHANGED <<starting, attempt, host, vms, console, looks, lost>>
GoodAnswer ==
  /\ pc = "look" /\ Answers /\ session' = TRUE /\ pc' = "configure"
  /\ UNCHANGED <<starting, attempt, host, vms, console, looks, lost>>
(* The machine dies between the test of the session and a command: recv    *)
(* raises, out of run.                                                     *)
ConsoleCloses ==
  /\ pc \in {"look", "configure"} /\ ~Answers /\ pc' = "cleanup"
  /\ UNCHANGED <<starting, attempt, host, vms, console, session, looks, lost>>
(* socat_read_until goes on as long as a machine prints without a prompt.  *)
MayPrintForEver == pc \in {"look", "configure", "working"} /\ Answers
TimeUp ==
  /\ pc = "wait" /\ looks = MaxLooks /\ pc' = "again"
  /\ UNCHANGED <<starting, attempt, host, vms, console, session, looks, lost>>

(* _configure_network: a guest with its br0 elsewhere decides the subnet,  *)
(* and qemu is started anew for it, twice at most; `ip addr` may be lost.  *)
SeenNets == IF Answers THEN {vms[console].br0, {}} ELSE {{}}
OtherSubnet ==
  /\ pc = "configure" /\ attempt < Restarts
  /\ \E nets \in SeenNets : nets # {} /\ config \notin nets /\ config' \in nets
  /\ KillQemu /\ session' = FALSE /\ pc' = "again"
  /\ UNCHANGED <<starting, attempt, image, tools, console, looks, lost>>
SameSubnet == \E nets \in SeenNets : nets = {} \/ config \in nets \/ attempt = Restarts
Configured == IF Answers THEN [vms EXCEPT ![console].br0 = @ \cup {config}] ELSE vms
Sent == {vms, Configured}  \* a command that the console does not take up is lost
Reached(machines) == tap = config /\ \E m \in DOMAIN machines : machines[m].plugged /\ config \in machines[m].br0
ConfigureNetwork ==
  /\ pc = "configure" /\ SameSubnet
  /\ vms' \in Sent
  /\ \/ Reached(vms') /\ pc' = "up"  \* ping answers
     \/ pc' = "again"
  /\ lost' = (lost /\ pc' # "up")
  /\ UNCHANGED <<starting, attempt, host, console, session, looks>>

(* start_rehosting_env: the machine of a failed attempt is not stopped.    *)
AgainForEver ==
  /\ pc = "again" /\ pc' = "tap"
  /\ UNCHANGED <<starting, attempt, host, vms, console, session, looks, lost>>
Again ==
  /\ pc = "again"
  /\ IF attempt < Restarts THEN attempt' = attempt + 1 /\ pc' = "tap"
                           ELSE UNCHANGED attempt /\ pc' = "failed"
  /\ UNCHANGED <<starting, host, vms, console, session, looks, lost>>

-----------------------------------------------------------------------------
(* start_env again.  A runner that has started and its ProcessUtil and     *)
(* NetworkUtil refer to each other, so when env no longer names it, it     *)
(* waits for the garbage collector; one that has failed goes at once.      *)
(* Broken variant: all runners have them.                                  *)
AnyEarlier == runner > 1
Superseded == env # 0
Started ==
  /\ pc = "up" /\ env' = runner /\ garbage' = (garbage \/ Superseded)
  /\ pc' = "working"
  /\ UNCHANGED <<try, runner, attempt, host, vms, console, session, looks, lost>>
MayTryAgain == runner % StartTries # 0
Failed ==
  /\ pc = "failed"
  /\ pc' = IF MayTryAgain THEN "runner" ELSE IF env = 0 THEN "cleanup" ELSE "working"
  /\ lost' = (lost \/ ~MayTryAgain)
  /\ UNCHANGED <<starting, attempt, host, vms, console, session, looks>>

(* run: too few processes in a firmware with procd; the environment is     *)
(* removed and started again.                                              *)
RemoveDocker == KillQemu /\ session' = FALSE
RestartForProcd ==
  /\ pc = "working" /\ HasProcd /\ try < EnvTries /\ runner + 2 \in Runner
  /\ try' = try + 1 /\ RemoveDocker /\ pc' = "runner"
  /\ runner' = try * StartTries
  /\ UNCHANGED <<env, garbage, attempt, config, image, tools, console, looks, lost>>

WorkEnds ==
  /\ pc = "working" /\ pc' = "cleanup"
  /\ UNCHANGED <<starting, attempt, host, vms, console, session, looks, lost>>
(* finally: remove_docker of self.env, if there is one. *)
Cleanup ==
  /\ pc = "cleanup" /\ pc' = "done"
  /\ IF env # 0 THEN RemoveDocker ELSE UNCHANGED <<vms, tap, session>>
  /\ UNCHANGED <<starting, attempt, config, image, tools, console, looks, lost>>

-----------------------------------------------------------------------------
(* The guest stops by itself.                                              *)
Crash ==
  /\ pc # "done" /\ \E m \in Running : vms' = Without(m) /\ lost' = (lost \/ m = console)
  /\ UNCHANGED <<pc, starting, attempt, host, console, session, looks>>

(* __del__ of an earlier runner, at any moment. *)
Collect ==
  /\ garbage /\ pc # "done" /\ garbage' = FALSE /\ KillQemu /\ lost' = (lost \/ Answers)
  /\ UNCHANGED <<pc, try, runner, env, attempt, config, image, tools, console, session, looks>>

StartNext ==
  \/ NewRunner \/ CopyTools \/ StartTap \/ MakeImage \/ StartQemu \/ Look \/ NoAnswer
  \/ GoodAnswer \/ ConsoleCloses \/ TimeUp \/ OtherSubnet \/ ConfigureNetwork \/ Again \/ Started \/ Failed
WorkNext == RestartForProcd \/ WorkEnds \/ Cleanup
Next == StartNext \/ WorkNext \/ Crash \/ Collect

Terminated == pc = "done" /\ UNCHANGED vars
Spec ==
  /\ Init /\ [][Next \/ Terminated]_vars
  /\ WF_vars(~MayPrintForEver /\ StartNext)
  /\ WF_vars(~MayPrintForEver /\ (WorkEnds \/ Cleanup))
-----------------------------------------------------------------------------
(* The runner, the host's devices and image, and the machines keep their   *)
(* types; attempts, runners and iterations stay within their numbers.      *)
TypeOK ==
  /\ pc \in {"runner", "tools", "tap", "image", "unmount", "boot", "wait", "look", "configure", "again",
              "failed", "up", "working", "cleanup", "done"}
  /\ try \in 1..EnvTries /\ runner \in Runner /\ env \in Runner /\ garbage \in BOOLEAN
  /\ attempt \in 0..Restarts /\ config \in Subnet /\ tap \in Subnet \cup {NoNet}
  /\ image \in {"none", "mounted", "ready"} /\ tools \in BOOLEAN
  /\ Running \subseteq Machine /\ console \in Machine \cup {0} /\ session \in BOOLEAN
  /\ \A m \in Running : vms[m] \in [br0 : SUBSET Subnet, plugged : BOOLEAN]
  /\ looks \in 0..MaxLooks /\ lost \in BOOLEAN

(* An environment that was reported as started is the one that the console *)
(* and the host's tap device reach, at the address that network_info names,*)
(* whatever earlier attempts have left behind (start_rehosting_env).       *)
ReadyIsReachable ==
  pc = "working" /\ ~lost =>
    tap = config /\ Answers /\ vms[console].plugged /\ config \in vms[console].br0

(* Never two machines on the tap device (start_tap_netdev, kill_qemu).     *)
OneOnTap == \A m, n \in Running : vms[m].plugged /\ vms[n].plugged => m = n

(* Only after a restart for procd may an old runner's __del__ take the     *)
(* machine of the new one (start_env): the runners that fail before the    *)
(* first that starts leave nothing to the garbage collector.               *)
SafeUntilRestart == garbage => HasProcd /\ try > 1

(* Every run ends, since its attempts are numbered, unless it comes to     *)
(* read from a machine that prints for ever (socat_read_until).            *)
Finishes == <>(pc = "done") \/ <>[]MayPrintForEver
=============================================================================
