# Firmwell in TLA+

A verification development of Firmwell, the program that takes the image of a
router, finds its web server and makes it run in a container ("rehosting"). The
modules here are translated from the code of the repository; every definition
that models code is listed with its lines in `PROJECT.json` ("map").

## The system

| Part | Code | State it keeps | What it does |
| --- | --- | --- | --- |
| Batch Job | `k8s/fw_k8s_job.yaml` | phase and pod count of each index, failures | starts one pod per index, replaces failed ones |
| Worker scripts | `entrypoint.sh`, `docker_init.sh`, `docker_k8_run.sh`, `docker_k8_extract.sh` | files on the shared volume: `done/`, `logs/`, `retries/`, `results/`, caches | skip or run an index, export its results and its log |
| dockerd sidecar | `docker_img/dind/entrypoint_dind.sh` | dockerd, which lives in it | runs dockerd for the worker until the done file appears |
| Driver | `firmwell.py` | options, the checker, the status | unpacks, runs the rehosting, verifies the export, prints `REHOST STATUS` |
| Rehosting loop | `backend/Rehosting.py` | container, network, located errors, peers, command line | starts the container, probes, finds and fixes errors, exports |
| Container manager | `backend/DockerManager.py` | the container and its networks | create, wait for, execute in, kill and remove |
| Redis lock | `backend/RedisLock.py` | one key shared by every pod | serialises commands of a batch when `--enable_redis_lock` is given |
| Error locator | `backend/reason_fix/ErrorLocator.py` | the errors located before | picks the next error of a trace |
| Fix strategies | `backend/reason_fix/FixStrategy.py` | fix record | creates devices and files, fills them |
| Checkers | `plugins/http_check.py`, `Initializer.py`, `dns_check.py`, `upnp_check.py` | the answers of each address and port | decide whether a service is wellformed |
| Network | `backend/utils/NetworkUtil.py` | interfaces of the container, `network_info` | restores and extends the network |
| System mode | `backend/QemuSysRunner.py`, `sys_fuzz/QemuSysRunner.py` | the image, the tap device, qemu, the console | boots the whole firmware in a virtual machine instead of a container |
| Processes | `Rehosting.find_error_proc`, `run_binary`, `backend/utils/ProcessUtil.py` | killed names, indices used | kills what the boot hangs on, replaces the target |
| Trace preprocessing | `reason_fix/LogPreprocessing.py`, `Rehosting.get_trace_log` | the parsed trace | cuts the log of all processes into events of each |
| Call chain | `backend/CallChainConstructor.py`, `call_chain_utils/` | graph, worklist, answers of Ghidra | finds which executables lead from the init to the target |
| Search for a peer | `ErrorLocator._identify_peer_process`, `reason_fix/ipc_reason/` | the parameters found in one executable | finds the executable behind a socket or shared memory |
| Firmware preparation | `backend/Planter.py`, `backend/EntryPoint.py`, the set-up in `firmwell.py` | the file system on the host | unpacks, chooses root and target, rewrites files, finds the start |
| Greenhouse fallback | `eval_gh/Greenhouse/`, `Rehosting.greenhouse_fix_func` | files and binary on the host and in the container | runs, transplants files, patches the binary |
| Other analyses | NVRAM analysis, symbolic execution | none between calls | compute inputs of the loop |

Pods talk to each other through the Redis key and through files on the shared
volume; the two containers of a pod through dockerd's port and the done file;
inside a pod everything is one sequential Python program that calls Docker, the
checker and the analyses, any of which may fail. What is hard is therefore: the
expiring lock (a holder that is late, dead or cut off), the files (a pod that is
killed between two of them, a file of an earlier pod), and the loop (recursion
into peers, flags that outlive the call that set them, exits from the middle of
a round). Beside the loop the firmware runs on: it changes its network while the
network is restored, boots while its processes are walked and killed, writes a
log that several processes share, and in system mode lives in a machine that may
die or stay. The searches (call chain, peer) are sequential, but rest on answers
that are partial, kept, or cut off. The preparation and the Greenhouse loop work on a
copy of the file system step by step, where a step finds what earlier ones left.
`PROJECT.json` lists each such place under "hazards".

## Modules

### RedisLock, GlobalLock

`GlobalLock` is the abstract service: a lease that one client holds, that ends
when its holder finishes or when its time is over, and never because somebody
else finished. It does not promise that the *work* is exclusive: `users` is a
set, since a holder whose lease ran out goes on working. That is what the code
can keep, because `exec_run` has no time limit that ends before `ex=360`.

`RedisLock` is the code: `acquire` polls (`BeforeDeadline`, `SetKey`,
`KeyTaken`, `Wake`, `GiveUp`), the section is `exec_run_lock` or the creation of
the container (`WorkDone`), `release` compares and deletes (`Release`). Redis is
`key` and `ttl`; a request may be executed and its reply lost
(`ConnectionLost`), a pod may die anywhere (`Crash`), time passes (`Tick`).
`lock_value` is the firmware's name and the command, as in the code, not a
unique token; `NameOf` says which client rehosts which name. The lock is off
unless `--enable_redis_lock` is given, hence the constant `Enabled`.
`grantee` and `lease` are auxiliary: who stored the key, and for how long yet
each client may rely on it.

The module is refined by `ImplementsGlobalLock`: `holder` is `grantee`, `users`
are the clients with the lock enabled between SET and release.

### JobPod

The life of the indices of one Job. For each index: the worker script's step, the
sidecar, dockerd, the controller's phase; for the volume: `done`, `log` (`NoLog` or the
sequence of pods whose output it holds), `retries`, `results` and whether the archive is
`torn`. Opening a log and writing it are two steps, as are beginning and ending the copy
of the archive, because a kill may come in between. The exit code of `docker_init.sh` is
ignored as in `entrypoint.sh`, and without its `/tmp/logs` nothing that redirects into
it runs (`tmplogs`). Pods that end with 42 are not counted, everything else counts
towards `backoffLimit`; an evicted pod may count or not, since the rules for exit codes
come before the one for `DisruptionTarget` and its worker may end with any code. The
pod's deadline (`DeadlineExceeded`) ends a pod whose sidecar waits for a done file that
nobody will touch.

### RehostLoop

One `firmwell.py` from `Rehosting.run` to `REHOST STATUS`. `pc` is the place in the
program; `frames` is the stack of `rehosting_binary`; `box` says what became of each
container that was created; `located` is `self.located_errors` (the set of errors of
each service and the answer of the last trace); `devices` and `netinfo` are the
container's network and the copy of it in `self.network_info`: `Reconfigure` may leave
any part of what either names, and a fix that creates a device may take others away,
since both delete whole Docker networks; what a reconfiguration achieves step by step is
Network's subject. `verdict` is what the checker remembers. What the program observes is
chosen freely: whether a container comes up, which blocking process is found, which
files, devices and peers a trace shows missing, what the web service answers, which call
raises. `Candidates` is `locate_errors`: six classes in the code's order, compared with
the errors located before as `_is_same_error` does, the one class (missing interfaces of
the whole log) that is not compared included.

Left out: the ablation switches `no_*` and what the fixes write; system mode and
`--greenhouse_fix` have modules of their own. Removing a container is taken to succeed,
and `get_network_info` to answer. The list of peers for the export is an entry made
right before a peer is started and has no variable. A container that dies by itself
shows as an exception of the next call (`Raise`).

### HttpCheck

One checker of `http_check.py` and its probes: the loop of `HTTPInteractionCheck.probe`
over addresses and ports (`NextTarget`, `NoMoreTargets`, `EndTarget`), and on each of
them `URLCheck.probe`: requests with retries over TLS (`CurlAnswers`, `CurlFails`), the
login with every user and password (`NoLogin`, `LoginNeeded`, `LoginAccepted`,
`LoginConfirmed`, `LoginRejected`), a request that never comes back (`NeverAnswered`,
which leaves the probe `hung`: `check_login_type` and most logins have no timeout), the
browser (`Connected`, `NotConnected`, `BrowserRaises`, `LooksGood`, `LooksGoodAgain`,
`LooksBad`). The variables are the fields of the current `URLCheck`, the locals `tries`
(`count`) and `is_ssl` of `curlcheck`, and `pair`, how far the loops of `logincheck`
are. `urlchecks` keeps of each target what `check` and `get_working_ip_set` read.
`passes`, `confirmed` and `moved` are auxiliary and say what happened at the current
address.

An address is a page, whether TLS is used, and whether it is spelled as it was
typed: a browser shows `http://ip/` for `http://ip:80`, and `URLCheck.probe`
compares strings. The service is free: each request may be answered or fail in
each of the ways the code tells apart, each login be accepted or not, each look
show another page of `Leads`. How a login is found and performed (`Login.login`,
one branch per brand) is the choice between accepted and rejected.

Left out: the texts of `working_curl` and of pages; the sleeps; the timeout for a whole
probe, which `get_checker` never sets. A page is taken not to raise alerts without end,
and closing the browser, which is tried again after a generic exception, to succeed or
to raise in the end.

### Network

`reconfig_network`, `create_network_device`, `get_interfaces_ips` and the pings,
one action per command that changes the container, between which the firmware may
change a device (`MaxMeddled`), a command may fail or its answer be lost
(`MaxFaults`: an `exec_run_lock` that times out answers an empty text), and a fix
may ask for a device (`MaxFixes`). `links` is the container's network, `info` is
`self.network_info`, `current` the snapshot that a reconfiguration walks while it
deletes devices and whole Docker networks. `quiet` counts reconfigurations that
nothing disturbed; it is auxiliary. RehostLoop keeps of all this a set of devices.

### SystemMode

`start_env` and `run` in system mode: runner, tools of the fuzzer, tap device, image,
boot of qemu, the waits for the console (`Look`, then `NoAnswer`, `GoodAnswer` or, when
the machine dies meanwhile, `ConsoleCloses`), the choice of the guest's network
(`ip_addr[0]`, one list with `network_info`), the restarts inside a runner and the
runners inside `run`, removal. A machine that answers may also print on without a
prompt, and `socat_read_until` then reads on without end (`MayPrintForEver`). `__del__`
of an earlier runner is an action that may come at any time while such a runner is not
collected (`garbage`). Errors of `umount` and `kill` are ignored as in the code, so an
image may stay mounted and a machine may survive its attempt. What the guest does is
free, and a command that is sent over the console may be lost (`Sent`). `docker_cp` is
not modelled.

### Processes

`waiting_all_process`, `find_error_proc` and `run_binary` over a tree of processes
that goes on meanwhile. The boot is a script that runs commands one after the
other, each of which hangs until it is killed: alone, waiting for a child,
starting its child again, or sleeping. `Look`, `Tree` and `Walk` are the separate
looks at the call chain and at the process tree and the kill that follows;
`Collect`, `KillByName`, `RunBinary` the kill of the target with its parents.
Names are compared exactly; the code looks for parts of command lines. A firmware
is prompt (it has reacted when the sleep after a kill is over) or slow (it reacts
at any time); the properties that promise progress are about prompt ones.

### Trace

From system calls to a located error. Two processes of the service and a small kernel
(descriptors that are reused, files that were read to their end, sockets, forks) write
one log; `Locate` cuts it (`Merged`, `Complete`, `Owner`, `Kept`, `Events`), walks the
processes (`Worklist`) and runs the matchers of `locate_errors` in the code's order;
`RunAgain` applies the fix, which may not help, and starts the service again with an
empty log. A process may block in `connect`, `recv`, `recvfrom`, `select`, `read` or a
call that the log does not tie to a descriptor, `poll` (`Hang`); of such incomplete
lines the parser keeps `recv`, `recvfrom` and `select` only, and the matchers do not
look at `recvfrom`. A line carries, beside what the text tells, the object that only the
kernel knows: the properties compare the two. Parts of the log are taken with `Pick`, a
recursive function, and the worklist is built from the forks that `Forks` lists, so that
all of it can be proved about. Left out of the matchers: magic bytes of a file, ports in
use, messages of uClibc.

### CallChain

`CallChainConstructor.run`: the links that are assumed for an entry, the worklist
of callees, the candidates that have a name among their strings (`ByName`,
`ByLink`), the question to Ghidra or to the shell parser and the answer that is
kept per file (`Answer`, `execve_map`), the graph and the shortest path in it. The
firmware is chosen in the initial state: how each file uses the name of each
other, and how much Ghidra sees of it. What Ghidra computes is abstracted to
that: an answer contains the calls of the functions in which the name looked for
occurs.

### PeerSearch

`_identify_peer_process` and its analysis of one executable after the other: calls
of `bind` and `connect` grouped by the function behind their wrappers (`Outer`),
the smallest functions first (`Sorted`), each executed from its entry, or in parts
if it is large, with the two fallbacks when nothing was reached (`Reached`), and
the comparison of the addresses that were read (`Uses`). Shared memory differs: all
executables are candidates, any call is enough, the first that has one is taken.
What an execution of angr reaches and whether an address can be read there is data
of the model (`Site`), as is what the strings of the file suggest (`guess`).

### Preparation, EntryPoint

`setup_target` and the first half of `FIRMWELL.run`: the extractors one after the
other (`FirmaeExtractor`, `FactExtractor`, `Binwalk`), the root and the target
(`Choose`), and then the passes over the copy of the file system, in the code's
order, one action each, from `Clean` to `EditScripts`. A file is its name, directory
and kind; `fs` says what has become of it, and `outside` whether the host has a
program where an absolute link of the firmware leads, since the code follows links
with the host's `os.path`. `Rebooting` and `ShuttingDown` are the names that contain
`reboot` or `shutdown`, as `find_files` compares, `Reached` leaves out the root folder,
through which it does not look, and `Anew` are the folders that `initial_setup` wipes.
`EntryPoint` is the pure part: `Identified` looks for the init program and the start
script, among programs that libmagic calls executable (`Executable`: none that is
position-independent, the kind `pie`); an inittab that cannot be read (`torn`,
`Illegible`) makes `Identify` raise. What is written into a file is left out, as are
the switches that skip a pass and the programs of single brands.

### Greenhouse

`greenhouse_fix_func` hands the service to the loop of the Greenhouse copy:
`StartRound`, the wait (`Answered`, `Stable`, `TimedOut`, `Interrupted`), `Transplant`
of what the trace shows missing, and `Patch`. `Answered` may come at any moment, since a
request to any address of `urls` that merely times out counts as an answer
(`QemuRunner.py:804`, `http_check.py:289`); a target may also take the port and then loop
(`jams`). A firmware is the sequence of obstacles
its target meets. The loop changes files on the host and copies them: `made` and
`patched` are the host's, `there` and `running` the container's, `set` is what needs
no copy. Targets of earlier rounds go on (`holder`, `hung`) and may answer, or write
their exit code into the log, in place of the current one (`OldEnds`).

### MC modules

One `MC_` module per module gives the constants values for TLC; `MC_CallChain`,
`MC_PeerSearch`, `MC_Preparation` and `MC_Greenhouse` also list the firmwares.

### Proof modules

`RedisLock_proofs`, `JobPod_proofs`, `RehostLoop_proofs`, `HttpCheck_proofs`,
`CallChain_proofs` and `PeerSearch_proofs` extend the modules they are about; nothing
of the models is defined in them. `Rehosting_proofs` extends two, Trace and SystemMode,
and `Firmware_proofs` four, Preparation, Greenhouse, Processes and Network, which change
the firmware or follow it; their definitions carry prefixes (`tracePc`, `ghPc`, `procPc`,
`netPc`) so that they can be extended together, and no theorem is about two of them.
`TypeOK` (`TraceTypeOK`, `GhTypeOK`, `ProcTypeOK`, `NetTypeOK`) and a few smaller
properties are proved for all constants there and checked by no run:
`OnlyGranteeDeletes`; `DoneAfterWork`, `EarlyExitOnlyIfStale`, `RehostOnlyUnlogged`,
`LogsOnlyGrow`; `OnlyOnePeerDeep`, `TargetSticks`, `LocatedIsUnfixed`;
`LoginUrlUnlessMoved`, `OkMeansAnswered`, `SameUser`; `NoneTakenTwice`; `OneOnTap`.

## What the runs check

**redis_lock.** Two clients with the lock, one without, two commands, TTL and deadline
of two ticks. Two contending clients are enough for the interesting case, a late release
that would let a client in beside the one that took over; two ticks let a lease end
between any two steps of its holder. The safety properties are proved for any number of
clients below. `LeaseMutex`: leases exclude each other. `ImplementsGlobalLock`:
refinement. `KeyIsDropped`: no crash or lost reply leaves the key for good. Fairness:
the steps of a call and the clock. A step of a call is a Redis request, a sleep or a
Docker request, all of which come back (the Docker client has a timeout); calls, crashes
and lost replies need not happen.

**job_pod.** Index 0, which the scripts skip, and index 1; two faults (a worker
killed, a pod evicted, dockerd dead), a stale done file, extraction that may
fail, retries on. Two faults let a replacement pod be hit as well.
`SucceededIsLogged`: a completed index has its log. `ResultsBeforeLog`: when the
log that makes later pods skip is there, the archive is complete. `IndexSettles`
(liveness): every index completes unless `backoffLimit` is exceeded; containers
and controller are scheduled fairly, faults need not happen. The Job really stops,
so deadlock is not checked.

**rehost_loop.** Target and one helper, one network device, one file of each
kind, one socket descriptor, two rounds (the fallback round is the second),
procd present. One thing of each kind is enough for every order of the classes; a
round has two iterations for its service and two for a peer, so that an error is
located in one, fixed, and missed in a later one or in the next round. The safety
properties are proved for any number of each.
`AtMostOneRunning`, `EnvRemoved`, `SavedRunsAlone` are about containers, `VerdictFresh`
about answers of the web service. `FixesAreSaved`: before each reconfiguration
`self.network_info` has every device that is there, whichever call of
`rehosting_binary` created it, so that no fix is undone by the code's own restoring.
`SuccessIsExported`: the status, which is decided by the checker's last answers even
after an exception, is SUCCESS only of a run with an export. `Terminates` (liveness)
under weak fairness of the program's next step: it supposes that each call into Docker,
the checker and the analyses comes back or raises. Docker's requests have a timeout;
those of a login have none, so what is shown is that the loop adds no endless run of
its own.

**http_check.** Two targets, the second at a port that ends in 443; the first may
lead to a third page; one kind of login, two users; the checker probes again as
often as it likes. Two targets are enough for anything of the first to be taken
for the second's, one change of page for anything of the old page to be taken for
the new one's, and two users for a retest that changes the user; the safety
properties are proved without these bounds. `WellformedIsTested`: what a
wellformed verdict has behind it, at that address. `VerdictIsExported`: `probe`,
`check` and `get_working_ip_set`, which read different fields of a list, agree.
`ProbeEnds` (liveness): the retries, retests and changes of address end, unless the
probe comes to a request that never returns. Fairness: the next step of a probe, the
step that never returns (`NeverAnswered`) being one of them; nothing is supposed of the
service. The browser has a timeout. `ProbeEnds` needs `Leads` without circles: two
pages that send the browser to each other and both ask for a login are probed for
ever.

**network.** Three interfaces of Docker and a bridge, three subnets, one step of
the firmware, one fault and one device of a fix at any moment between two
commands. `Restored`: three reconfigurations in peace bring the container to
`network_info`; one is not enough, because each works on a snapshot and deleting a
Docker network may take a device with it that was right. `LeftAlone`: from then on
a reconfiguration changes nothing, so a probe does not disturb the service it
looks at. Both hold for one address per device and one device per subnet
(`Simple`); with two addresses of one subnet the code goes on deleting the network
of the one for the other. `AddressOnce`: without firmware and faults no address is
ever on two devices, not even between two commands.

**system_mode.** Two subnets, the three iterations of `run` with two runners each
and three starts of qemu in a runner, procd and the fuzzer on (the steps without
them are among these), two looks for a wait of 240 s. `ReadyIsReachable`: what is
reported as started is what the console and the tap device reach at the address in
`network_info`. `SafeUntilRestart`: only after a restart for procd can the `__del__` of an
earlier runner kill the machine of the new one, not after a runner that failed. `Finishes`
(liveness): the run ends, since the attempts are numbered, unless it comes to read from
a machine that goes on printing. Weak fairness of starting the next step and of `work ends
or cleanup`, while the run is not in such a read: every command of the host returns, and
a `recv` has a timeout, but the wait around it has none. Collection by Python need not
happen.

**processes.** Every script of up to four commands of four kinds (two for a slow
firmware), with a target that is started, started and watched, or missing;
fifteen tries as in the code. Four commands reach the limit of fifteen tries.
`Unblocks`: the target is started within the tries (`Effort`: two for each command,
three for a watchdog). `TargetSpared`: the walk never kills the target except in
the window between its two looks. `OneTarget`: `run_binary` leaves one instance.

**trace.** Two processes, two descriptors, one file that may be missing, empty or full,
one missing file of `/dev`, one file that is ignored, one interface, one peer; five
lines in the first run, three in the second; one fix that helps. Five lines suffice for
open, read of nothing, close and reuse of the descriptor beside a line of the other
process, and for socket, connect and wait in a child after its fork; the second run is
there for errors that count as fixed. Bounds of the model beside these: a call without a
descriptor is made once per log, no file is opened twice at a time, the log is cut when
all processes have stopped or it is full, 50 equal lines and 3 timeouts in a row are 3
and 2. `EmptyReadIsReal`: a file is filled only if it was missing or some process got
nothing from it. `EmptyFileIsFound`, `HangIsFound`: a process on the worklist that fails
on an empty file, that waits in `recv` or `select` on a socket it has connected, or that
was refused a connection, is not left without an error in the first run. A wait in
another call, `connect` included, is lost by the code (see below), and the run has such
waits: they are what is not claimed. The first two exclude logs in which closes of
different descriptors were merged (`Blurred`); for the third it is enough that the
worklist is the code's own, of the log as the code sees it.

**call_chain.** Target, init, a script, a service and a program outside every
chain; every way of naming and calling that matters between them, three ways to
see them, seven kinds of entry; `Count` is 4 where the code has 20, so that it is
reached. Names of files are distinct. `ChainIsReal`: a chain that is returned
consists of calls and of assumed links. `FoundUnlessHidden`: nothing is given up
while a route exists whose links are all found by name and by their kept answers.

**peer_search.** Two executables. One has every pair of calls in two functions,
small or large, one perhaps a wrapper of the other, reached in four ways, read or
not, or is one of the cases at the limits: more functions than are executed
(`MaxCallers` 2 for 50), more calls than are looked at (`MaxSites` 3 for 1000),
wrappers of each other, none. The other fails, is no candidate, or uses the address
plainly. `PeerUsesIt`: a peer is named only for a call that was seen, by an analysis
that was not cut off (a single candidate is believed unseen, as in the code).
`MatchUnlessHidden`: when none is named each call with the address was out of
reach for a reason on a list, which is the code's list of limits: nothing else is
lost between candidates, functions and fallbacks.

**preparation.** Every firmware of up to three of the 41 files that the passes tell
apart, or of a server and up to four of the 19 files that the start depends on, and
every pair of six roots that have to be found, under every option of the unpacking; each
for every service, on a host with and without a program behind absolute links (63,044
cases on each). Three files are enough for a pass that meets what two others left.
`TargetIntact`: the target is where it was chosen and as it was, unless it lay in one of
the folders that are made anew. `Quiet`: no reboot or shutdown, no busy daemon, no
special file is left, but for what the walks do not reach (`OutOfReach`: what comes
after a netconf, links that lead nowhere, a file in the root folder itself, a reboot
file whose path reads like that of a page, and the shutdown files when the last reboot
file is such a one). `GivenUpForCause`: no firmware with a program to rehost is dropped
unless a tool failed, another candidate is in its way, or a pass meets one of four
things it does not expect (a shutdown file without a reboot file that is found, an
inittab that cannot be read, an unpacker outside `/bin`, `rc_apps` without `usr/etc`).
`StartFound`: a firmware whose init is a link or one that libmagic calls executable is
started with a program, one with an rc of its own is started, and whenever the inittab
was taken and edited, its script is started with its arguments. The exceptions that the
formulas list are what the code does.

**greenhouse.** Every obstacle alone, every pair that can be met, and five longer
sequences that need files between patches; five cycles; with and without
`greenhouse_patch_flag`. Two obstacles are enough for a transplant that makes way for a
patch and the reverse. `PatchIsLast`: the binary is not patched around what a transplant
could have provided. `SuccessRunsAgain`: a success is not the answer of a target that
would not start again. `GivesUpForCause`: what has to have happened before the loop
gives up; `CutShort` is among it, the wait of a looping target that an answer, an
earlier target's or a mere time-out, has ended before the loop was seen. `Ends`
(liveness) under weak fairness of `Next`: a round waits with a time limit, and the
analyses and probes are supposed to return or raise. With `greenhouse_patch_flag` the
code has no bound on its rounds, so `Ends` is not claimed for it. Some branches of the
code are never taken and are not in the model: with the strict checker that Firmwell
passes, every success is wellformed, so the search for a nodaemon flag and the patch
that is tried for it are dead, as is the rehosting of a full system.

### What the repository says and the code does not do

Most of these disagreements are in the models too, as the code has them; all were seen
while the properties above were found; no run is kept for them.

- The verification of an export (`firmwell.py:588`) takes the answer of `probe`,
  which is TRUE for a target whose only request timed out.
- A done file of an earlier batch ends dockerd before the worker begins.
- Index 0 is skipped, so the last line of the list has no index.
- With `RETRY_FLAG=1` the pod that follows an exit 42 is skipped: `MAX_RETRIES` is
  1 in `entrypoint.sh` and 2 in `docker_k8_run.sh`.
- The comment at `Rehosting.py:1253` calls the peer of shared memory a dummy that need
  not be exported. That is true of the peer `self`; a real peer, which
  `_match_crash_after_shm_ipc` also names, is started and left out of the export.
- `check_login_type` and most logins request without a timeout (`Initializer.py:210`,
  243, 284 to 459), and that of the other requests counts from one piece of an answer to
  the next: a server that accepts and stays silent keeps the probe, and with it the loop.
- `setup_target` builds the paths that it clears before `self.name` is set
  (`firmwell.py:216`, 241), so it clears `/tmp/_rehosted` and not an earlier export of the
  firmware. `SuccessIsExported` supposes an empty `/tmp`, which a new pod has.
- Missing interfaces are located again and again, fixed or not: they are compared
  with nothing. SUCCESS is printed when nothing was saved.
- The wait for the console has no bound while a machine prints without a prompt
  (`QemuSysRunner.py:143`): the 240 s are tested between two reads. When the machine dies
  under it the read raises out of `run`. A run whose environment never came up leaves its
  machine and tap device behind, because the cleanup looks at `self.env`.
- In system mode the collection of an earlier runner kills every qemu of the host,
  the new one's included. An error while the fuzzer's tools are copied is printed and
  forgotten, and qemu is then started without them.
- A boot script that the walk passes over (rcS) is never killed. Its commands hang at
  the same place of the tree one after the other, and places that were used are
  remembered, so the second is not killed: `ScriptIsRcS = TRUE` refutes `Unblocks`.
- The comment at `ErrorLocator.py:2019` says that a `connect` that hangs is found. The
  parser has dropped it: of incomplete calls it keeps `recv`, `recvfrom` and `_newselect`
  (`LogPreprocessing.py:411`), so a wait in `connect`, `read`, `poll` or `recvmsg` is never
  seen, and of the three the matchers ignore `recvfrom` (`ErrorLocator.py:1955`, 1988).
- Two closes of different descriptors are merged (`Rehosting.py:660`), after which
  an empty file may be looked for under the wrong name. A signal line carries no
  pid and is given to the process of the line before it (`LogPreprocessing.py:318`).
  The two together put the wrong process on the worklist: a service is refused a
  connection, its child closes a descriptor, the service closes one, and the service
  crashes. The closes become two lines of the child, the crash is the child's, the
  worklist is the child alone (`ErrorLocator.py:813`) and the refused connection is not
  reported. TLC finds this in logs of six lines; five are too few. `HangIsFound` is
  therefore about the processes of the worklist. Peers are remembered by
  descriptor across processes, and an empty file that counts as fixed hides the
  errors of the matchers after it.
- `_match_crash_after_file_ops` is called nowhere, and `_match_crash_after_ioctl`
  cannot answer: it asks for an argument that is not a text, and all are.
- In the call chain, links assumed from `etc/init.d` are of no use without busybox
  or procd, because their callers are never taken up; the test for init.d binds to
  the last `or` only (`CallChainConstructor.py:226`); busybox without a script adds
  an edge from nothing and raises (line 186). The timeout of Ghidra ends in a
  `communicate()` without one (`GhidraTool.py:139`).
- Candidates for a peer come out of a Python set, so which of several matching peers
  is started differs from run to run (`ErrorLocator.py:423`). The choice among users
  of shared memory by their names (line 385) is never reached, since the first
  match is returned (line 374), and the analysis looks for `shm_open` although the
  failure that is located is one of `shmat`. Wrappers that call each other are
  followed without end (`base_analyzer.py:1686`). `bind` and `connect` are not told
  apart, so the peer may be another client.
- Preparing for DHCP renames every server of DHCP as a busy daemon. Under `rc_app` the
  path of the candidate looked at before is tested again, and for the first one the
  name is not bound. Of several candidates the shortest name wins, not the order of
  the list. A shutdown program without a reboot program ends the run.
- `find_files` skips what lies in the root folder itself and compares parts of names
  (`Planter.py:517`): a `/reboot` stays, and counts as none when a shutdown program is met.
- A single inittab is taken without the test that several get (`EntryPoint.py:147`), and
  opened: a link that leads nowhere, or no text, ends the run (line 62). An init that is
  position-independent is no program to `is_elf_executable` (`new_utils.py:139`), so the
  firmware is started with the profile or not at all; a profile that stands in for an init
  gets the arguments that the inittab has for another script (`EntryPoint.py:252`, 261).
- `initial_setup` wipes `var/tmp`, `var/run`, `tmp/run` and `tmp/var` when they exist
  (`Planter.py:279`, `Utils.py:108`), a target in them included.
- A second start of the container renames the link to busybox over the saved copy of
  `ip` and `ifconfig` (`DockerManager.py:384`).
- The wait of a Greenhouse round ends with any answer of `probe`, and a request that only
  timed out is one (`QemuRunner.py:804`, `http_check.py:75`, 289): a target that loops is
  then judged without its loop, no patcher applies, and the loop gives up.
- The cleanup of a Greenhouse round looks for a path of the host among the processes
  of the container and kills nothing. The addresses that a trace shows are
  overwritten by those in nvram, so an address alone counts as no change.

## What is proved

`RedisLock_proofs` proves, for every set of clients, commands and timeouts, what
`redis_lock` checks on three clients, and more: `TypeCorrect`, `LeaseSafe`
(`LeaseInRedis`), `LeaseExclusive` (`LeaseMutex`), `ReleaseSafe`
(`OnlyGranteeDeletes`) and `Refinement` (`ImplementsGlobalLock`). The
assumptions are those of the module (`NoClientAssumption`, `NameAssumption`,
`TimeAssumption`, `NoKeyAssumption`, `EnableAssumption`) and one hypothesis that
every theorem states, `DistinctNames`: no two clients rehost firmware of the same
name. The code does not enforce it. `lock_value` is built from the name and the
command, so two pods of equally named firmware that send the same command pass
the comparison of `release` for each other's key; the mutant `CommandOnly` shows
what happens then.

The invariants are not inductive alone. `IInv` adds to `TypeOK` and
`LeaseInRedis`:

- `Calling`: a client inside a call has the `lock_value` of one of its commands,
  hence its own name. Without it nothing is known of what a late release compares.
- `KeyState`: key, time to live and grantee come and go together, and a stored key
  carries the name of the client that stored it. With `Calling` and
  `DistinctNames` this is the lemma `DeleteOwnKey`: who passes the comparison is
  the grantee.
- `LeaseInUse`: only a client between SET and release has a lease, so the steps
  that overwrite `value` do not touch one.

The refinement needs one fact more, `OwnKey`: a client at work whose grant still
stands finds its own value in Redis, so that the release of a holder is the
abstract `Finish` and not a skipped deletion.

`JobPod_proofs` proves the safety properties of `job_pod` and more, for any number of
indices, pods at a time, tolerated failures and faults: `TypeCorrect`,
`CompletedHasLog` (`SucceededIsLogged`), `ArchiveFirst` (`ResultsBeforeLog`),
`NotDoneWhileWorking` (`DoneAfterWork`), `DockerdStays` (`EarlyExitOnlyIfStale`),
`RehostedOnce` (`RehostOnlyUnlogged`), `LogsAreKept` (`LogsOnlyGrow`). It assumes
`JobAssumption`, `FlagAssumption`, `NoLogAssumption` and `StaleAssumption`, and no
hypothesis. The inductive invariant `PodInv` says of each index:

- `LogState`: the worker's step tells whether the log exists. That it stays so
  rests on the lemma `LoggedIsSkipped`: with `MAX_RETRIES` 1 in `entrypoint.sh`
  no index with a log is begun again, whatever `retries` says. This is the
  disagreement of the two scripts, seen from the other side: the retries do not
  work, and that is why no log is ever overwritten.
- `PodState`: nothing runs for an index between two of its pods.
- `DoneState` and `StaleState`: a done file under a worker that has not decided
  yet was there before the pod, and a sidecar that left early saw such a file.
- `ExitState`: exit code 0 is that of a skip or of the last line, both with a log.
- `ArchiveState`: the archive of this pod is on the volume, whole, from the end
  of the copy on. `torn` alone would not do: a kill leaves the archive of an
  earlier pod behind, and `produced` tells whose it is.

`RehostLoop_proofs` proves, for any services, devices, files, descriptors and
number of rounds, under `ServiceAssumption`, `RoundAssumption`, `FlagAssumption`
and `NoErrorAssumption`:

| Theorem | Property | Hypothesis |
| --- | --- | --- |
| `TypeCorrect` | `TypeOK` | |
| `PeersAreLeaves` | `OnlyOnePeerDeep` | |
| `OneContainer` | `AtMostOneRunning` | |
| `ContainerRemoved` | `EnvRemoved` | |
| `ExportRunsAlone` | `SavedRunsAlone` | |
| `AnswersAreFresh` | `VerdictFresh` | |
| `NetworkIsSaved` | `FixesAreSaved` | |
| `TargetStays` | `TargetSticks` | |
| `SuccessHasExport` | `SuccessIsExported` | |
| `LocatedOnce` | `LocatedIsUnfixed` (no run) | `Device = {}` |

The hypothesis is what the code needs: missing interfaces are located again. The
invariants:

- `CallInv`: the stack of `rehosting_binary` is not empty inside a call, a round
  is left, and an error located inside the call of a peer never names a peer
  (`PeerHasNoPeer`). The last is what bounds the recursion: `FoundPeerProcess`
  looks at the depth of the call, `ApplyFix` does not. `CandidateKinds` says once
  what `locate_errors` can answer; the rest of the module cites it.
- `BoxInv`: only the container created last can run, it is `self.env` from the end
  of `start_env` on, and after a wellformed verdict nothing else runs until it is
  gone. The two names of the container, `manager` and `env`, differ exactly
  between `start` and `wait`; without `OnlyNewest` nothing is known there.
- `VerdictInv`: no step between a kill and the next probe reads the answers.
- `NetworkInv`: wherever the program is but between a fix and the end of its iteration,
  `self.network_info` has every device that is there. A reconfiguration, however badly it
  ends, leaves nothing but devices of either, and every way out of a fix that goes on
  passes the assignment at the end of the iteration.
- `SuccessInv`: what has to be true at each step from `check` on for SUCCESS to have an
  export; the export's own verification, which ends the program without one, is the step
  that carries it.
- `LocatedInv`: the magic bytes of a file are located once, right after its
  `fill_file_content`, although that class is not compared with earlier errors.

`HttpCheck_proofs` proves the safety properties of `http_check` and more, for any pages,
targets, users and kinds of login, and whatever pages lead to, under
`PageAssumption`, `LoginAssumption` and `NoUrlAssumption`: `TypeCorrect`,
`VerdictIsTested` (`WellformedIsTested`), `LoginUrlIsPage`
(`LoginUrlUnlessMoved`), `OnlyVerdictIsExported` (`VerdictIsExported`),
`OkIsAnswered` (`OkMeansAnswered`), `UserStays` (`SameUser`). Two invariants:

- `TargetInv`: `Tested` says for each step of `URLCheck.probe` what has been
  tested so far. That a change of address leaves nothing behind is the part that
  needs it: `login_needed` stays TRUE then, and only `login_success => confirmed`
  keeps a login of the old page from counting. `LoginUrlKnown`: from the second
  good answer on there is an address to export.
- `EntryInv`: only the last entry can be wellformed, and only after the probe has
  returned for it; the verdict of an earlier probe (`OldVerdict`) is left in
  `wellformed` when the next begins, but the list is then empty.

`CallChain_proofs` proves `Typed` (`TypeOK`), `ChainRight` (`ChainIsReal`), `TakenOnce`
(`NoneTakenTwice`) and `NothingLost` (`FoundUnlessHidden`), for any executables, any
firmwares and any count, under the four assumptions of the module. The invariant `IInv`:
every edge of the graph is a call or assumed (`LinksAreReal`), which needs that every
kept answer lists callees only, whatever it was asked about (`AnswersAreReal`); what is
or was in the worklist is marked, so that marking is what keeps a file from coming back
(`Marked`, `Once`), and the files taken up are counted (`Counted`). For `NothingLost` a
second invariant, `SInv`, says what the search still owes: everything it met leads to
the target and the init does not yet (`Searching`); the assumed links are in the graph
as far as they go, and every other link ends in a file that was taken up
(`LinksAreThere`); of such a file every possible caller was asked or is about to be, and
is met if it calls it (`CallersAsked`). Then, when the search gives up, `LinkBack`
carries "was met" one link back along a route without hidden links. The theorem takes
the last file of such a route that was not met, which exists because a set of numbers
has a least one (`Least`, out of the library's well-founded ordering of finite sets), so
no induction with an operator is needed.

`PeerSearch_proofs` proves `Typed` (`TypeOK`), `PeerShown` (`PeerUsesIt`) and
`NothingOverlooked` (`MatchUnlessHidden`), for any executables, wrappers and
limits. `NothingLost` is the heart of it: a call that the execution of its function
reaches was found or its function still waits; with `OtherwiseNotExecuted`, which
says once why a call is not reached, and `Judged`, which says what the comparison
of addresses is worth, an executable that was passed over has only hidden uses
(`NoneForgotten`). `Outer` is a recursive function and stays opaque in the proof:
the argument does not depend on where wrappers end.

`Rehosting_proofs` has two groups of theorems.

*Trace*, for any processes, descriptors, files, interfaces and peers, for logs of any
length, whether lines are merged or not and from how many on, and for any span and
number of timeouts: `TraceTyped` (`TraceTypeOK`), `EmptyReadsAreReal`
(`EmptyReadIsReal`), `EmptyFilesAreFound` (`EmptyFileIsFound`) and `HangsAreFound`
(`HangIsFound`), under the three assumptions of the module and no hypothesis. The
argument has three parts.

- What the kernel and the processes do, `TraceInv`. `GivenInv`: a descriptor was given
  by a line of the log, and what a line uses was given by an earlier one. `OpenInv`:
  what a process has opened and not closed is there, and what it uses under that number
  is what it opened. `ClosedInv`: what was closed is gone, and no process closes the
  same descriptor in two lines in a row. `ProcessInv`: nothing follows the line in which
  a process blocks or ends. `ResultInv`: results belong to calls, a file that was
  missing is missing, a descriptor that was connected has a peer. `FirstInv`: in the
  first run nothing counts as fixed. Each call is shown to be a `Step`, which says what
  a call adds to the log and does to the descriptors, and each part of the invariant is
  shown for `Step` once.
- What the log becomes, `Traced`: the events of a process are lines of the log in the
  log's order, and each of its lines is among them or stands in a run of equal lines of
  which a later one is (`Alike`). A process that closes one descriptor twice in a row
  would break this for closes, hence that part of `ClosedInv`; a run that lost closes
  is still good for all other lines (`Clear`), which is why `HangsAreFound` needs no
  `~Blurred`. The thinned log is an enumeration of places in increasing order
  (`Order`, `ListsAt`), so distances only shrink (`NoFartherApart`: an open and its
  close at most `Span` apart in the log are so among the events).
- What the matchers make of it. `ReadsMatch`: between the open of a descriptor and its
  close the first read has the same result in the log and among the events.
  `EmptyFileIsReal` and `EmptyFileIsSeen` are the two directions for an empty file,
  `WaitsShown` the one for sockets; `LocatedIs` says of `locate_errors` that it finds
  nothing only if no process of the worklist shows an error that is new.

No induction theorem is used: `Least` (a set of numbers has a least one, out of the
well-founded ordering of finite sets by inclusion) gives `Induction` over a set, which
is a variable and no operator, and with it the recursive functions (`Pick`, the walk of
the forks) are shown to have the values that their equations say.

*SystemMode*: `TypeCorrect` (`TypeOK`), `Ready` (`ReadyIsReachable`), `OneMachine`
(`OneOnTap`) and `SafeAtFirst` (`SafeUntilRestart`), for any subnets, iterations of
`run` and lengths of a wait, under the assumptions of the module. `IInv` adds to
`TypeOK`: `OnlyLastPlugged`, that only the machine started last is on the tap device,
since the tap is made anew before each start and takes the earlier machines off;
`RunnerLeft`, that the attempts are not spent while one is under way; `ReadyFromUp`,
that nothing between the ping that answers and the report changes what was reached; and
`Superseding`, that before the first restart for procd no environment has been given up
for the garbage collector.

`Firmware_proofs` holds four groups of theorems. `Least` and `Greatest` (a set of
numbers has a least one, a finite one a greatest) are proved there without induction,
out of the ordering of finite sets by inclusion.

*Preparation*, for any images, cases and sizes of programs: `PreparationTyped`
(`TypeOK`), `TargetStaysIntact` (`TargetIntact`), `NothingUnwanted` (`Quiet`),
`GivenUpWithReason` (`GivenUpForCause`), `StartIsRight` (`StartFound`). The assumptions
are those of the module. `CasesAssumption` only gives the shape of a case;
`NamesAssumption` says that `sh`, `inittab` and the names that are always replaced by
dummies contain neither `reboot` nor `shutdown`;
`ServersAssumption` says that no list of servers names a file that a pass removes or
replaces, which the two tables of the code bear out for all services but DHCP, and
that `miniupnpc` does not win over `miniupnpd` by its size. The invariant `PrepInv`
says for each step which passes are behind it: the target is a candidate that no pass
has touched (`Kept`) and the best there is (`Best`); what each pass was after is gone
unless out of its reach (`Stilled`); what was replaced by a dummy has one of the names
that are replaced (`Dummies`), so no pass finds it again. One lemma, `PassKeeps`, covers
all passes over the files; each pass only shows what it does to the target.

*Greenhouse*, for any firmware and any numbers of cycles and mishaps:
`GreenhouseTyped`, `PatchesComeLast` (`PatchIsLast`), `SuccessLasts`
(`SuccessRunsAgain`), `GivenUpWithCause` (`GivesUpForCause`). `GhInv`: what runs in the
container was patched on the host (`Carried`); the target stops where it must with what
is there (`StopsThere`); in the mode of patches no file or key is missing at that place
that the round before could have copied (`Ordered`, the heart of `PatchIsLast`: it
follows what was seen, last and now, through a round); each mode has its steps
(`Modes`); what a round saw belongs to where the target stopped, although an old target
may answer in its place (`Symptoms`); and who once served stops nowhere (`ServedOnce`).

*Processes*, for any script, number of commands, tries and rounds: `ProcessesTyped`,
`TargetIsSpared` (`TargetSpared`), `OneTargetLeft` (`OneTarget`) and, under
`~ScriptIsRcS`, `BootIsUnblocked` (`Unblocks`). `PInv`: the table of processes is a
tree whose root is the init (`IsTree`), and nothing has the target before the last
command of the script (`Scripted`). `OneTarget` needs `Cornered`: a prompt firmware
stands still from the look at the call chain on, and when the watchdogs are dead
nothing is left that could start the target again.

The hypothesis of `BootIsUnblocked` is what the code needs: with `ScriptIsRcS` the
property fails, as said above. `Unblocking` describes a prompt boot that has not come
to the target. Around the init, the script and what outlived earlier commands
(`Around`), the current command hangs without its child (`Hung`) or with it (`Fed`).
The walk owes tries: `Due` for the process that hangs now, given the indices tried at
its place, and two or three for each command ahead (`Ahead`). `Paid` says that the tries
so far and those owed never exceed `Effort`, and each look at the tree pays one. Since
the trees of a boot are that shallow (`ShallowPaths`), the longest path, which the code
computes recursively, is known for each shape (`FedDeepest`). That the firmware starts
the target at all within the window of a look is in the model (`prompt`), not proved.

*Network*, for any devices, addresses, subnets and bounds: `NetworkTyped`,
`NoAddressTwice` (`AddressOnce`), `ReconfiguredIsRestored` (`Restored`) and
`ReconfiguredIsLeftAlone` (`LeftAlone`). `InitialAssumption`, that `run` starts with
addresses that are all different, is needed for `AddressOnce`. Its invariant `NetInv`:
undisturbed, no address is on two devices (`Apart`) or at two entries of `network_info`
(`InfoApart`), and in the middle of a reconfiguration a device carries no more than the
snapshot says until the loop has been at it, then no more than is wished (`Carries`).
For the other two `Restoring` tells what each reconfiguration in a row has achieved,
whatever state the first one found: the first leaves no device and no address that is
too much (`Narrowing`, `Narrowed`); the second works on such a snapshot and makes each
device with an address serve it, since what is made anew takes nothing from a device of
another subnet (`Repairing`); the third finds nothing to do (`Steady`). As in the run,
this is for `Simple(info)`.

Only model-checked is liveness, which TLAPS does not do: `KeyIsDropped`, `IndexSettles`,
`Terminates`, `ProbeEnds`, `Finishes`, `Ends`. Every safety property that a run checks is
a theorem.

`Unblocks` is proved under a hypothesis on a constant that its run sets as well; without
it the code does not have the property.

## Not modelled

- The contents of what the fixes write, and the inference of values by symbolic
  execution and NVRAM analysis: computed by angr and Ghidra from binaries; a model
  of their result would only restate it. The loop takes any result.
- Inside the call chain and the search for a peer, what Ghidra and angr do with one
  function. The control around them is modelled.
- Of the preparation: the helper scripts and device files that are added, and a torn
  `{iid}.tar.gz` after a timeout, which the next run takes for a success.
- Of the rehosting: the scripts and the archive of an export (`Rehosting.py`, 1362 to
  1965), and building the image of the container.
- Of the Greenhouse copy: its full-system rehosting and batch mode, which Firmwell
  never calls.
- DNS and UPnP checkers, the RSF checker and the fix record: sequential and without
  state that anything else reads. FirmAE is vendored, the evaluation scripts print
  tables.
- `docker_cp`, the compose file, IPv6 and interface labels with a colon, the
  ablation switches, the generated shell scripts.
- The call-chain and success caches that pods of one image share
  (`docker_k8_run.sh:195`).

`PROJECT.json` ("components") gives the reason for each part. A little less than a third
of the implementation's lines are mapped. The rest is mostly generated scripts, tables,
logging, vendored code, and the text and memory handling of the static analyses.

## Plan

1. For Trace the matchers that are left out (magic bytes, ports in use), and properties
   of later runs: which errors the comparison with earlier ones hides.
2. A module for the export: the archive, its scripts and the verification that starts
   the exported container again.
3. Two indices with the same image, for the shared caches.
4. RehostLoop's step that restores the network shown to be Network's `Restored`, and
   its answers shown to be those of HttpCheck.
5. `HttpCheck` with the life of the service as a variable: what the second look of
   the browser says of a service that crashes after its first answer.
