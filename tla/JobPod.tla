------------------------------- MODULE JobPod -------------------------------
(***************************************************************************)
(* The life of one index of the batch Job of k8s/fw_k8s_job.yaml: the      *)
(* worker container (entrypoint.sh, docker_init.sh, docker_k8_run.sh and   *)
(* docker_k8_extract.sh), the dockerd sidecar (entrypoint_dind.sh), the    *)
(* files on the shared volume through which they and successive pods of    *)
(* the index talk to each other, and the Job controller that starts pods   *)
(* and replaces failed ones.                                               *)
(***************************************************************************)
EXTENDS Integers, Sequences, FiniteSets

CONSTANTS Completions,   \* spec.completions
          Parallelism,   \* spec.parallelism
          BackoffLimit,  \* spec.backoffLimit
          PreExtracted,  \* lines with an archive in /shared/extracted_fs
          StaleDone,     \* indices that may have a done file from an earlier batch
          RetryFlag,     \* RETRY_FLAG of entrypoint.sh
          MaxFaults,     \* bound: kills, evictions and dockerd deaths in a behaviour
          NoLog

ASSUME JobAssumption == /\ Completions \in Nat \ {0}
                        /\ Parallelism \in Nat \ {0}
                        /\ BackoffLimit \in Nat
                        /\ MaxFaults \in Nat
ASSUME FlagAssumption == RetryFlag \in BOOLEAN
ASSUME NoLogAssumption == NoLog \notin Seq(Nat)

Index == 0..(Completions - 1)

ASSUME StaleAssumption == StaleDone \subseteq Index

EntryMaxRetries == 1    \* MAX_RETRIES of entrypoint.sh
RunMaxRetries == 2      \* MAX_RETRIES of docker_k8_run.sh

VARIABLES
  (* the shared volume *)
  done,      \* indices with a file done/<index>
  log,       \* logs/<index>: the pods whose output it holds, in order, or NoLog
  retries,   \* the number in retries/<index>, 0 if there is no such file
  results,   \* the pod whose archive is in results/, 0 if none
  torn,      \* indices whose archive in results/ is not completely copied
  (* the worker container of each index's current pod *)
  worker,    \* the step it is at
  tmplogs,   \* docker_init.sh got as far as mkdir /tmp/logs
  ret,       \* RET_CODE of firmwell.py: 0, or 1 for any other value
  produced,  \* this pod's number if its firmwell.py run left a results directory, or 0
  exit,      \* exit code of the worker, -1 while it runs
  (* the sidecar container *)
  sidecar, dockerd,
  (* the Job controller *)
  phase,     \* of the index
  pod,       \* number of pods created for the index
  last,      \* exit code of the index's previous pod, -1 if none
  failures,  \* failed pods that count towards backoffLimit
  (* auxiliary *)
  stale,     \* the current pod started with its done file present
  faults

shared == <<done, log, retries, results, torn>>
inWorker == <<worker, tmplogs, ret, produced, exit>>
inSidecar == <<sidecar, dockerd>>
controller == <<phase, pod, last, failures>>
vars == <<shared, inWorker, inSidecar, controller, stale, faults>>

WorkerStep == {"none", "start", "init", "extract", "extract_failed", "rehost", "export",
               "exporting", "log", "logging", "retry", "relog", "touch", "exited"}

(* After entrypoint.sh decided to run, before the final touch. *)
Working == {"init", "extract", "rehost", "export", "exporting", "log", "logging", "retry", "relog"}

TypeOK ==
  /\ done \subseteq Index /\ torn \subseteq Index
  /\ log \in [Index -> Seq(Nat) \cup {NoLog}]
  /\ retries \in [Index -> 0..RunMaxRetries]
  /\ results \in [Index -> Nat] /\ produced \in [Index -> Nat] /\ pod \in [Index -> Nat]
  /\ worker \in [Index -> WorkerStep]
  /\ tmplogs \in [Index -> BOOLEAN] /\ stale \in [Index -> BOOLEAN]
  /\ ret \in [Index -> {0, 1}]
  /\ exit \in [Index -> {-1, 0, 1, 42, 137}] /\ last \in [Index -> {-1, 0, 1, 42, 137}]
  /\ sidecar \in [Index -> {"none", "start", "wait", "exited"}]
  /\ dockerd \in [Index -> {"off", "up", "dead"}]
  /\ phase \in [Index -> {"pending", "running", "succeeded"}]
  /\ failures \in Nat
  /\ faults \in 0..MaxFaults

Init ==
  /\ done \in SUBSET StaleDone
  /\ log = [i \in Index |-> NoLog]
  /\ retries = [i \in Index |-> 0]
  /\ results = [i \in Index |-> 0] /\ torn = {}
  /\ worker = [i \in Index |-> "none"]
  /\ tmplogs = [i \in Index |-> FALSE]
  /\ ret = [i \in Index |-> 0] /\ produced = [i \in Index |-> 0]
  /\ exit = [i \in Index |-> -1]
  /\ sidecar = [i \in Index |-> "none"] /\ dockerd = [i \in Index |-> "off"]
  /\ phase = [i \in Index |-> "pending"]
  /\ pod = [i \in Index |-> 0] /\ last = [i \in Index |-> -1]
  /\ failures = 0
  /\ stale = [i \in Index |-> FALSE]
  /\ faults = 0

-----------------------------------------------------------------------------
(* The Job controller and the kubelet (Kubernetes: modelled from the       *)
(* manifest).                                                              *)
Running == {i \in Index : phase[i] = "running"}

JobFailed == failures > BackoffLimit

CreatePod(i) ==
  /\ phase[i] = "pending"
  /\ Cardinality(Running) < Parallelism
  /\ ~JobFailed
  /\ phase' = [phase EXCEPT ![i] = "running"]
  /\ pod' = [pod EXCEPT ![i] = @ + 1]
  /\ worker' = [worker EXCEPT ![i] = "start"]
  /\ tmplogs' = [tmplogs EXCEPT ![i] = FALSE]
  /\ ret' = [ret EXCEPT ![i] = 0]
  /\ exit' = [exit EXCEPT ![i] = -1]
  /\ sidecar' = [sidecar EXCEPT ![i] = "start"]
  /\ dockerd' = [dockerd EXCEPT ![i] = "off"]
  /\ produced' = [produced EXCEPT ![i] = 0]
  /\ stale' = [stale EXCEPT ![i] = i \in done]
  /\ UNCHANGED <<shared, last, failures, faults>>

(* The containers of i's pod are gone and its phase is p. *)
PodGone(i, p, code) ==
  /\ phase' = [phase EXCEPT ![i] = p]
  /\ last' = [last EXCEPT ![i] = code]
  /\ worker' = [worker EXCEPT ![i] = "none"]
  /\ sidecar' = [sidecar EXCEPT ![i] = "none"]
  /\ dockerd' = [dockerd EXCEPT ![i] = "off"]
  /\ UNCHANGED <<shared, tmplogs, ret, produced, exit, pod, stale>>

PodSucceeds(i) ==
  /\ worker[i] = "exited" /\ sidecar[i] = "exited"
  /\ exit[i] = 0
  /\ PodGone(i, "succeeded", 0)
  /\ UNCHANGED <<failures, faults>>

(* podFailurePolicy: exit code 42 is ignored, every other one counts. *)
Counted(i) == exit[i] # 42

PodFails(i) ==
  /\ worker[i] = "exited" /\ sidecar[i] = "exited"
  /\ exit[i] # 0
  /\ PodGone(i, "pending", exit[i])
  /\ failures' = failures + (IF Counted(i) THEN 1 ELSE 0)
  /\ UNCHANGED faults

(* Broken variant: only a pod that asked for a retry is ever ended. *)
DeadlineForRetryOnly(i) ==
  /\ worker[i] = "exited" /\ sidecar[i] = "wait" /\ exit[i] = 42
  /\ PodGone(i, "pending", 42)
  /\ UNCHANGED <<failures, faults>>

(* activeDeadlineSeconds: the sidecar waits for a flag nobody will touch. *)
DeadlineExceeded(i) ==
  /\ worker[i] = "exited" /\ sidecar[i] = "wait" /\ i \notin done
  /\ PodGone(i, "pending", exit[i])
  /\ failures' = failures + (IF Counted(i) THEN 1 ELSE 0)
  /\ UNCHANGED faults

Fault == faults < MaxFaults /\ faults' = faults + 1

(* The pod is evicted.  The rule that counts an exit code comes before the
   one that ignores DisruptionTarget: a container that was killed with 137
   or 143 makes the pod count, one that left no code does not. *)
Evicted(i) ==
  /\ Fault
  /\ phase[i] = "running"
  /\ PodGone(i, "pending", 137)
  /\ failures' \in {failures, failures + 1}

(* The worker container is killed (OOM) and restartPolicy is Never. *)
WorkerKilled(i) ==
  /\ Fault
  /\ worker[i] \notin {"none", "exited"}
  /\ worker' = [worker EXCEPT ![i] = "exited"]
  /\ exit' = [exit EXCEPT ![i] = 137]
  /\ UNCHANGED <<shared, tmplogs, ret, produced, inSidecar, controller, stale>>

(* dockerd alone is killed; the sidecar's shell goes on waiting. *)
DockerdKilled(i) ==
  /\ Fault
  /\ dockerd[i] = "up"
  /\ dockerd' = [dockerd EXCEPT ![i] = "dead"]
  /\ UNCHANGED <<shared, inWorker, sidecar, controller, stale>>

-----------------------------------------------------------------------------
(* The sidecar: entrypoint_dind.sh.  Its two early exits test SKIP_FLAG,   *)
(* which its container does not set.                                       *)
SidecarStarts(i) ==
  /\ sidecar[i] = "start"
  /\ IF i = 0
     THEN /\ done' = done \cup {i}
          /\ sidecar' = [sidecar EXCEPT ![i] = "exited"]
     ELSE /\ sidecar' = [sidecar EXCEPT ![i] = "wait"]
          /\ UNCHANGED done
  /\ UNCHANGED <<log, retries, results, torn, inWorker, dockerd, controller, stale, faults>>

DockerdUp(i) ==
  /\ sidecar[i] = "wait" /\ dockerd[i] = "off"
  /\ dockerd' = [dockerd EXCEPT ![i] = "up"]
  /\ UNCHANGED <<shared, inWorker, sidecar, controller, stale, faults>>

(* while [ ! -f "${DONE_PATH}" ]: when the shell exits, dockerd dies with it. *)
SidecarExits(i) ==
  /\ sidecar[i] = "wait"
  /\ i \in done
  /\ sidecar' = [sidecar EXCEPT ![i] = "exited"]
  /\ dockerd' = [dockerd EXCEPT ![i] = "dead"]
  /\ UNCHANGED <<shared, inWorker, controller, stale, faults>>

-----------------------------------------------------------------------------
(* The worker. *)
At(i, step) == worker[i] = step
Goto(i, step) == worker' = [worker EXCEPT ![i] = step]
ExitWith(i, code) == Goto(i, "exited") /\ exit' = [exit EXCEPT ![i] = code]

env == <<inSidecar, controller, stale, faults>>

(* The skip logic of entrypoint.sh, with SKIP_FLAG=1. *)
Skips(i) ==
  /\ log[i] # NoLog
  /\ ~(RetryFlag /\ retries[i] # 0 /\ retries[i] < EntryMaxRetries)

Entrypoint(i) ==
  /\ At(i, "start")
  /\ IF i = 0 \/ Skips(i)
     THEN /\ done' = done \cup {i}
          /\ ExitWith(i, 0)
     ELSE /\ done' = IF log[i] = NoLog THEN done \ {i} ELSE done
          /\ Goto(i, "init")
          /\ UNCHANGED exit
  /\ UNCHANGED <<log, retries, results, torn, tmplogs, ret, produced, env>>

(* docker_init.sh: `docker ps' answers, the directories are made. *)
DockerInit(i) ==
  /\ At(i, "init")
  /\ dockerd[i] = "up"
  /\ tmplogs' = [tmplogs EXCEPT ![i] = TRUE]
  /\ Goto(i, "extract")
  /\ UNCHANGED <<shared, ret, produced, exit, env>>

(* docker_init.sh: 100 checks without dockerd, exit 1.  entrypoint.sh does *)
(* not look at the exit code.                                              *)
DockerInitGivesUp(i) ==
  /\ At(i, "init")
  /\ dockerd[i] # "up"
  /\ Goto(i, "extract")
  /\ UNCHANGED <<shared, tmplogs, ret, produced, exit, env>>

(* docker_k8_extract.sh leaves /output/images/<index>.tar.gz: copied, or   *)
(* unpacked by firmwell.py, whose output is redirected into /tmp/logs and  *)
(* whose extractor runs in Docker.                                         *)
Extract(i) ==
  /\ At(i, "extract")
  /\ i \in PreExtracted \/ (tmplogs[i] /\ dockerd[i] = "up")
  /\ Goto(i, "rehost")
  /\ UNCHANGED <<shared, tmplogs, ret, produced, exit, env>>

(* No artifact: the local log, if there is one, is copied to the volume. *)
ExtractFails(i) ==
  /\ At(i, "extract")
  /\ i \notin PreExtracted
  /\ log' = IF tmplogs[i] THEN [log EXCEPT ![i] = <<pod[i]>>] ELSE log
  /\ Goto(i, "extract_failed")
  /\ UNCHANGED <<done, retries, results, torn, tmplogs, ret, produced, exit, env>>

(* Broken variant: a failed extraction ends the pod with exit 0. *)
AbortQuietly(i) ==
  /\ At(i, "extract_failed")
  /\ done' = done \cup {i}
  /\ ExitWith(i, 0)
  /\ UNCHANGED <<log, retries, results, torn, tmplogs, ret, produced, env>>

AbortExtraction(i) ==
  /\ At(i, "extract_failed")
  /\ done' = done \cup {i}
  /\ ExitWith(i, 1)
  /\ UNCHANGED <<log, retries, results, torn, tmplogs, ret, produced, env>>

(* timeout 7200 firmwell.py >> LOCAL_OUT: without /tmp/logs the shell does *)
(* not even start it; without dockerd it leaves no results.                *)
Rehost(i) ==
  /\ At(i, "rehost")
  /\ \E r \in (IF tmplogs[i] THEN {0, 1} ELSE {1}),
        p \in (IF tmplogs[i] /\ dockerd[i] = "up" THEN {0, pod[i]} ELSE {0}) :
        /\ ret' = [ret EXCEPT ![i] = r]
        /\ produced' = [produced EXCEPT ![i] = p]
  /\ Goto(i, "export")
  /\ UNCHANGED <<shared, tmplogs, exit, env>>

(* Broken variant: the copy goes on in the background. *)
ExportInBackground(i) ==
  /\ At(i, "export")
  /\ IF produced[i] = pod[i]
     THEN results' = [results EXCEPT ![i] = pod[i]] /\ torn' = torn \cup {i}
     ELSE UNCHANGED <<results, torn>>
  /\ Goto(i, "log")
  /\ UNCHANGED <<done, log, retries, tmplogs, ret, produced, exit, env>>

(* cp of the archive of /tmp/results/<index>: begun, then complete. *)
Export(i) ==
  /\ At(i, "export")
  /\ IF produced[i] = pod[i]
     THEN /\ results' = [results EXCEPT ![i] = pod[i]]
          /\ torn' = torn \cup {i}
          /\ Goto(i, "exporting")
     ELSE /\ Goto(i, "log")
          /\ UNCHANGED <<results, torn>>
  /\ UNCHANGED <<done, log, retries, tmplogs, ret, produced, exit, env>>

ExportEnds(i) ==
  /\ At(i, "exporting")
  /\ torn' = torn \ {i}
  /\ Goto(i, "log")
  /\ UNCHANGED <<done, log, retries, results, tmplogs, ret, produced, exit, env>>

(* LOG_OP ">" or ">>": the shell opens the file before cat writes it. *)
OpenLog(i) ==
  /\ At(i, "log")
  /\ log' = [log EXCEPT ![i] = IF retries[i] >= 1 /\ @ # NoLog THEN @ ELSE <<>>]
  /\ Goto(i, "logging")
  /\ UNCHANGED <<done, retries, results, torn, tmplogs, ret, produced, exit, env>>

AppendOutput(i) == log' = IF tmplogs[i] THEN [log EXCEPT ![i] = Append(@, pod[i])] ELSE log

WriteLog(i) ==
  /\ At(i, "logging")
  /\ AppendOutput(i)
  /\ Goto(i, "retry")
  /\ UNCHANGED <<done, retries, results, torn, tmplogs, ret, produced, exit, env>>

RetryCount(i) == IF retries[i] = 0 THEN 1 ELSE retries[i]

(* The retry logic: exit 42 while COUNT < MAX_RETRIES. *)
Retry(i) ==
  /\ At(i, "retry")
  /\ IF RetryFlag /\ ret[i] # 0
     THEN IF RetryCount(i) < RunMaxRetries
          THEN /\ retries' = [retries EXCEPT ![i] = RetryCount(i) + 1]
               /\ ExitWith(i, 42)
          ELSE /\ retries' = [retries EXCEPT ![i] = RetryCount(i)]
               /\ Goto(i, "relog")
               /\ UNCHANGED exit
     ELSE Goto(i, "relog") /\ UNCHANGED <<retries, exit>>
  /\ UNCHANGED <<done, log, results, torn, tmplogs, ret, produced, env>>

(* The last `cat >>' of docker_k8_run.sh. *)
Relog(i) ==
  /\ At(i, "relog")
  /\ AppendOutput(i)
  /\ Goto(i, "touch")
  /\ UNCHANGED <<done, retries, results, torn, tmplogs, ret, produced, exit, env>>

TouchDone(i) ==
  /\ At(i, "touch")
  /\ done' = done \cup {i}
  /\ ExitWith(i, 0)
  /\ UNCHANGED <<log, retries, results, torn, tmplogs, ret, produced, env>>

WorkerNext(i) ==
  \/ Entrypoint(i) \/ DockerInit(i) \/ DockerInitGivesUp(i)
  \/ Extract(i) \/ ExtractFails(i) \/ AbortExtraction(i)
  \/ Rehost(i) \/ Export(i) \/ ExportEnds(i)
  \/ OpenLog(i) \/ WriteLog(i) \/ Retry(i) \/ Relog(i) \/ TouchDone(i)

SidecarNext(i) == SidecarStarts(i) \/ DockerdUp(i) \/ SidecarExits(i)

ControllerNext(i) == CreatePod(i) \/ PodSucceeds(i) \/ PodFails(i) \/ DeadlineExceeded(i)

FaultNext(i) == Evicted(i) \/ WorkerKilled(i) \/ DockerdKilled(i)

Next == \E i \in Index : WorkerNext(i) \/ SidecarNext(i) \/ ControllerNext(i) \/ FaultNext(i)

Spec == Init /\ [][Next]_vars

(* Containers run and the controller reacts; faults need not happen. *)
Fairness == \A i \in Index : /\ WF_vars(WorkerNext(i))
                             /\ WF_vars(SidecarNext(i))
                             /\ WF_vars(ControllerNext(i))

FairSpec == Spec /\ Fairness

-----------------------------------------------------------------------------
(* A completed index has its log and its done file on the volume, whatever *)
(* pods were killed or replaced on the way.                                *)
SucceededIsLogged ==
  \A i \in Index : phase[i] = "succeeded" /\ i # 0 => log[i] # NoLog /\ i \in done

(* Once the log is there a later pod skips the index: by then the archive  *)
(* of the last run, if it left one, is completely on the volume.           *)
ResultsBeforeLog ==
  \A i \in Index : log[i] # NoLog /\ produced[i] # 0 => results[i] = produced[i] /\ i \notin torn

(* dockerd leaves a worker that needs it only if the pod found a done file *)
(* of an earlier pod or batch.                                             *)
EarlyExitOnlyIfStale ==
  \A i \in Index : sidecar[i] = "exited" /\ worker[i] \in Working => stale[i]

(* While the worker rehosts its index is not marked done. *)
DoneAfterWork ==
  \A i \in Index : worker[i] \in Working => i \notin done

(* No pod rehosts an index whose log is on the volume. *)
RehostOnlyUnlogged ==
  [][\A i \in Index : worker[i] # "rehost" /\ worker'[i] = "rehost" => log[i] = NoLog]_vars

(* What a log holds stays there: a later pod only appends. *)
LogsOnlyGrow ==
  [][\A i \in Index : log[i] # NoLog => /\ log'[i] # NoLog
                                        /\ Len(log[i]) <= Len(log'[i])
                                        /\ SubSeq(log'[i], 1, Len(log[i])) = log[i]]_vars

(* Every index completes, unless the Job as a whole gives up. *)
IndexSettles == \A i \in Index : <>(phase[i] = "succeeded" \/ JobFailed)
=============================================================================
