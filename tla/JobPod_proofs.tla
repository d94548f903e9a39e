----------------------------- MODULE JobPod_proofs -----------------------------
(***************************************************************************)
(* What the run of JobPod checks on two indices and two faults, proved for *)
(* any number of indices, pods at a time, failed pods and faults.          *)
(***************************************************************************)
EXTENDS JobPod, SequenceTheorems, TLAPS

(* The steps between the decision of entrypoint.sh to run and the log. *)
Unlogged == {"init", "extract", "rehost", "export", "exporting", "log"}

Logged == {"logging", "retry", "relog", "touch"}

(* The log of an index appears when its worker opens it, and stays. *)
LogState(i) == /\ worker[i] \in Unlogged => log[i] = NoLog
               /\ worker[i] \in Logged => log[i] # NoLog

(* While the worker works its index is not done. *)
DoneState(i) == worker[i] \in Working => i \notin done

(* Nothing runs for an index between its pods; index 0 never works. *)
PodState(i) == /\ phase[i] # "running" => worker[i] = "none" /\ sidecar[i] = "none"
               /\ i = 0 => worker[i] \in {"none", "start", "exited"}

(* A done file, or a sidecar that has left, before the worker has decided  *)
(* are of an earlier pod; later a sidecar that has left was there then.    *)
StaleState(i) == /\ i # 0 /\ worker[i] = "start" /\ (i \in done \/ sidecar[i] = "exited") => stale[i]
                 /\ worker[i] \in Working /\ sidecar[i] = "exited" => stale[i]

(* Exit code 0 is that of a skip or of the last line of the script. *)
ExitState(i) == /\ i # 0 /\ worker[i] = "exited" /\ exit[i] = 0 => log[i] # NoLog /\ i \in done
                /\ i # 0 /\ phase[i] = "succeeded" => log[i] # NoLog /\ i \in done

(* The archive on its way from this pod to the volume. *)
ArchiveState(i) ==
  /\ produced[i] \in {0, pod[i]}
  /\ worker[i] \in {"start", "init", "extract", "extract_failed", "rehost"} => produced[i] = 0
  /\ worker[i] = "exporting" => results[i] = produced[i]
  /\ worker[i] = "log" /\ produced[i] # 0 => results[i] = produced[i] /\ i \notin torn
  /\ log[i] # NoLog /\ produced[i] # 0 => results[i] = produced[i] /\ i \notin torn

IndexInv(i) == /\ LogState(i) /\ DoneState(i) /\ PodState(i) /\ StaleState(i)
               /\ ExitState(i) /\ ArchiveState(i)

PodInv == TypeOK /\ \A i \in Index : IndexInv(i)

-----------------------------------------------------------------------------
(* The types, in three parts. *)
SharedType == /\ done \subseteq Index /\ torn \subseteq Index
              /\ log \in [Index -> Seq(Nat) \cup {NoLog}]
              /\ retries \in [Index -> 0..RunMaxRetries]
              /\ results \in [Index -> Nat]

WorkerType == /\ worker \in [Index -> WorkerStep]
              /\ tmplogs \in [Index -> BOOLEAN]
              /\ ret \in [Index -> {0, 1}]
              /\ produced \in [Index -> Nat]
              /\ exit \in [Index -> {-1, 0, 1, 42, 137}]

PodType == /\ sidecar \in [Index -> {"none", "start", "wait", "exited"}]
           /\ dockerd \in [Index -> {"off", "up", "dead"}]
           /\ phase \in [Index -> {"pending", "running", "succeeded"}]
           /\ pod \in [Index -> Nat]
           /\ last \in [Index -> {-1, 0, 1, 42, 137}]
           /\ failures \in Nat
           /\ stale \in [Index -> BOOLEAN]
           /\ faults \in 0..MaxFaults

LEMMA Types == TypeOK <=> SharedType /\ WorkerType /\ PodType
BY DEF TypeOK, SharedType, WorkerType, PodType

(* entrypoint.sh skips every index with a log: no number of retries is     *)
(* below its maximum and not zero.                                         *)
LEMMA LoggedIsSkipped ==
  ASSUME TypeOK, NEW i \in Index, log[i] # NoLog
  PROVE  Skips(i)
<1>1. retries[i] \in 0..RunMaxRetries
  BY DEF TypeOK
<1> QED BY <1>1 DEF Skips, EntryMaxRetries, RunMaxRetries

LEMMA EmptyIsLog == <<>> # NoLog
<1> SUFFICES ASSUME NEW s, s = <<>> PROVE s # NoLog
  OBVIOUS
<1>1. s \in Seq(Nat)
  OBVIOUS
<1> QED BY <1>1, NoLogAssumption

LEMMA OutputType ==
  ASSUME TypeOK, NEW i \in Index, log[i] # NoLog, AppendOutput(i)
  PROVE  /\ log' \in [Index -> Seq(Nat) \cup {NoLog}]
         /\ \A j \in Index : j # i => log'[j] = log[j]
         /\ log'[i] # NoLog
         /\ log'[i] = log[i] \/ log'[i] = Append(log[i], pod[i])
<1>1. log \in [Index -> Seq(Nat) \cup {NoLog}] /\ log[i] \in Seq(Nat) /\ pod[i] \in Nat
  BY DEF TypeOK
<1>2. Append(log[i], pod[i]) \in Seq(Nat)
  BY <1>1
<1>3. CASE tmplogs[i]
  <2>1. log' = [log EXCEPT ![i] = Append(log[i], pod[i])]
    BY <1>3 DEF AppendOutput
  <2> QED BY <1>1, <1>2, <2>1, NoLogAssumption
<1>4. CASE ~tmplogs[i]
  BY <1>1, <1>4 DEF AppendOutput
<1> QED BY <1>3, <1>4

LEMMA InitPodInv == Init => PodInv
<1> SUFFICES ASSUME Init PROVE PodInv
  OBVIOUS
<1>1. SharedType
  BY StaleAssumption DEF Init, SharedType, RunMaxRetries
<1>2. WorkerType
  BY DEF Init, WorkerType, WorkerStep
<1>3. PodType
  BY JobAssumption DEF Init, PodType
<1>4. ASSUME NEW i \in Index PROVE IndexInv(i)
  BY <1>4 DEF Init, IndexInv, LogState, DoneState, PodState, StaleState, ExitState, ArchiveState,
              Unlogged, Logged, Working
<1> QED BY <1>1, <1>2, <1>3, <1>4, Types DEF PodInv

-----------------------------------------------------------------------------
(* A step of one index leaves the others alone. *)
SameFor(j) == /\ log'[j] = log[j] /\ results'[j] = results[j]
              /\ worker'[j] = worker[j] /\ produced'[j] = produced[j] /\ exit'[j] = exit[j]
              /\ sidecar'[j] = sidecar[j] /\ phase'[j] = phase[j] /\ pod'[j] = pod[j]
              /\ stale'[j] = stale[j]
              /\ (j \in done' <=> j \in done)
              /\ (j \in torn' <=> j \in torn)

LEMMA SameIndexInv ==
  ASSUME NEW j \in Index, IndexInv(j), SameFor(j)
  PROVE  IndexInv(j)'
BY DEF SameFor, IndexInv, LogState, DoneState, PodState, StaleState, ExitState, ArchiveState

LEMMA WorkerElsewhere ==
  ASSUME PodInv, NEW i \in Index, NEW j \in Index, j # i, WorkerNext(i)
  PROVE  SameFor(j)
<1> USE DEF SameFor, PodInv, Goto, ExitWith, env, inSidecar, controller, shared
<1>1. WorkerType /\ SharedType
  BY Types
<1>2. CASE Entrypoint(i) BY <1>1, <1>2 DEF Entrypoint, WorkerType
<1>3. CASE DockerInit(i) \/ DockerInitGivesUp(i)
  BY <1>1, <1>3 DEF DockerInit, DockerInitGivesUp, WorkerType
<1>4. CASE Extract(i) BY <1>1, <1>4 DEF Extract, WorkerType
<1>5. CASE ExtractFails(i) BY <1>1, <1>5 DEF ExtractFails, WorkerType, SharedType
<1>6. CASE AbortExtraction(i) \/ TouchDone(i) BY <1>1, <1>6 DEF AbortExtraction, TouchDone, WorkerType
<1>7. CASE Rehost(i) BY <1>1, <1>7 DEF Rehost, WorkerType
<1>8. CASE Export(i) BY <1>1, <1>8 DEF Export, WorkerType, SharedType
<1>9. CASE ExportEnds(i) BY <1>1, <1>9 DEF ExportEnds, WorkerType
<1>10. CASE OpenLog(i) BY <1>1, <1>10 DEF OpenLog, WorkerType, SharedType
<1>11. CASE WriteLog(i) \/ Relog(i)
  BY <1>1, <1>11 DEF WriteLog, Relog, AppendOutput, WorkerType, SharedType
<1>12. CASE Retry(i) BY <1>1, <1>12 DEF Retry, WorkerType, SharedType
<1> QED BY <1>2, <1>3, <1>4, <1>5, <1>6, <1>7, <1>8, <1>9, <1>10, <1>11, <1>12 DEF WorkerNext

LEMMA RestElsewhere ==
  ASSUME PodInv, NEW i \in Index, NEW j \in Index, j # i,
         SidecarNext(i) \/ ControllerNext(i) \/ FaultNext(i)
  PROVE  SameFor(j)
<1> USE DEF SameFor, inSidecar, inWorker, controller, shared
<1>1. WorkerType /\ PodType
  BY Types DEF PodInv
<1>2. CASE SidecarNext(i)
  BY <1>1, <1>2 DEF SidecarNext, SidecarStarts, DockerdUp, SidecarExits, PodType
<1>3. CASE CreatePod(i) BY <1>1, <1>3 DEF CreatePod, WorkerType, PodType
<1>4. CASE PodSucceeds(i) \/ PodFails(i) \/ DeadlineExceeded(i) \/ Evicted(i)
  BY <1>1, <1>4 DEF PodSucceeds, PodFails, DeadlineExceeded, Evicted, PodGone, WorkerType, PodType
<1>5. CASE WorkerKilled(i) \/ DockerdKilled(i)
  BY <1>1, <1>5 DEF WorkerKilled, DockerdKilled, WorkerType, PodType
<1> QED BY <1>2, <1>3, <1>4, <1>5 DEF ControllerNext, FaultNext

-----------------------------------------------------------------------------
(* The types. *)
LEMMA WorkerTypes ==
  ASSUME PodInv, NEW i \in Index, WorkerNext(i)
  PROVE  TypeOK'
<1> USE DEF WorkerStep, At, Goto, ExitWith, env, inSidecar, controller, shared
<1>1. SharedType /\ WorkerType /\ PodType
  BY Types DEF PodInv
<1>2. PodType'
  BY <1>1 DEF PodType, WorkerNext, Entrypoint, DockerInit, DockerInitGivesUp, Extract, ExtractFails,
         AbortExtraction, Rehost, Export, ExportEnds, OpenLog, WriteLog, Retry, Relog, TouchDone
<1>3. WorkerType'
  <2> USE DEF WorkerType
  <2>1. CASE Entrypoint(i) BY <1>1, <2>1 DEF Entrypoint
  <2>2. CASE DockerInit(i) BY <1>1, <2>2 DEF DockerInit
  <2>3. CASE DockerInitGivesUp(i) BY <1>1, <2>3 DEF DockerInitGivesUp
  <2>4. CASE Extract(i) BY <1>1, <2>4 DEF Extract
  <2>5. CASE ExtractFails(i) BY <1>1, <2>5 DEF ExtractFails
  <2>6. CASE AbortExtraction(i) \/ TouchDone(i) BY <1>1, <2>6 DEF AbortExtraction, TouchDone
  <2>7. CASE Rehost(i)
    <3>1. ret' \in [Index -> {0, 1}] /\ produced' \in [Index -> Nat]
      BY <1>1, <2>7 DEF Rehost, PodType
    <3> QED BY <1>1, <2>7, <3>1 DEF Rehost
  <2>8. CASE Export(i) BY <1>1, <2>8 DEF Export
  <2>9. CASE ExportEnds(i) BY <1>1, <2>9 DEF ExportEnds
  <2>10. CASE OpenLog(i) BY <1>1, <2>10 DEF OpenLog
  <2>11. CASE WriteLog(i) BY <1>1, <2>11 DEF WriteLog
  <2>12. CASE Relog(i) BY <1>1, <2>12 DEF Relog
  <2>13. CASE Retry(i) BY <1>1, <2>13 DEF Retry
  <2> QED BY <2>1, <2>2, <2>3, <2>4, <2>5, <2>6, <2>7, <2>8, <2>9, <2>10, <2>11, <2>12, <2>13
          DEF WorkerNext
<1>4. SharedType'
  <2> USE DEF SharedType
  <2>1. CASE Entrypoint(i) BY <1>1, <2>1 DEF Entrypoint
  <2>2. CASE DockerInit(i) \/ DockerInitGivesUp(i) BY <1>1, <2>2 DEF DockerInit, DockerInitGivesUp
  <2>3. CASE Extract(i) BY <1>1, <2>3 DEF Extract
  <2>4. CASE ExtractFails(i)
    <3>1. <<pod[i]>> \in Seq(Nat)
      BY <1>1 DEF PodType
    <3>2. log' \in [Index -> Seq(Nat) \cup {NoLog}]
      BY <1>1, <2>4, <3>1 DEF ExtractFails
    <3> QED BY <1>1, <2>4, <3>2 DEF ExtractFails
  <2>5. CASE AbortExtraction(i) \/ TouchDone(i) BY <1>1, <2>5 DEF AbortExtraction, TouchDone
  <2>6. CASE Rehost(i) BY <1>1, <2>6 DEF Rehost
  <2>7. CASE Export(i)
    <3>1. pod[i] \in Nat
      BY <1>1 DEF PodType
    <3>2. results' \in [Index -> Nat] /\ torn' \subseteq Index
      BY <1>1, <2>7, <3>1 DEF Export
    <3> QED BY <1>1, <2>7, <3>2 DEF Export
  <2>8. CASE ExportEnds(i) BY <1>1, <2>8 DEF ExportEnds
  <2>9. CASE OpenLog(i)
    <3>1. log' \in [Index -> Seq(Nat) \cup {NoLog}]
      BY <1>1, <2>9 DEF OpenLog
    <3> QED BY <1>1, <2>9, <3>1 DEF OpenLog
  <2>10. CASE WriteLog(i) \/ Relog(i)
    <3>1. log[i] # NoLog
      BY <2>10 DEF WriteLog, Relog, PodInv, IndexInv, LogState, Logged
    <3>2. log' \in [Index -> Seq(Nat) \cup {NoLog}]
      BY <2>10, <3>1, OutputType DEF WriteLog, Relog, PodInv
    <3> QED BY <1>1, <2>10, <3>2 DEF WriteLog, Relog
  <2>11. CASE Retry(i)
    <3>1. retries[i] \in {0, 1, 2} /\ RetryCount(i) \in {1, 2}
      BY <1>1 DEF RunMaxRetries, RetryCount
    <3>2. {1, 2} \subseteq 0..RunMaxRetries /\ retries \in [Index -> 0..RunMaxRetries]
      BY <1>1 DEF RunMaxRetries
    <3>3. \/ retries' = [retries EXCEPT ![i] = RetryCount(i) + 1] /\ RetryCount(i) < 2
          \/ retries' = [retries EXCEPT ![i] = RetryCount(i)]
          \/ retries' = retries
      BY <2>11 DEF Retry, RunMaxRetries
    <3>5. RetryCount(i) < 2 => RetryCount(i) + 1 = 2 BY <3>1
    <3>4. retries' \in [Index -> 0..RunMaxRetries] BY <3>1, <3>2, <3>3, <3>5
    <3> QED BY <1>1, <2>11, <3>4 DEF Retry
  <2> QED BY <2>1, <2>2, <2>3, <2>4, <2>5, <2>6, <2>7, <2>8, <2>9, <2>10, <2>11 DEF WorkerNext
<1> QED BY <1>2, <1>3, <1>4 DEF TypeOK, SharedType, WorkerType, PodType

LEMMA RestTypes ==
  ASSUME TypeOK, NEW i \in Index, SidecarNext(i) \/ ControllerNext(i) \/ FaultNext(i)
  PROVE  TypeOK'
<1> USE DEF WorkerStep, inSidecar, inWorker, controller, shared
<1>1. SharedType /\ WorkerType /\ PodType
  BY Types
<1>2. CASE SidecarNext(i)
  <2> USE DEF SidecarNext, SidecarStarts, DockerdUp, SidecarExits
  <2>1. SharedType' /\ WorkerType' BY <1>1, <1>2 DEF SharedType, WorkerType
  <2>2. PodType' BY <1>1, <1>2 DEF PodType
  <2> QED BY <2>1, <2>2 DEF TypeOK, SharedType, WorkerType, PodType
<1>3. CASE CreatePod(i)
  <2>1. SharedType' BY <1>1, <1>3 DEF CreatePod, SharedType
  <2>2. WorkerType' BY <1>1, <1>3 DEF CreatePod, WorkerType
  <2>3. PodType' BY <1>1, <1>3 DEF CreatePod, PodType
  <2> QED BY <2>1, <2>2, <2>3 DEF TypeOK, SharedType, WorkerType, PodType
<1>4. CASE PodSucceeds(i) \/ PodFails(i) \/ DeadlineExceeded(i) \/ Evicted(i)
  <2>1. PICK p \in {"pending", "succeeded"}, code \in {-1, 0, 1, 42, 137} : PodGone(i, p, code)
    BY <1>1, <1>4 DEF PodSucceeds, PodFails, DeadlineExceeded, Evicted, WorkerType
  <2>2. failures' \in Nat /\ faults' \in 0..MaxFaults
    BY <1>1, <1>4, JobAssumption DEF PodSucceeds, PodFails, DeadlineExceeded, Evicted, Fault, PodType
  <2>3. SharedType' BY <1>1, <2>1 DEF PodGone, SharedType
  <2>4. WorkerType' BY <1>1, <2>1 DEF PodGone, WorkerType
  <2>5. PodType' BY <1>1, <2>1, <2>2 DEF PodGone, PodType
  <2> QED BY <2>3, <2>4, <2>5 DEF TypeOK, SharedType, WorkerType, PodType
<1>5. CASE WorkerKilled(i) \/ DockerdKilled(i)
  <2>1. SharedType' BY <1>1, <1>5 DEF WorkerKilled, DockerdKilled, SharedType
  <2>2. WorkerType' BY <1>1, <1>5 DEF WorkerKilled, DockerdKilled, WorkerType
  <2>3. PodType' BY <1>1, <1>5, JobAssumption DEF WorkerKilled, DockerdKilled, Fault, PodType
  <2> QED BY <2>1, <2>2, <2>3 DEF TypeOK, SharedType, WorkerType, PodType
<1> QED BY <1>2, <1>3, <1>4, <1>5 DEF ControllerNext, FaultNext

-----------------------------------------------------------------------------
(* The steps of an index, for itself. *)
LEMMA WorkerIndexInv ==
  ASSUME PodInv, NEW i \in Index, WorkerNext(i)
  PROVE  IndexInv(i)'
<1> USE DEF IndexInv, LogState, DoneState, PodState, StaleState, ExitState, ArchiveState,
            Unlogged, Logged, Working, At, Goto, ExitWith, env, inSidecar, controller, shared
<1>1. SharedType /\ WorkerType /\ PodType /\ TypeOK /\ IndexInv(i)
  BY Types DEF PodInv
<1>2. CASE Entrypoint(i)
  <2>1. CASE i = 0 \/ Skips(i)
    BY <1>1, <1>2, <2>1 DEF Entrypoint, Skips, WorkerType
  <2>2. CASE ~(i = 0 \/ Skips(i))
    <3>1. log[i] = NoLog BY <1>1, <2>2, LoggedIsSkipped
    <3> QED BY <1>1, <1>2, <2>2, <3>1 DEF Entrypoint, WorkerType
  <2> QED BY <2>1, <2>2
<1>3. CASE DockerInit(i) \/ DockerInitGivesUp(i)
  BY <1>1, <1>3 DEF DockerInit, DockerInitGivesUp, WorkerType
<1>4. CASE Extract(i) BY <1>1, <1>4 DEF Extract, WorkerType
<1>5. CASE ExtractFails(i) BY <1>1, <1>5 DEF ExtractFails, WorkerType
<1>6. CASE AbortExtraction(i) BY <1>1, <1>6 DEF AbortExtraction, WorkerType
<1>7. CASE TouchDone(i) BY <1>1, <1>7 DEF TouchDone, WorkerType
<1>8. CASE Rehost(i) BY <1>1, <1>8 DEF Rehost, WorkerType
<1>9. CASE Export(i) BY <1>1, <1>9 DEF Export, WorkerType, SharedType
<1>10. CASE ExportEnds(i) BY <1>1, <1>10 DEF ExportEnds, WorkerType
<1>11. CASE OpenLog(i)
  <2>1. <<>> # NoLog
    BY EmptyIsLog
  <2>2. log'[i] = <<>>
    BY <1>1, <1>11 DEF OpenLog, SharedType
  <2> QED BY <1>1, <1>11, <2>1, <2>2 DEF OpenLog, WorkerType
<1>12. CASE WriteLog(i) \/ Relog(i)
  <2>1. log'[i] # NoLog
    BY <1>1, <1>12, OutputType DEF WriteLog, Relog
  <2> QED BY <1>1, <1>12, <2>1 DEF WriteLog, Relog, WorkerType
<1>13. CASE Retry(i) BY <1>1, <1>13 DEF Retry, WorkerType
<1> QED BY <1>2, <1>3, <1>4, <1>5, <1>6, <1>7, <1>8, <1>9, <1>10, <1>11, <1>12, <1>13 DEF WorkerNext

LEMMA RestIndexInv ==
  ASSUME PodInv, NEW i \in Index, SidecarNext(i) \/ ControllerNext(i) \/ FaultNext(i)
  PROVE  IndexInv(i)'
<1> USE DEF IndexInv, LogState, DoneState, PodState, StaleState, ExitState, ArchiveState,
            Unlogged, Logged, Working, inWorker, inSidecar, controller, shared
<1>1. WorkerType /\ PodType /\ IndexInv(i)
  BY Types DEF PodInv
<1>2. CASE SidecarStarts(i) BY <1>1, <1>2 DEF SidecarStarts, PodType
<1>3. CASE DockerdUp(i) BY <1>1, <1>3 DEF DockerdUp, PodType
<1>4. CASE SidecarExits(i) BY <1>1, <1>4 DEF SidecarExits, PodType
<1>5. CASE CreatePod(i)
  <2>1. /\ phase'[i] = "running" /\ worker'[i] = "start" /\ sidecar'[i] = "start"
        /\ produced'[i] = 0 /\ stale'[i] = (i \in done)
        /\ UNCHANGED <<done, log, results, torn>>
    BY <1>1, <1>5 DEF CreatePod, WorkerType, PodType
  <2> QED BY <1>1, <2>1
<1>6. CASE PodSucceeds(i) BY <1>1, <1>6 DEF PodSucceeds, PodGone, WorkerType, PodType
<1>7. CASE PodFails(i) BY <1>1, <1>7 DEF PodFails, PodGone, WorkerType, PodType
<1>8. CASE DeadlineExceeded(i) BY <1>1, <1>8 DEF DeadlineExceeded, PodGone, WorkerType, PodType
<1>9. CASE Evicted(i) BY <1>1, <1>9 DEF Evicted, PodGone, WorkerType, PodType
<1>10. CASE WorkerKilled(i) BY <1>1, <1>10 DEF WorkerKilled, WorkerType
<1>11. CASE DockerdKilled(i) BY <1>1, <1>11 DEF DockerdKilled, PodType
<1> QED BY <1>2, <1>3, <1>4, <1>5, <1>6, <1>7, <1>8, <1>9, <1>10, <1>11
        DEF SidecarNext, ControllerNext, FaultNext

LEMMA NextPodInv ==
  ASSUME PodInv, [Next]_vars
  PROVE  PodInv'
<1>1. ASSUME NEW i \in Index, WorkerNext(i)
      PROVE  PodInv'
  <2>1. \A j \in Index : IndexInv(j)'
    BY <1>1, WorkerIndexInv, WorkerElsewhere, SameIndexInv DEF PodInv
  <2> QED BY <1>1, <2>1, WorkerTypes DEF PodInv
<1>2. ASSUME NEW i \in Index, SidecarNext(i) \/ ControllerNext(i) \/ FaultNext(i)
      PROVE  PodInv'
  <2>1. \A j \in Index : IndexInv(j)'
    BY <1>2, RestIndexInv, RestElsewhere, SameIndexInv DEF PodInv
  <2>2. TypeOK'
    BY <1>2, RestTypes DEF PodInv
  <2> QED BY <2>1, <2>2 DEF PodInv
<1>3. CASE UNCHANGED vars
  <2> USE <1>3 DEF vars, shared, inWorker, inSidecar, controller
  <2>1. TypeOK'
    BY DEF PodInv, TypeOK
  <2>2. ASSUME NEW j \in Index PROVE IndexInv(j)'
    BY SameIndexInv DEF PodInv, SameFor
  <2> QED BY <2>1, <2>2 DEF PodInv
<1> QED BY <1>1, <1>2, <1>3 DEF Next

-----------------------------------------------------------------------------
(* Every variable keeps its type; a log is the output of pods or missing. *)
THEOREM TypeCorrect == Spec => []TypeOK
<1>1. PodInv => TypeOK
  BY DEF PodInv
<1> QED BY <1>1, InitPodInv, NextPodInv, PTL DEF Spec

(* An index completes only with its log on the volume, whatever pods were  *)
(* killed or evicted before.                                               *)
THEOREM CompletedHasLog == Spec => []SucceededIsLogged
<1>1. PodInv => SucceededIsLogged
  BY DEF PodInv, IndexInv, ExitState, SucceededIsLogged
<1> QED BY <1>1, InitPodInv, NextPodInv, PTL DEF Spec

(* The log that makes later pods skip an index is written after the whole  *)
(* archive of the run.                                                     *)
THEOREM ArchiveFirst == Spec => []ResultsBeforeLog
<1>1. PodInv => ResultsBeforeLog
  BY DEF PodInv, IndexInv, ArchiveState, ResultsBeforeLog
<1> QED BY <1>1, InitPodInv, NextPodInv, PTL DEF Spec

(* No done file appears under a working worker, the stale one of an        *)
(* earlier batch included.                                                 *)
THEOREM NotDoneWhileWorking == Spec => []DoneAfterWork
<1>1. PodInv => DoneAfterWork
  BY DEF PodInv, IndexInv, DoneState, DoneAfterWork
<1> QED BY <1>1, InitPodInv, NextPodInv, PTL DEF Spec

(* A pod that starts without a done file keeps its dockerd while it works. *)
THEOREM DockerdStays == Spec => []EarlyExitOnlyIfStale
<1>1. PodInv => EarlyExitOnlyIfStale
  BY DEF PodInv, IndexInv, StaleState, EarlyExitOnlyIfStale
<1> QED BY <1>1, InitPodInv, NextPodInv, PTL DEF Spec

-----------------------------------------------------------------------------
(* The only step to rehosting is that of an extracted index without a log. *)
THEOREM RehostedOnce == Spec => RehostOnlyUnlogged
<1>1. ASSUME PodInv, Next, NEW i \in Index, worker[i] # "rehost", worker'[i] = "rehost"
      PROVE  log[i] = NoLog
  <2>1. PICK j \in Index : WorkerNext(j) \/ SidecarNext(j) \/ ControllerNext(j) \/ FaultNext(j)
    BY <1>1 DEF Next
  <2>2. j = i
    BY <1>1, <2>1, WorkerElsewhere, RestElsewhere DEF SameFor
  <2>3. worker \in [Index -> WorkerStep]
    BY <1>1 DEF PodInv, TypeOK
  <2>4. CASE WorkerNext(i)
    <3>1. worker[i] = "extract"
      BY <1>1, <2>3, <2>4 DEF WorkerNext, Entrypoint, DockerInit, DockerInitGivesUp, Extract,
           ExtractFails, AbortExtraction, Rehost, Export, ExportEnds, OpenLog, WriteLog, Retry,
           Relog, TouchDone, At, Goto, ExitWith
    <3> QED BY <1>1, <3>1 DEF PodInv, IndexInv, LogState, Unlogged
  <2>5. CASE SidecarNext(i) \/ ControllerNext(i) \/ FaultNext(i)
    BY <1>1, <2>3, <2>5 DEF SidecarNext, SidecarStarts, DockerdUp, SidecarExits, ControllerNext,
         CreatePod, PodSucceeds, PodFails, DeadlineExceeded, FaultNext, Evicted, WorkerKilled,
         DockerdKilled, PodGone, inWorker
  <2> QED BY <2>1, <2>2, <2>4, <2>5
<1>2. PodInv /\ [Next]_vars => [\A i \in Index : worker[i] # "rehost" /\ worker'[i] = "rehost" => log[i] = NoLog]_vars
  BY <1>1
<1> QED BY <1>2, InitPodInv, NextPodInv, PTL DEF Spec, RehostOnlyUnlogged

(* Only a worker's steps touch logs, and each of them keeps what is there. *)
LEMMA LogStep ==
  ASSUME PodInv, Next, NEW i \in Index, log[i] # NoLog
  PROVE  log'[i] = log[i] \/ log'[i] = Append(log[i], pod[i])
<1>1. PICK j \in Index : WorkerNext(j) \/ SidecarNext(j) \/ ControllerNext(j) \/ FaultNext(j)
  BY DEF Next
<1>2. CASE j # i
  BY <1>1, <1>2, WorkerElsewhere, RestElsewhere DEF SameFor
<1>3. CASE SidecarNext(i) \/ ControllerNext(i) \/ FaultNext(i)
  BY <1>3 DEF SidecarNext, SidecarStarts, DockerdUp, SidecarExits, ControllerNext,
       CreatePod, PodSucceeds, PodFails, DeadlineExceeded, FaultNext, Evicted, WorkerKilled,
       DockerdKilled, PodGone, shared
<1>4. CASE WorkerNext(i)
  <2>1. worker[i] \notin Unlogged
    BY DEF PodInv, IndexInv, LogState
  <2>2. CASE WriteLog(i) \/ Relog(i)
    BY <2>2, OutputType DEF WriteLog, Relog, PodInv
  <2>3. CASE ~(WriteLog(i) \/ Relog(i))
    BY <1>4, <2>1, <2>3 DEF WorkerNext, Entrypoint, DockerInit, DockerInitGivesUp, Extract,
         ExtractFails, AbortExtraction, Rehost, Export, ExportEnds, OpenLog, Retry, TouchDone, At,
         Unlogged, shared
  <2> QED BY <2>2, <2>3
<1> QED BY <1>1, <1>2, <1>3, <1>4

(* No later pod truncates or replaces a log. *)
THEOREM LogsAreKept == Spec => LogsOnlyGrow
<1> DEFINE Grows(i) == log[i] # NoLog => /\ log'[i] # NoLog
                                         /\ Len(log[i]) <= Len(log'[i])
                                         /\ SubSeq(log'[i], 1, Len(log[i])) = log[i]
<1>1. ASSUME PodInv, Next, NEW i \in Index, log[i] # NoLog
      PROVE  Grows(i)
  <2>1. log[i] \in Seq(Nat) /\ pod[i] \in Nat
    BY <1>1 DEF PodInv, TypeOK
  <2>2. Append(log[i], pod[i]) \in Seq(Nat)
    BY <2>1
  <2>3. log'[i] \in Seq(Nat) /\ (log'[i] = log[i] \/ log'[i] = Append(log[i], pod[i]))
    BY <1>1, <2>1, <2>2, LogStep
  <2>4. SubSeq(log'[i], 1, Len(log[i])) = log[i] /\ Len(log[i]) <= Len(log'[i])
    <3>1. CASE log'[i] = log[i]
      BY <2>1, <3>1, SubSeqFull
    <3>2. CASE log'[i] = Append(log[i], pod[i])
      BY <2>1, <3>2
    <3> QED BY <2>3, <3>1, <3>2
  <2> QED BY <2>3, <2>4, NoLogAssumption
<1>2. PodInv /\ [Next]_vars => [\A i \in Index : Grows(i)]_vars
  BY <1>1
<1> QED BY <1>2, InitPodInv, NextPodInv, PTL DEF Spec, LogsOnlyGrow
=============================================================================
