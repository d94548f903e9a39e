------------------------------- MODULE Trace -------------------------------
(***************************************************************************)
(* What a rehosted service does, the strace log that shows it, and what    *)
(* LogPreprocessing and ErrorLocator make of that log.                     *)
(*                                                                         *)
(* The service and its children make system calls; each writes a line to   *)
(* the one log they share.  A line has what the text of the log tells, and *)
(* "on", the file or socket in question, which only the kernel knows.      *)
(* When the wait of rehosting_binary is over, the log is cut into events   *)
(* per process and an error is located in it; it is fixed, or the fix does *)
(* not help, and the service is run again.                                 *)
(***************************************************************************)
EXTENDS Integers, Sequences, FiniteSets, SequencesExt, FiniteSetsExt

CONSTANTS Pid,         \* 1 is the process run_binary starts; the others in the order of their forks
          Fd,          \* descriptors, all above 2
          Device,      \* network interfaces the firmware may lack
          Service,     \* the peers behind Unix sockets,
          Known,       \* and those whose binary _identify_peer_process finds
          Ignored, System, Nvram, Elsewhere, \* files: IGNORE_PATH, /proc /sys /dev, gh_nvram,
                                             \* those of which the firmware has a copy elsewhere
          Contents,    \* file -> how it may be: "missing", "empty", "data"
          Merges,      \* user mode: merge_consecutive_duplicates
          Collapse,    \* 50: as many equal lines become one
          Timeouts,    \* 3: so many timeouts of select in a row are a failure
          Span,        \* 10: events between the open and the close of an empty file
          MaxLines, MaxFixes  \* bounds on the log of each run, and on the fixes that help

File == DOMAIN Contents

ASSUME FileAssumption == Ignored \cup System \cup Nvram \cup Elsewhere \subseteq File
ASSUME PeerAssumption == Known \subseteq Service
ASSUME NumberAssumption ==
  /\ {Collapse, Timeouts, Span, MaxFixes} \subseteq Nat /\ MaxLines \in Seq(Nat) /\ MaxLines # << >>
  /\ 1 \in Pid /\ Pid \subseteq Nat /\ Fd \subseteq Nat \ 0..2

VARIABLES content, lacking, up,  \* the files, the missing interfaces, the peers that run
          log, fds, atEnd, state,\* the kernel: descriptors, what has been read to its end, processes
          connectFd,             \* FIRMWELL_NET: descriptor -> peer, the last line of a descriptor counts
          fixed, found,          \* located_errors of the service, and its last element
          round, fixes, tracePc

firmware == <<content, lacking, up>>
kernel == <<fds, atEnd, state>>
locator == <<fixed, found, round, fixes, tracePc>>
traceVars == <<firmware, log, kernel, connectFd, locator>>

(* The errors, by fix_strategy and what _is_same_error compares; peer is   *)
(* peer_process_name.                                                      *)
Err(kind, on) == [kind |-> kind, on |-> on, fd |-> 0, peer |-> {}]
None == Err("none", {})

Closed == [d \in {} |-> 0]
Idle == [p \in Pid |-> IF p = 1 THEN "runs" ELSE "unborn"]

TraceInit ==
  /\ content \in {c \in [File -> {"missing", "empty", "data"}] : \A f \in File : c[f] \in Contents[f]}
  /\ lacking = Device /\ up \in SUBSET Service
  /\ log = << >> /\ fds = [p \in Pid |-> Closed] /\ atEnd = {} /\ state = Idle
  /\ connectFd = Closed /\ fixed = {} /\ found = None /\ round = 1 /\ fixes = 0 /\ tracePc = "run"
-----------------------------------------------------------------------------
(* The processes and their kernel.                                         *)
Runs(p) == tracePc = "run" /\ state[p] = "runs" /\ Len(log) < MaxLines[round]
Write(p, call, fd, what, ret, on) ==
  log' = Append(log, [pid |-> p, call |-> call, fd |-> fd, what |-> what, ret |-> ret, on |-> on])
Once(call) == \A i \in DOMAIN log : log[i].call # call  \* a bound on calls without a descriptor
Obj(kind, of) == [kind |-> kind, of |-> of, born |-> Len(log) + 1, linked |-> FALSE]
FreeFd(p) == Fd \ DOMAIN fds[p]
With(f, d, x) == [e \in DOMAIN f \cup {d} |-> IF e = d THEN x ELSE f[e]]
Give(p, o) == fds' = [fds EXCEPT ![p] = With(@, Min(FreeFd(p)), o)]
Link(p, fd) == fds' = [fds EXCEPT ![p][fd].linked = TRUE]
Take(p, fd) == fds' = [fds EXCEPT ![p] = [d \in DOMAIN @ \ {fd} |-> @[d]]]
Sockets(p) == {fd \in DOMAIN fds[p] : fds[p][fd].kind = "socket"}
Linked(p) == {fd \in Sockets(p) : fds[p][fd].linked}

Holds(p, f) == \E fd \in DOMAIN fds[p] : fds[p][fd].of = f  \* a bound: no file is opened twice at a time
Open(p, f) ==
  /\ Runs(p) /\ FreeFd(p) # {} /\ ~Holds(p, f)
  /\ IF content[f] = "missing" THEN Write(p, "open", 0, f, "missing", 0) /\ UNCHANGED fds
     ELSE Write(p, "open", Min(FreeFd(p)), f, "ok", Len(log) + 1) /\ Give(p, Obj("file", f))
  /\ UNCHANGED <<firmware, atEnd, state, connectFd, locator>>

Read(p, fd) ==
  /\ Runs(p) /\ fd \in DOMAIN fds[p] /\ fds[p][fd].kind = "file"
  /\ LET o == fds[p][fd] IN
     /\ Write(p, "read", fd, "", IF content[o.of] = "data" /\ o.born \notin atEnd THEN "more" ELSE "zero", o.born)
     /\ atEnd' = atEnd \cup {o.born}
  /\ UNCHANGED <<firmware, fds, state, connectFd, locator>>

Close(p, fd) ==
  /\ Runs(p) /\ fd \in DOMAIN fds[p]
  /\ Write(p, "close", fd, "", "ok", fds[p][fd].born) /\ Take(p, fd)
  /\ UNCHANGED <<firmware, atEnd, state, connectFd, locator>>

Socket(p) ==
  /\ Runs(p) /\ FreeFd(p) # {}
  /\ \E s \in Service : Give(p, Obj("socket", s))
  /\ Write(p, "socket", Min(FreeFd(p)), "", "ok", Len(log) + 1)
  /\ UNCHANGED <<firmware, atEnd, state, connectFd, locator>>

(* The hook that writes FIRMWELL_NET is not told whether connect succeeds. *)
Connect(p, fd) ==
  /\ Runs(p) /\ fd \in Sockets(p) \ Linked(p)
  /\ LET o == fds[p][fd] IN
     /\ connectFd' = With(connectFd, fd, o.of)
     /\ IF o.of \in up THEN Write(p, "connect", fd, "", "ok", o.born) /\ Link(p, fd)
        ELSE Write(p, "connect", fd, "", "refused", o.born) /\ UNCHANGED fds
  /\ UNCHANGED <<firmware, atEnd, state, locator>>

(* A call that blocks is in the log without a result: a connect that the   *)
(* peer does not accept, or any call that waits for an answer; "poll" is   *)
(* each of those whose line says nothing of the descriptor or is not read, *)
(* recvmsg for one.                                                        *)
MayWait(p, fd, call) == fd \in IF call = "connect" THEN Sockets(p) \ Linked(p) ELSE Linked(p)
Hang(p, fd, call) ==
  /\ Runs(p) /\ MayWait(p, fd, call)
  /\ Write(p, call, fd, "", "blocked", fds[p][fd].born) /\ state' = [state EXCEPT ![p] = "blocked"]
  /\ connectFd' = IF call = "connect" THEN With(connectFd, fd, fds[p][fd].of) ELSE connectFd
  /\ UNCHANGED <<firmware, fds, atEnd, locator>>

Waiting == {"connect", "recv", "recvfrom", "select", "read", "poll"}

(* The other ends of such a call.                                          *)
Answered == [call : {"select"}, ret : {"more", "timeout"}] \cup [call : {"recv", "recvfrom"}, ret : {"reset"}]
              \cup [call : {"read"}, ret : {"zero"}]
Await(p, fd, call, ret) ==
  /\ Runs(p) /\ fd \in Linked(p)
  /\ Write(p, call, fd, "", ret, fds[p][fd].born)
  /\ UNCHANGED <<firmware, kernel, connectFd, locator>>

Ioctl(p, d) ==
  /\ Runs(p) /\ Once("ioctl") /\ Write(p, "ioctl", 0, d, IF d \in lacking THEN "missing" ELSE "ok", 0)
  /\ UNCHANGED <<firmware, kernel, connectFd, locator>>

Shmat(p) ==
  /\ Runs(p) /\ Once("shmat") /\ Write(p, "shmat", 0, "", "invalid", 0)
  /\ UNCHANGED <<firmware, kernel, connectFd, locator>>

Fork(p) ==
  /\ Runs(p)
  /\ \E c \in Pid : /\ state[c] = "unborn" /\ \A q \in Pid : q < c => state[q] # "unborn"
                    /\ Write(p, "fork", 0, c, "ok", 0) /\ state' = [state EXCEPT ![c] = "runs"]
                    /\ fds' = [fds EXCEPT ![c] = fds[p]]
  /\ UNCHANGED <<firmware, atEnd, connectFd, locator>>

ExecShell(p) ==
  /\ Runs(p) /\ Once("exec") /\ p # 1 /\ Write(p, "exec", 0, "/bin/sh", "ok", 0)
  /\ UNCHANGED <<firmware, kernel, connectFd, locator>>

(* A crash writes a line without a pid: the "pid" below is not in the text.*)
Stop(p, call, code) ==
  /\ Runs(p) /\ log # << >> /\ Write(p, call, 0, code, "end", 0)
  /\ state' = [state EXCEPT ![p] = "gone"]
  /\ UNCHANGED <<firmware, fds, atEnd, connectFd, locator>>

Call(p) ==
  \/ \E f \in File : Open(p, f)
  \/ \E fd \in Fd : Read(p, fd) \/ Close(p, fd) \/ Connect(p, fd)
  \/ \E fd \in Fd : (\E call \in Waiting : Hang(p, fd, call)) \/ \E a \in Answered : Await(p, fd, a.call, a.ret)
  \/ Socket(p) \/ Fork(p) \/ ExecShell(p) \/ Shmat(p)
  \/ \E d \in Device : Ioctl(p, d)
  \/ Stop(p, "signal", 0) \/ \E code \in {0, 1} : Stop(p, "exit", code)
-----------------------------------------------------------------------------
(* What a sequence has at some places, in its order.  (SelectSeq takes an  *)
(* operator, about which nothing could be proved for every log.)           *)
Pick(s, at) ==
  LET upto[n \in 0..Max({0} \cup at)] ==
        IF n = 0 THEN << >> ELSE IF n \in at THEN Append(upto[n - 1], s[n]) ELSE upto[n - 1]
  IN  upto[Max({0} \cup at)]

(* get_trace_log: fifty equal lines become one.  A line that has "close"   *)
(* and "=" joins the one before it if that has them too, whatever it       *)
(* closes, and all of them are written like the first.                     *)
Text(a) == <<IF a.call = "signal" THEN 0 ELSE a.pid, a.call, a.fd, a.what, a.ret>>
SameText(a, b) == Text(a) = Text(b)
Joins(a, b) == SameText(a, b) \/ (a.call = "close" /\ b.call = "close")
RunStart(s, i) == Min({j \in 1..i : \A k \in j..i - 1 : Joins(s[k], s[k + 1])})
RunEnd(s, i) == Max({j \in i..Len(s) : \A k \in i..j - 1 : Joins(s[k], s[k + 1])})
Merged(s) ==
  Pick([i \in DOMAIN s |-> s[RunStart(s, i)]], {i \in DOMAIN s : RunEnd(s, i) - RunStart(s, i) + 1 < Collapse \/ i = RunEnd(s, i)})
TraceLog == IF Merges THEN Merged(log) ELSE log

(* parse_files: a signal belongs to the process of the line before it, if  *)
(* that is complete, else to the first of the log; of the calls without a  *)
(* result only recv, recvfrom, select and exit are kept.                   *)
FirstPid(s) == s[1].pid
Complete(line) == line.ret \notin {"blocked", "end"}
Owner(s, i) ==
  IF s[i].call # "signal" THEN s[i].pid ELSE IF i > 1 /\ Complete(s[i - 1]) THEN s[i - 1].pid ELSE FirstPid(s)
Finished(line) == line.ret # "blocked"
Kept(line) == line.ret = "blocked" => line.call \in {"recv", "recvfrom", "select"}
Events(s, p) == Pick(s, {i \in DOMAIN s : Owner(s, i) = p /\ Kept(s[i])})

(* process_map: who is a shell, by its own execve or that of its parent.   *)
Shells(s) ==
  FoldLeft(LAMBDA shells, line : CASE line.call = "exec" -> shells \cup {line.pid}
                                   [] line.call = "fork" /\ line.pid \in shells -> shells \cup {line.what}
                                   [] OTHER -> shells, {}, s)
(* meta_info: the files that could be opened, the interfaces that are      *)
(* missing and the exit codes, of the whole log.                           *)
IsOpened(line) == line.call = "open" /\ line.ret = "ok"
Accessed(s) == {s[i].what : i \in {j \in DOMAIN s : IsOpened(s[j])}}
IsMissing(line) == line.call = "ioctl" /\ line.ret = "missing"
MissInterfaces(s) == {s[i].what : i \in {j \in DOMAIN s : IsMissing(s[j])}}
ExitedWith(s, p, code) == \E i \in DOMAIN s : s[i].call = "exit" /\ s[i].what = code /\ s[i].pid = p

(* _find_error_process_worklist: children before their parent, the last    *)
(* one first and no shell; one that crashed alone, one that failed first.  *)
Crashed(s, p) == \E i \in DOMAIN s : s[i].call = "signal" /\ Owner(s, i) = p
FailedExit(s, p) == ExitedWith(s, p, 1)
Child(s, i) == IF i = 0 THEN 1 ELSE s[i].what
Forks(s, i) == {j \in i + 1..Len(s) : s[j].call = "fork" /\ s[j].pid = Child(s, i) /\ s[j].what \notin Shells(s)}
Descendants(s) ==
  LET post[i \in 0..Len(s)] ==
        FlattenSeq(Reverse(Pick([j \in Forks(s, i) |-> post[j]], Forks(s, i)))) \o <<Child(s, i)>>
  IN  post[0]
Worklist(s) ==
  LET all == Descendants(s)
      crashed == {k \in DOMAIN all : Crashed(s, all[k])}
      failed == {k \in DOMAIN all : FailedExit(s, all[k])}
  IN  IF crashed # {} THEN <<all[Min(crashed)]>>
      ELSE IF failed # {} THEN <<all[Min(failed)]>> \o Pick(all, DOMAIN all \ {Min(failed)})
      ELSE all

IsSameError(e, f) == e.kind = f.kind /\ e.kind # "nvram" /\ e.on = f.on /\ e.fd = f.fd
IsErrorFixed(e) == \E f \in fixed : IsSameError(e, f)
-----------------------------------------------------------------------------
(* _match_empty_file_reads: the last file that was opened was read, gave   *)
(* nothing, and was closed soon, and the process has ended.                *)
LastOpen(h) == Max({0} \cup {i \in DOMAIN h : IsOpened(h[i]) /\ h[i].what \notin Ignored})
Reads(h, a, c) == {i \in a + 1..c - 1 : h[i].call = "read" /\ h[i].fd = h[a].fd}
AnyZero(h, reads) == \E i \in reads : h[i].ret = "zero"
NothingRead(h, reads) == reads # {} /\ h[Min(reads)].ret = "zero"
EndsByCrash(h) == h # << >> /\ h[Len(h)].call = "signal"
Ends(h) == h # << >> /\ h[Len(h)].ret = "end"
ClosedAt(h, a) == LET closes == {i \in a + 1..Len(h) : h[i].call = "close" /\ h[i].fd = h[a].fd}
                  IN  IF closes = {} THEN {} ELSE {Min(closes)}
EmptyFile(h) ==
  LET a == LastOpen(h) IN
  {f \in File \ (Ignored \cup Nvram) :
     /\ Ends(h) /\ a > 0 /\ h[a].what = f
     /\ \E c \in ClosedAt(h, a) : c - a <= Span /\ NothingRead(h, Reads(h, a, c))}

(* _match_file_access_error, for the calls that failed, the last one first.*)
Missing(h) == {i \in DOMAIN h : h[i].call = "open" /\ h[i].ret = "missing"}
MissingNvram(s, h) == {f \in Nvram \ Accessed(s) : \E i \in Missing(h) : h[i].what = f}
MayBeReused(f) == f \in Elsewhere \ (System \cup Nvram)
NewFile(s, h, f) ==
  IF f \in Ignored THEN None
  ELSE IF f \in System THEN LET e == Err("create", {f}) IN IF IsErrorFixed(e) THEN Err("fill", {f}) ELSE e
  ELSE IF MissingNvram(s, h) # {} THEN Err("nvram", MissingNvram(s, h)) ELSE None
AccessError(s, h, f) ==
  IF f \in Accessed(s) THEN None ELSE IF MayBeReused(f) THEN Err("reuse", {f}) ELSE NewFile(s, h, f)
FileError(s, h) ==
  LET error(i) == AccessError(s, h, h[i].what)
      open == {i \in Missing(h) : error(i) # None /\ ~IsErrorFixed(error(i))}
  IN  IF EmptyFile(h) # {} THEN Err("fill", EmptyFile(h))
      ELSE IF open # {} THEN error(Max(open)) ELSE None

(* _match_ipc_failures, for a descriptor on which there was a socket.      *)
IpcCall == {"socket", "connect", "recv", "recvfrom", "select", "read"}
OnFd(h, fd) == {i \in DOMAIN h : h[i].call \in IpcCall /\ h[i].fd = fd}
At(h, fd, call, ret) == {i \in OnFd(h, fd) : h[i].call = call /\ h[i].ret = ret}
Stalled(h, fd) ==  \* so many timeouts of select in a row
  LET selects == {i \in OnFd(h, fd) : h[i].call = "select"}
      latest(k) == {i \in selects : i <= k /\ Cardinality({j \in selects : i < j /\ j <= k}) < Timeouts}
  IN  {k \in selects : Cardinality(latest(k)) = Timeouts /\ latest(k) \subseteq At(h, fd, "select", "timeout")}
Silent(h, fd) == Stalled(h, fd) \cup At(h, fd, "recv", "blocked") \cup At(h, fd, "select", "blocked")
Hangs(h, fd) == \E c \in At(h, fd, "connect", "ok") : \E k \in Silent(h, fd) : c < k
Refused(h, fd) ==
  \/ At(h, fd, "connect", "refused") # {}
  \/ At(h, fd, "connect", "ok") # {} /\ At(h, fd, "recv", "reset") \cup At(h, fd, "recvfrom", "reset") # {}
PeerLeft(h, fd) == \E c \in At(h, fd, "connect", "ok"), k \in At(h, fd, "read", "zero") : c < k
SocketFailed(h, fd) == At(h, fd, "socket", "ok") # {} /\ (Hangs(h, fd) \/ Refused(h, fd) \/ PeerLeft(h, fd))
IpcError(h) ==
  LET failed == {fd \in Fd : SocketFailed(h, fd)}
      first == CHOOSE fd \in failed : \A e \in failed : Min(OnFd(h, fd)) <= Min(OnFd(h, e))
      peer == connectFd[first]
  IN  IF failed = {} \/ peer \notin Known THEN None
      ELSE [kind |-> "ipc", on |-> {}, fd |-> first, peer |-> {peer}]

(* _match_crash_after_shm_ipc: the peer is the process itself or unknown.  *)
ShmError(h) ==
  LET crashes == {i \in DOMAIN h : h[i].call = "signal"} IN
  IF crashes # {} /\ \E i \in 2..Min(crashes) - 1 : i > Min(crashes) - 20 /\ h[i].call = "shmat"
  THEN Err("shm", {}) ELSE None

(* locate_errors.                                                          *)
SystemFileLast(h) ==
  LET seen == {i \in DOMAIN h : h[i].call = "open" /\ h[i].what \in System}
  IN  IF seen = {} THEN {} ELSE {h[Max(seen)].what}
Network(h) == {h[i].what : i \in {j \in DOMAIN h : IsMissing(h[j])}}
NetworkError(h) == IF Network(h) = {} THEN None ELSE Err("net", Network(h))
New(errors) == Pick(errors, {k \in DOMAIN errors : errors[k] # None /\ ~IsErrorFixed(errors[k])})
Located(s) ==
  LET work == Worklist(s)
      h(k) == Events(s, work[k])
      again == {k \in DOMAIN work : found.kind = "fill" /\ SystemFileLast(h(k)) = found.on}
      network == New([k \in DOMAIN work |-> NetworkError(h(k))])
                   \o (IF MissInterfaces(s) = {} THEN << >> ELSE <<Err("net", MissInterfaces(s))>>)
      rest == network \o New([k \in DOMAIN work |-> FileError(s, h(k))])
                \o New([k \in DOMAIN work |-> IpcError(h(k))]) \o New([k \in DOMAIN work |-> ShmError(h(k))])
  IN  IF again # {} THEN Err("magic", found.on) ELSE IF rest = << >> THEN None ELSE Head(rest)

Locate ==
  /\ tracePc = "run" /\ log # << >> /\ (Len(log) = MaxLines[round] \/ \A p \in Pid : state[p] # "runs")
  /\ found' = Located(TraceLog) /\ fixed' = fixed \cup {found'} /\ tracePc' = "located"
  /\ UNCHANGED <<firmware, log, kernel, connectFd, round, fixes>>

(* FixStrategy, as far as it shows: what was located is there the next time*)
(* or not, with or without data.                                           *)
Supplied(f) == IF f \in System /\ found.kind = "create" THEN {"empty"} ELSE {"empty", "data"}
Helps ==
  /\ fixes < MaxFixes /\ fixes' = fixes + 1
  /\ content' \in {c \in [File -> {"missing", "empty", "data"}] :
                     \A f \in File : IF f \in found.on THEN c[f] \in Supplied(f) ELSE c[f] = content[f]}
  /\ lacking' = lacking \ found.on /\ up' = up \cup found.peer
DeleteLog == log' = << >>
RunAgain ==
  /\ tracePc = "located" /\ found # None /\ round < Len(MaxLines)
  /\ Helps \/ UNCHANGED <<firmware, fixes>>
  /\ DeleteLog /\ fds' = [p \in Pid |-> Closed] /\ atEnd' = {} /\ state' = Idle /\ connectFd' = Closed
  /\ round' = round + 1 /\ tracePc' = "run" /\ UNCHANGED <<fixed, found>>

TraceNext == (\E p \in Pid : Call(p)) \/ Locate \/ RunAgain
TraceSpec == TraceInit /\ [][TraceNext]_traceVars

Object == [kind : {"file"}, of : File, born : Nat, linked : BOOLEAN]
            \cup [kind : {"socket"}, of : Service, born : Nat, linked : BOOLEAN]
IsTable(t) == DOMAIN t \subseteq Fd /\ t \in [DOMAIN t -> Object]
Error == [kind : {"none", "magic", "net", "fill", "reuse", "create", "nvram", "ipc", "shm"},
          on : SUBSET (File \cup Device), fd : Nat, peer : SUBSET Known]
TraceTypeOK ==
  /\ content \in [File -> {"missing", "empty", "data"}] /\ lacking \subseteq Device /\ up \subseteq Service
  /\ log \in Seq(Range(log))
  /\ \A i \in DOMAIN log :
       /\ log[i].pid \in Pid /\ log[i].fd \in Nat /\ log[i].on \in Nat
       /\ log[i].call = "open" => log[i].what \in File
       /\ log[i].call = "ioctl" => log[i].what \in Device
  /\ fds \in [Pid -> Range(fds)] /\ \A p \in Pid : IsTable(fds[p])
  /\ atEnd \subseteq Nat /\ state \in [Pid -> {"unborn", "runs", "blocked", "gone"}]
  /\ connectFd \in [DOMAIN connectFd -> Service] /\ DOMAIN connectFd \subseteq Fd
  /\ found \in Error /\ fixed \subseteq Error
  /\ round \in DOMAIN MaxLines /\ fixes \in 0..MaxFixes /\ tracePc \in {"run", "located"}
-----------------------------------------------------------------------------
(* Two closes of different descriptors one after the other lose the second *)
(* in get_trace_log.                                                       *)
Blurred == Merges /\ \E i \in 1..Len(log) - 1 : Joins(log[i], log[i + 1]) /\ ~SameText(log[i], log[i + 1])

GaveNothing(p, a, c) ==
  /\ IsOpened(log[a]) /\ log[a].pid = p
  /\ log[c].call = "close" /\ log[c].pid = p /\ log[c].on = log[a].on
  /\ LET reads == {i \in a..c : log[i].call = "read" /\ log[i].pid = p /\ log[i].on = log[a].on}
     IN  reads # {} /\ log[Min(reads)].ret = "zero"
(* A file is filled only if it was missing, or if some process got nothing *)
(* from it through the descriptor it had opened it with, and closed it.    *)
EmptyReadIsReal ==
  tracePc = "located" /\ found.kind = "fill" /\ ~Blurred =>
    \A f \in found.on :
      content[f] = "missing" \/ \E p \in Pid, a, c \in DOMAIN log : GaveNothing(p, a, c) /\ log[a].what = f

(* The first run never ends without an error when the last file that a     *)
(* process on the worklist opened gave it nothing, soon, and the process   *)
(* failed.                                                                 *)
OpenedLast(p) == Max({0} \cup {i \in DOMAIN log : log[i].pid = p /\ IsOpened(log[i]) /\ log[i].what \notin Ignored})
EmptyFileIsFound ==
  tracePc = "located" /\ found = None /\ round = 1 /\ ~Blurred =>
    \A p \in Range(Worklist(TraceLog)) : LET a == OpenedLast(p) IN
      FailedExit(log, p) /\ a > 0 /\ log[a].what \notin Nvram =>
        \A c \in DOMAIN log : GaveNothing(p, a, c) => c - a > Span

(* The first run never ends without an error when a process of the service *)
(* waits in recv or select for an answer on a socket that it has opened    *)
(* and connected itself, or was refused the connection, whatever lines     *)
(* around it are lost.  Of a wait in another call, connect included, the   *)
(* code never knows.                                                       *)
Did(p, call, ret, on) ==
  \E i \in DOMAIN log : log[i].pid = p /\ log[i].call = call /\ log[i].ret = ret /\ log[i].on = on
Waits(p) ==
  \E i \in DOMAIN log :
    /\ log[i].pid = p
    /\ log[i].ret = "refused" \/ (log[i].ret = "blocked" /\ log[i].call \in {"recv", "select"})
    /\ Did(p, "socket", "ok", log[i].on) /\ (log[i].ret = "blocked" => Did(p, "connect", "ok", log[i].on))
HangIsFound ==
  tracePc = "located" /\ found = None /\ round = 1 /\ Known = Service =>
    \A p \in Range(Worklist(TraceLog)) : ~Waits(p)
=============================================================================
