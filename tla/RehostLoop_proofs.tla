--------------------------- MODULE RehostLoop_proofs ---------------------------
(***************************************************************************)
(* What the runs of RehostLoop check on two services and a few errors,     *)
(* proved for any services, devices, files, descriptors and numbers of     *)
(* rounds.                                                                 *)
(***************************************************************************)
EXTENDS RehostLoop, SequenceTheorems, TLAPS

(* The program is between run and the end of the rounds. *)
InRounds == {"start", "wait", "first", "find", "probe", "dispatch", "run", "locate", "fix",
             "settle", "result"}

(* It is inside a call of rehosting_binary. *)
InCall == {"run", "locate", "fix", "settle"}

RoundsLeft == pc \in InRounds => round < MaxRounds

CallOpen == pc \in InCall => Len(frames) > 0

(* The trace of a peer never showed a peer. *)
PeerHasNoPeer == pc = "fix" /\ Len(frames) > 1 /\ cand # NoError => ~InPeer(cand)

CallInv == TypeOK /\ RoundsLeft /\ CallOpen /\ PeerHasNoPeer /\ OnlyOnePeerDeep

-----------------------------------------------------------------------------
(* The first class that holds an error is one of the six. *)
LEMMA FirstClass ==
  ASSUME NEW found \in SUBSET (1..6), found # {}
  PROVE  (CHOOSE i \in found : \A j \in found : i <= j) \in found
<1>1. \E i \in found : \A j \in found : i <= j
  <2>1. \A i \in found : i = 1 \/ i = 2 \/ i = 3 \/ i = 4 \/ i = 5 \/ i = 6
    OBVIOUS
  <2>2. CASE 1 \in found BY <2>1, <2>2
  <2>3. CASE 1 \notin found /\ 2 \in found BY <2>1, <2>3
  <2>4. CASE 1 \notin found /\ 2 \notin found /\ 3 \in found BY <2>1, <2>4
  <2>5. CASE 1 \notin found /\ 2 \notin found /\ 3 \notin found /\ 4 \in found BY <2>1, <2>5
  <2>6. CASE 1 \notin found /\ 2 \notin found /\ 3 \notin found /\ 4 \notin found /\ 5 \in found
    BY <2>1, <2>6
  <2>7. CASE 1 \notin found /\ 2 \notin found /\ 3 \notin found /\ 4 \notin found /\ 5 \notin found
    <3>1. found = {6} BY <2>1, <2>7
    <3> QED BY <3>1
  <2> QED BY <2>2, <2>3, <2>4, <2>5, <2>6, <2>7
<1> QED BY <1>1

(* What locate_errors may answer: nothing, an infer_magic_byte after a     *)
(* fill_file_content of the same file, the missing devices of the whole    *)
(* log, or a failure of the trace that was not located before; a peer only *)
(* in the outermost call.                                                  *)
LEMMA CandidateKinds ==
  ASSUME NEW s \in Service, NEW lastfile \in SUBSET SysFile, NEW missing \in SUBSET Device,
         NEW failing \in SUBSET Failure,
         NEW e \in Candidates(s, lastfile, missing, failing)
  PROVE  \/ e = NoError
         \/ \E f \in SysFile : e = Magic(f) /\ located[s].last = Fill(f)
         \/ e = Net(missing) /\ missing # {}
         \/ e \in Failure /\ ~IsErrorFixed(s, e) /\ (InPeer(e) => Depth = 1)
<1> DEFINE unfixed(errors) == {x \in failing \cap errors : ~IsErrorFixed(s, x)}
           peers(errors) == IF FoundPeerProcess(Depth) THEN unfixed(errors) ELSE {}
           classes == << {Magic(f) : f \in {f \in lastfile : located[s].last = Fill(f)}},
                         unfixed({Net({d}) : d \in missing}),
                         IF missing = {} THEN {} ELSE {Net(missing)},
                         unfixed(FileFailure),
                         peers(SocketFailure),
                         peers(ShmFailure) >>
           found == {i \in DOMAIN classes : classes[i] # {}}
           first == CHOOSE i \in found : \A j \in found : i <= j
<1>1. e \in IF found = {} THEN {NoError} ELSE classes[first]
  BY DEF Candidates
<1>2. CASE found = {}
  BY <1>1, <1>2
<1>3. CASE found # {}
  <2>1. found \in SUBSET (1..6)
    OBVIOUS
  <2>2. first \in found
    BY <1>3, <2>1, FirstClass
  <2> HIDE DEF found, first, classes
  <2>3. e \in classes[first] /\ first \in {1, 2, 3, 4, 5, 6}
    <3>1. e \in classes[first] BY <1>1, <1>3
    <3> QED BY <2>1, <2>2, <3>1
  <2> USE DEF classes
  <2>4. CASE first = 1 BY <2>3, <2>4
  <2>5. CASE first = 2
    <3>1. e \in unfixed({Net({d}) : d \in missing}) BY <2>3, <2>5
    <3> QED BY <3>1 DEF InPeer, Net, Err
  <2>6. CASE first = 3
    <3>1. e \in IF missing = {} THEN {} ELSE {Net(missing)} BY <2>3, <2>6
    <3> QED BY <3>1
  <2>7. CASE first = 4
    <3>1. e \in unfixed(FileFailure) BY <2>3, <2>7
    <3> QED BY <3>1 DEF InPeer, FileFailure, Fill, Supply, Err
  <2>8. CASE first = 5
    <3>1. e \in peers(SocketFailure) BY <2>3, <2>8
    <3> QED BY <3>1 DEF FoundPeerProcess
  <2>9. CASE first = 6
    <3>1. e \in peers(ShmFailure) BY <2>3, <2>9
    <3> QED BY <3>1 DEF FoundPeerProcess
  <2> QED BY <2>3, <2>4, <2>5, <2>6, <2>7, <2>8, <2>9
<1> QED BY <1>2, <1>3

LEMMA ErrorType ==
  ASSUME NEW e \in Error
  PROVE  /\ InPeer(e) => e.peer \in Service
         /\ e.strategy = "create_network_device" => e.key \in SUBSET Device
<1> USE DEF Err, Net, Fill, Supply, Magic, Socket, Shm, InPeer
<1>1. CASE e \in FileFailure BY <1>1 DEF FileFailure
<1>2. CASE e \in SocketFailure BY <1>2 DEF SocketFailure
<1>3. CASE e \in ShmFailure BY <1>3 DEF ShmFailure
<1>4. CASE \E d \in SUBSET Device : e = Net(d) BY <1>4
<1>5. CASE \E f \in SysFile : e = Magic(f) BY <1>5
<1>6. CASE \E d \in Device : e = Net({d}) BY <1>6
<1> QED BY <1>1, <1>2, <1>3, <1>4, <1>5, <1>6 DEF Error, Failure

LEMMA CandidateType ==
  ASSUME NEW s \in Service, NEW lastfile \in SUBSET SysFile, NEW missing \in SUBSET Device,
         NEW failing \in SUBSET Failure,
         NEW e \in Candidates(s, lastfile, missing, failing)
  PROVE  /\ e \in Error \cup {NoError}
         /\ e # NoError /\ InPeer(e) => Depth = 1
<1>1. CASE \E f \in SysFile : e = Magic(f)
  BY <1>1 DEF Error, InPeer, Magic, Err
<1>2. CASE e = Net(missing)
  BY <1>2 DEF Error, InPeer, Net, Err
<1> QED BY <1>1, <1>2, CandidateKinds DEF Error

(* Calls are entered and left one at a time. *)
LEMMA FirstFrame ==
  ASSUME NEW s \in Service
  PROVE  /\ <<[service |-> s, iter |-> 1, notfound |-> FALSE]>> \in Seq(Frame)
         /\ Len(<<[service |-> s, iter |-> 1, notfound |-> FALSE]>>) = 1
<1>1. [service |-> s, iter |-> 1, notfound |-> FALSE] \in Frame
  BY DEF Frame, Iterations
<1> QED BY <1>1

LEMMA PushFrame ==
  ASSUME NEW s \in Service, NEW fs \in Seq(Frame)
  PROVE  /\ Append(fs, [service |-> s, iter |-> 1, notfound |-> FALSE]) \in Seq(Frame)
         /\ Len(Append(fs, [service |-> s, iter |-> 1, notfound |-> FALSE])) = Len(fs) + 1
<1>1. [service |-> s, iter |-> 1, notfound |-> FALSE] \in Frame
  BY DEF Frame, Iterations
<1> QED BY <1>1

LEMMA PopFrame ==
  ASSUME NEW fs \in Seq(Frame), Len(fs) > 0
  PROVE  /\ SubSeq(fs, 1, Len(fs) - 1) \in Seq(Frame)
         /\ Len(SubSeq(fs, 1, Len(fs) - 1)) = Len(fs) - 1
<1> DEFINE n == Len(fs) - 1
<1>1. n \in Nat /\ \A i \in 1..n : fs[i] \in Frame
  OBVIOUS
<1> HIDE DEF n
<1>2. SubSeq(fs, 1, n) \in Seq(Frame) /\ Len(SubSeq(fs, 1, n)) = n
  BY <1>1, SubSeqProperties
<1> QED BY <1>2 DEF n

LEMMA TopFrame ==
  ASSUME NEW fs \in Seq(Frame), Len(fs) > 0, NEW top, top = fs[Len(fs)]
  PROVE  /\ top \in Frame
         /\ [fs EXCEPT ![Len(fs)].notfound = TRUE] \in Seq(Frame)
         /\ Len([fs EXCEPT ![Len(fs)].notfound = TRUE]) = Len(fs)
         /\ top.iter < Iterations =>
              /\ [fs EXCEPT ![Len(fs)].iter = @ + 1] \in Seq(Frame)
              /\ Len([fs EXCEPT ![Len(fs)].iter = @ + 1]) = Len(fs)
<1>1. Len(fs) \in 1..Len(fs) /\ top \in Frame
  OBVIOUS
<1>2. [top EXCEPT !.notfound = TRUE] \in Frame
  BY <1>1 DEF Frame
<1>3. top.iter < Iterations => [top EXCEPT !.iter = @ + 1] \in Frame
  BY <1>1 DEF Frame, Iterations
<1>4. ASSUME NEW f \in Frame
      PROVE  [fs EXCEPT ![Len(fs)] = f] \in Seq(Frame) /\ Len([fs EXCEPT ![Len(fs)] = f]) = Len(fs)
  BY <1>1, ExceptSeq
<1>5. /\ [fs EXCEPT ![Len(fs)].notfound = TRUE] = [fs EXCEPT ![Len(fs)] = [top EXCEPT !.notfound = TRUE]]
      /\ [fs EXCEPT ![Len(fs)].iter = @ + 1] = [fs EXCEPT ![Len(fs)] = [top EXCEPT !.iter = @ + 1]]
  OBVIOUS
<1> QED BY <1>1, <1>2, <1>3, <1>4, <1>5

LEMMA InitCallInv == Init => CallInv
<1> SUFFICES ASSUME Init PROVE CallInv
  OBVIOUS
<1>1. TypeOK
  <2>1. /\ located \in [Service -> [fixed : SUBSET Error, last : Error \cup {NoError}]]
        /\ frames \in Seq(Frame)
        /\ box \in [Box -> {"absent", "running", "stopped"}]
    BY DEF Init
  <2>2. envtry \in 1..EnvTries /\ starttry \in 1..StartTries /\ round \in 0..MaxRounds
    BY RoundAssumption DEF Init, EnvTries, StartTries
  <2> QED BY <2>1, <2>2 DEF Init, TypeOK
<1>2. RoundsLeft /\ CallOpen /\ PeerHasNoPeer /\ OnlyOnePeerDeep
  BY RoundAssumption DEF Init, RoundsLeft, CallOpen, InCall, PeerHasNoPeer, OnlyOnePeerDeep
<1> QED BY <1>1, <1>2 DEF CallInv

LEMMA EnvCallInv ==
  ASSUME CallInv, EnvNext
  PROVE  CallInv'
<1> USE DEF CallInv, TypeOK, At, Goto, inRound, inCall, network, web, outcome
<1>1. RoundsLeft' /\ CallOpen' /\ PeerHasNoPeer' /\ OnlyOnePeerDeep'
  BY DEF EnvNext, EnvStarts, EnvFails, RestartForProcd, ServicesAreUp, inEnv,
         RoundsLeft, CallOpen, InRounds, InCall, PeerHasNoPeer, OnlyOnePeerDeep
<1>2. NewBox \in Box
  BY DEF NewBox, Box, EnvTries, StartTries
<1>3. CASE EnvStarts
  <2>1. TypeOK' BY <1>2, <1>3 DEF EnvStarts
  <2> QED BY <1>1, <2>1
<1>4. CASE EnvFails
  <2>1. TypeOK' BY <1>2, <1>4 DEF EnvFails, StartTries
  <2> QED BY <1>1, <2>1
<1>5. CASE RestartForProcd
  <2>1. TypeOK' BY <1>5 DEF RestartForProcd, Removed, EnvTries, StartTries
  <2> QED BY <1>1, <2>1
<1>6. CASE ServicesAreUp
  <2>1. TypeOK' BY <1>6 DEF ServicesAreUp, inEnv
  <2> QED BY <1>1, <2>1
<1> QED BY <1>3, <1>4, <1>5, <1>6 DEF EnvNext

LEMMA RoundCallInv ==
  ASSUME CallInv, RoundNext
  PROVE  CallInv'
<1> USE RoundAssumption DEF CallInv, TypeOK, RoundsLeft, CallOpen, PeerHasNoPeer, OnlyOnePeerDeep,
        InRounds, InCall, At, Goto, inEnv, inRound, inCall, network, web, outcome
<1>1. CASE FirstProbe
  BY <1>1 DEF FirstProbe, Probe
<1>2. CASE FindErrorProc
  BY <1>2, ServiceAssumption DEF FindErrorProc
<1>3. CASE ProbeAfterKill
  BY <1>3 DEF ProbeAfterKill, Reconfigure, Probe
<1>4. CASE RerunInitBash
  <2>1. round' \in 0..MaxRounds /\ ((pc' = "find" /\ round' < MaxRounds) \/ pc' = "check")
    BY <1>4 DEF RerunInitBash, NextRound
  <2> QED BY <1>4, <2>1 DEF RerunInitBash
<1>5. CASE Result
  <2>1. round' \in 0..MaxRounds /\ ((pc' = "find" /\ round' < MaxRounds) \/ pc' = "check")
    BY <1>5 DEF Result, NextRound
  <2> QED BY <1>5, <2>1 DEF Result
<1>6. CASE Dispatch
  <2>1. PICK s \in Service :
          /\ err' = s
          /\ cmdline' = (cmdline \/ s = Target)
          /\ frames' = <<[service |-> s, iter |-> 1, notfound |-> FALSE]>>
    BY <1>6 DEF Dispatch
  <2>2. frames' \in Seq(Frame) /\ Len(frames') = 1
    BY <2>1, FirstFrame
  <2> QED BY <1>6, <2>1, <2>2 DEF Dispatch
<1> QED BY <1>1, <1>2, <1>3, <1>4, <1>5, <1>6 DEF RoundNext

LEMMA TopService ==
  ASSUME CallInv, pc \in InCall
  PROVE  Top.service \in Service
<1>1. frames \in Seq(Frame) /\ Len(frames) > 0
  BY DEF CallInv, TypeOK, CallOpen
<1>2. Top \in Frame
  BY <1>1, TopFrame DEF Top, Depth
<1> QED BY <1>2 DEF Frame

(* Leaving a call: what Return says of the frames. *)
LEMMA ReturnType ==
  ASSUME CallInv, pc \in InCall, NEW value \in {"none", "true", "false"}, Return(value)
  PROVE  /\ frames' \in Seq(Frame) /\ Len(frames') = Len(frames) - 1
         /\ ret' \in {"none", "true", "false"}
         /\ IF Len(frames) > 1 THEN pc' = "settle" ELSE pc' = "result"
BY PopFrame DEF CallInv, TypeOK, CallOpen, Return, Depth, Goto

LEMMA CallCallInv ==
  ASSUME CallInv, CallNext
  PROVE  CallInv'
<1> USE DEF CallInv, TypeOK, RoundsLeft, CallOpen, PeerHasNoPeer, OnlyOnePeerDeep,
        InRounds, InCall, At, Goto, inEnv, inRound, inCall, network, web, outcome
<1>1. ASSUME pc \in InCall PROVE Len(frames) > 0 /\ Depth = Len(frames) /\ Top = frames[Len(frames)] /\ Top \in Frame
  BY <1>1, TopFrame DEF Depth, Top
<1>2. CASE RunBinary
  <2>1. CASE Return("true") \/ Return("false")
    <3>1. /\ frames' \in Seq(Frame) /\ Len(frames') = Len(frames) - 1
          /\ ret' \in {"none", "true", "false"}
          /\ IF Len(frames) > 1 THEN pc' = "settle" ELSE pc' = "result"
      BY <1>2, <2>1, ReturnType DEF RunBinary, StartAndProbe
    <3> QED BY <1>1, <1>2, <3>1 DEF RunBinary, StartAndProbe, Reconfigure, Probe
  <2>2. CASE pc' = "locate" /\ UNCHANGED <<frames, ret>>
    BY <1>2, <2>2 DEF RunBinary, StartAndProbe, Reconfigure, Probe
  <2> QED BY <1>2, <2>1, <2>2 DEF RunBinary, StartAndProbe
<1>3. CASE Locate
  <2>1. Top.service \in Service
    BY <1>1, <1>3 DEF Locate, Frame
  <2>2. PICK lastfile \in SUBSET SysFile, missing \in SUBSET (Device \ devices), failing \in SUBSET Failure :
          cand' \in Candidates(Top.service, lastfile, missing, failing)
    BY <1>3 DEF Locate
  <2>3. /\ cand' \in Error \cup {NoError}
        /\ cand' # NoError /\ InPeer(cand') => Depth = 1
    BY <2>1, <2>2, CandidateType
  <2>4. located' \in [Service -> [fixed : SUBSET Error, last : Error \cup {NoError}]]
    BY <1>3, <2>1, <2>3 DEF Locate
  <2> QED BY <1>1, <1>3, <2>3, <2>4 DEF Locate, InPeer
<1>4. CASE ApplyFix
  <2>1. devices' \subseteq Device
    BY <1>4, ErrorType DEF ApplyFix
  <2> QED BY <1>4, <2>1 DEF ApplyFix
<1>5. CASE FixExits
  BY <1>5 DEF FixExits
<1>6. CASE InferMagicByte
  BY <1>6 DEF InferMagicByte, Reconfigure, Probe
<1>7. CASE RehostPeer
  <2>1. cand.peer \in Service
    BY <1>7, ErrorType DEF RehostPeer
  <2>2. frames' \in Seq(Frame) /\ Len(frames') = Len(frames) + 1
    BY <1>7, <2>1, PushFrame DEF RehostPeer
  <2>3. Len(frames) = 1
    BY <1>1, <1>7 DEF RehostPeer
  <2> QED BY <1>7, <2>1, <2>2, <2>3 DEF RehostPeer
<1>8. CASE NothingFound
  <2>1. frames' \in Seq(Frame) /\ Len(frames') = Len(frames)
    BY <1>1, <1>8, TopFrame DEF NothingFound
  <2> QED BY <1>8, <2>1 DEF NothingFound
<1>9. CASE Settle
  <2>1. CASE Return("none") \/ Return("false")
    <3>1. /\ frames' \in Seq(Frame) /\ Len(frames') = Len(frames) - 1
          /\ ret' \in {"none", "true", "false"}
          /\ IF Len(frames) > 1 THEN pc' = "settle" ELSE pc' = "result"
      BY <1>9, <2>1, ReturnType DEF Settle
    <3>2. quiet' \in BOOLEAN /\ netinfo' \subseteq Device
      BY <1>9 DEF Settle, SaveNetwork
    <3> QED BY <1>1, <1>9, <3>1, <3>2 DEF Settle
  <2>2. CASE Top.iter < Iterations /\ Iterate
    <3>1. frames' \in Seq(Frame) /\ Len(frames') = Len(frames)
      BY <1>1, <1>9, <2>2, TopFrame DEF Settle, Iterate
    <3> QED BY <1>9, <2>2, <3>1 DEF Settle, Iterate, SaveNetwork
  <2> QED BY <1>9, <2>1, <2>2 DEF Settle, Iterate
<1> QED BY <1>2, <1>3, <1>4, <1>5, <1>6, <1>7, <1>8, <1>9 DEF CallNext

LEMMA EndCallInv ==
  ASSUME CallInv, EndNext
  PROVE  CallInv'
<1> USE DEF CallInv, TypeOK, RoundsLeft, CallOpen, PeerHasNoPeer, OnlyOnePeerDeep,
        InRounds, InCall, At, Goto, inEnv, inRound, inCall, network, web, outcome
<1>1. CASE Check BY <1>1 DEF Check
<1>2. CASE ExportContainer BY <1>2 DEF ExportContainer
<1>3. CASE Raise
  <2>1. box' \in [Box -> {"absent", "running", "stopped"}]
    BY <1>3 DEF Raise
  <2> QED BY <1>3, <2>1 DEF Raise
<1>4. CASE Cleanup
  <2>1. box' \in [Box -> {"absent", "running", "stopped"}]
    BY <1>4 DEF Cleanup, Removed
  <2> QED BY <1>4, <2>1 DEF Cleanup
<1>5. CASE VerifyExport BY <1>5 DEF VerifyExport
<1>6. CASE NothingToVerify BY <1>6 DEF NothingToVerify
<1>7. CASE Report BY <1>7 DEF Report
<1>8. CASE Done BY <1>8 DEF Done, vars
<1> QED BY <1>1, <1>2, <1>3, <1>4, <1>5, <1>6, <1>7, <1>8 DEF EndNext

LEMMA NextCallInv ==
  ASSUME CallInv, [Next]_vars
  PROVE  CallInv'
<1>1. CASE UNCHANGED vars
  BY <1>1 DEF CallInv, TypeOK, RoundsLeft, CallOpen, PeerHasNoPeer, OnlyOnePeerDeep,
              vars, inEnv, inRound, inCall, network, web, outcome
<1> QED BY <1>1, EnvCallInv, RoundCallInv, CallCallInv, EndCallInv DEF Next

-----------------------------------------------------------------------------
(* Every variable keeps its type: the round stays below its bound, the     *)
(* frames are calls of known services, an error that was located is one    *)
(* the trace may show.                                                     *)
THEOREM TypeCorrect == Spec => []TypeOK
<1>1. CallInv => TypeOK
  BY DEF CallInv
<1> QED BY <1>1, InitCallInv, NextCallInv, PTL DEF Spec

(* The recursion into peers is never deeper than one call, whatever the    *)
(* traces of the peers show.                                               *)
THEOREM PeersAreLeaves == Spec => []OnlyOnePeerDeep
<1>1. CallInv => OnlyOnePeerDeep
  BY DEF CallInv
<1> QED BY <1>1, InitCallInv, NextCallInv, PTL DEF Spec

-----------------------------------------------------------------------------
(* The containers. *)

NoneRunning == \A b \in Box : box[b] # "running"

(* Only the container created last runs, and none while a new one starts. *)
OnlyNewest == /\ \A b \in Box : box[b] = "running" => b = NewBox
              /\ pc = "start" => NoneRunning
              /\ pc = "wait" => manager = NewBox

(* From the end of start_env on, what runs is self.env. *)
OnlyEnv == pc \in (InRounds \ {"start"}) \cup {"check", "export"} => \A b \in Box : box[b] = "running" => b = env

EnvGone == pc \in {"verify", "report", "done"} /\ env # 0 => box[env] = "absent"

(* After a wellformed verdict the container is self.env, until it is gone. *)
ExportAlone ==
  /\ pc = "export" \/ exported \/ saved => wellformed
  /\ wellformed => pc \in {"export", "cleanup", "verify", "report", "done"}
  /\ wellformed /\ pc \in {"export", "cleanup"} => \A b \in Box : box[b] = "running" => b = env
  /\ wellformed /\ pc \in {"verify", "report", "done"} => NoneRunning
  /\ saved => pc \in {"report", "done"}

BoxInv == OnlyNewest /\ OnlyEnv /\ EnvGone /\ ExportAlone

LEMMA InitBoxInv == Init => BoxInv
BY DEF Init, BoxInv, OnlyNewest, OnlyEnv, EnvGone, ExportAlone, NoneRunning

(* The steps of the rounds and of the calls leave the containers alone. *)
LEMMA RoundsBoxInv ==
  ASSUME TypeOK, BoxInv, RoundNext \/ CallNext
  PROVE  BoxInv'
<1>1. /\ UNCHANGED <<inEnv, wellformed, exported, saved>>
      /\ pc \in InRounds \ {"start", "wait"}
      /\ pc' \in (InRounds \ {"start", "wait"}) \cup {"check", "cleanup"}
  BY DEF RoundNext, CallNext, At, Goto, InRounds, network, web, outcome, inRound, inCall,
         FirstProbe, FindErrorProc, ProbeAfterKill, RerunInitBash, NextRound, Dispatch, Result,
         RunBinary, StartAndProbe, Return, Locate, ApplyFix, FixExits, InferMagicByte, RehostPeer, NothingFound,
         Settle, Iterate
<1> QED BY <1>1 DEF BoxInv, OnlyNewest, OnlyEnv, EnvGone, ExportAlone, NoneRunning, NewBox,
                    InRounds, inEnv

LEMMA EnvBoxInv ==
  ASSUME TypeOK, BoxInv, EnvNext
  PROVE  BoxInv'
<1> USE DEF BoxInv, OnlyNewest, OnlyEnv, EnvGone, ExportAlone, NoneRunning,
            InRounds, At, Goto, outcome
<1>1. NewBox \in Box
  BY DEF TypeOK, NewBox, Box, EnvTries, StartTries
<1>2. CASE EnvStarts
  <2>1. NewBox' = NewBox
    BY <1>2 DEF EnvStarts, NewBox
  <2> QED BY <1>1, <1>2, <2>1 DEF EnvStarts, TypeOK
<1>3. CASE EnvFails
  <2>1. \A b \in Box : box'[b] # "running"
    BY <1>1, <1>3 DEF EnvFails, TypeOK
  <2>2. pc' = "wait" => NewBox' = NewBox /\ manager' = NewBox
    BY <1>3 DEF EnvFails, NewBox
  <2> QED BY <1>3, <2>1, <2>2 DEF EnvFails
<1>4. CASE RestartForProcd
  <2>1. manager = env /\ manager = NewBox
    BY <1>4 DEF RestartForProcd, EnvIsUp, TypeOK
  <2>2. \A b \in Box : box'[b] # "running"
    BY <1>4, <2>1 DEF RestartForProcd, Removed, TypeOK
  <2> QED BY <1>4, <2>2 DEF RestartForProcd
<1>5. CASE ServicesAreUp
  <2>1. NewBox' = NewBox
    BY <1>5 DEF ServicesAreUp, NewBox, inEnv
  <2> QED BY <1>5, <2>1 DEF ServicesAreUp, inEnv
<1> QED BY <1>2, <1>3, <1>4, <1>5 DEF EnvNext

LEMMA EndBoxInv ==
  ASSUME TypeOK, BoxInv, EndNext
  PROVE  BoxInv'
<1> USE DEF BoxInv, OnlyNewest, OnlyEnv, EnvGone, ExportAlone, NoneRunning,
            InRounds, At, Goto, outcome
<1>1. NewBox' = NewBox
  BY DEF EndNext, Check, ExportContainer, Raise, Cleanup, VerifyExport, NothingToVerify, Report,
         Done, vars, NewBox, inEnv
<1>2. CASE Check BY <1>1, <1>2 DEF Check, inEnv
<1>3. CASE ExportContainer BY <1>1, <1>3 DEF ExportContainer, inEnv
<1>4. CASE Raise
  <2>1. ~wellformed /\ ~wellformed' /\ UNCHANGED <<exported, saved>> /\ pc' = "cleanup"
    BY <1>4 DEF Raise, TypeOK
  <2>2. \A b \in Box : box'[b] = "running" => b = NewBox
    BY <1>4 DEF Raise, TypeOK
  <2> QED BY <1>1, <2>1, <2>2
<1>5. CASE Cleanup
  <2>1. \A b \in Box : box'[b] = "running" => box[b] = "running" /\ b # env
    BY <1>5 DEF Cleanup, Removed, Box
  <2>2. env # 0 => box'[env] = "absent"
    BY <1>5 DEF Cleanup, Removed, TypeOK
  <2> QED BY <1>1, <1>5, <2>1, <2>2 DEF Cleanup
<1>6. CASE VerifyExport BY <1>1, <1>6 DEF VerifyExport, inEnv
<1>7. CASE NothingToVerify BY <1>1, <1>7 DEF NothingToVerify, inEnv
<1>8. CASE Report BY <1>1, <1>8 DEF Report, inEnv
<1>9. CASE Done BY <1>1, <1>9 DEF Done, vars, inEnv
<1> QED BY <1>2, <1>3, <1>4, <1>5, <1>6, <1>7, <1>8, <1>9 DEF EndNext

LEMMA NextBoxInv ==
  ASSUME CallInv, BoxInv, [Next]_vars
  PROVE  BoxInv'
<1>1. CASE UNCHANGED vars
  BY <1>1 DEF BoxInv, OnlyNewest, OnlyEnv, EnvGone, ExportAlone, NoneRunning, NewBox,
              vars, inEnv, outcome
<1> QED BY <1>1, RoundsBoxInv, EnvBoxInv, EndBoxInv DEF Next, CallInv

(* No two containers of a run are ever up together: neither a second start *)
(* attempt nor a restart for procd leaves the earlier one running.         *)
THEOREM OneContainer == Spec => []AtMostOneRunning
<1>1. BoxInv => AtMostOneRunning
  BY DEF BoxInv, OnlyNewest, AtMostOneRunning
<1> QED BY <1>1, InitCallInv, NextCallInv, InitBoxInv, NextBoxInv, PTL DEF Spec

(* However the run ends, the container it worked in is removed. *)
THEOREM ContainerRemoved == Spec => []EnvRemoved
<1>1. BoxInv => EnvRemoved
  BY DEF BoxInv, EnvGone, EnvRemoved, At
<1> QED BY <1>1, InitCallInv, NextCallInv, InitBoxInv, NextBoxInv, PTL DEF Spec

(* The export is verified and saved with no container beside it. *)
THEOREM ExportRunsAlone == Spec => []SavedRunsAlone
<1>1. BoxInv => SavedRunsAlone
  BY DEF BoxInv, ExportAlone, NoneRunning, SavedRunsAlone
<1> QED BY <1>1, InitCallInv, NextCallInv, InitBoxInv, NextBoxInv, PTL DEF Spec

-----------------------------------------------------------------------------
(* The answers of the web service: from a kill to the next probe nothing   *)
(* reads the old ones, and a call begins without a positive one.           *)
VerdictInv == /\ pc \in InCall \cup {"result", "check", "export"} /\ verdict => fresh
              /\ pc = "dispatch" => ~verdict

LEMMA NextVerdictInv ==
  ASSUME TypeOK, VerdictInv, [Next]_vars
  PROVE  VerdictInv'
<1> USE DEF VerdictInv, InCall, At, Goto, web
<1>1. CASE EnvNext
  BY <1>1 DEF EnvNext, EnvStarts, EnvFails, RestartForProcd, ServicesAreUp
<1>2. CASE FirstProbe \/ FindErrorProc \/ ProbeAfterKill
  BY <1>2 DEF FirstProbe, FindErrorProc, ProbeAfterKill, Probe
<1>3. CASE RerunInitBash \/ Dispatch \/ Result
  BY <1>3 DEF RerunInitBash, Dispatch, Result, NextRound
<1>4. CASE RunBinary \/ InferMagicByte
  BY <1>4 DEF RunBinary, StartAndProbe, InferMagicByte, Probe, Return
<1>5. CASE Locate \/ ApplyFix \/ FixExits \/ RehostPeer \/ NothingFound \/ Settle
  BY <1>5 DEF Locate, ApplyFix, FixExits, RehostPeer, NothingFound, Settle, Iterate, Return
<1>6. CASE EndNext
  BY <1>6 DEF EndNext, Check, ExportContainer, Raise, Cleanup, VerifyExport, NothingToVerify,
              Report, Done, vars
<1>7. CASE UNCHANGED vars
  BY <1>7 DEF vars
<1> QED BY <1>1, <1>2, <1>3, <1>4, <1>5, <1>6, <1>7 DEF Next, RoundNext, CallNext

(* A wellformed answer that is exported is younger than the last kill and  *)
(* the last restart of the service.                                        *)
THEOREM AnswersAreFresh == Spec => []VerdictFresh
<1>1. Init => VerdictInv
  BY DEF Init, VerdictInv, InCall
<1>2. CallInv => TypeOK
  BY DEF CallInv
<1>3. VerdictInv => VerdictFresh
  BY DEF VerdictInv, VerdictFresh
<1> QED BY <1>1, <1>2, <1>3, InitCallInv, NextCallInv, NextVerdictInv, PTL DEF Spec

-----------------------------------------------------------------------------
(* The network: between fixes the saved network has all devices there are. *)
NetworkInv == pc \in InRounds \ {"settle"} => devices \subseteq netinfo

LEMMA NextNetworkInv ==
  ASSUME NetworkInv, [Next]_vars
  PROVE  NetworkInv'
<1> USE DEF NetworkInv, InRounds, At, Goto, network
<1>1. CASE EnvNext
  BY <1>1 DEF EnvNext, EnvStarts, EnvFails, RestartForProcd, ServicesAreUp
<1>2. CASE FirstProbe \/ FindErrorProc \/ ProbeAfterKill
  BY <1>2 DEF FirstProbe, FindErrorProc, ProbeAfterKill, Reconfigure
<1>3. CASE RerunInitBash \/ Dispatch \/ Result
  BY <1>3 DEF RerunInitBash, Dispatch, Result, NextRound
<1>4. CASE RunBinary \/ InferMagicByte
  BY <1>4 DEF RunBinary, StartAndProbe, InferMagicByte, Reconfigure, Return
<1>5. CASE Locate \/ FixExits \/ RehostPeer \/ NothingFound
  BY <1>5 DEF Locate, FixExits, RehostPeer, NothingFound
<1>6. CASE ApplyFix
  BY <1>6 DEF ApplyFix
<1>7. CASE Settle
  BY <1>7 DEF Settle, SaveNetwork, Iterate, Return
<1>8. CASE EndNext
  BY <1>8 DEF EndNext, Check, ExportContainer, Raise, Cleanup, VerifyExport, NothingToVerify,
              Report, Done, vars
<1>9. CASE UNCHANGED vars
  BY <1>9 DEF vars
<1> QED BY <1>1, <1>2, <1>3, <1>4, <1>5, <1>6, <1>7, <1>8, <1>9 DEF Next, RoundNext, CallNext

(* No reconfiguration is told to take away a device that a fix created, in *)
(* whatever call it was created and in whatever call the network is        *)
(* restored.                                                               *)
THEOREM NetworkIsSaved == Spec => []FixesAreSaved
<1>1. Init => NetworkInv
  BY DEF Init, NetworkInv
<1>2. NetworkInv => FixesAreSaved
  BY DEF NetworkInv, FixesAreSaved, InRounds, At
<1> QED BY <1>1, <1>2, NextNetworkInv, PTL DEF Spec

(* Later rounds work on the target once its command line is known. *)
THEOREM TargetStays == Spec => TargetSticks
<1>1. ASSUME Next, cmdline, err' # err PROVE err' = Target
  <2> USE DEF inRound
  <2>1. CASE EnvNext
    BY <1>1, <2>1 DEF EnvNext, EnvStarts, EnvFails, RestartForProcd, ServicesAreUp
  <2>2. CASE RoundNext
    BY <1>1, <2>2 DEF RoundNext, FirstProbe, FindErrorProc, ProbeAfterKill, RerunInitBash,
                      Dispatch, Result
  <2>3. CASE CallNext
    BY <1>1, <2>3 DEF CallNext, RunBinary, StartAndProbe, Locate, ApplyFix, FixExits, InferMagicByte, RehostPeer,
                      NothingFound, Settle
  <2>4. CASE EndNext
    BY <1>1, <2>4 DEF EndNext, Check, ExportContainer, Raise, Cleanup, VerifyExport,
                      NothingToVerify, Report, Done, vars
  <2> QED BY <1>1, <2>1, <2>2, <2>3, <2>4 DEF Next
<1>2. [Next]_vars => [cmdline /\ err' # err => err' = Target]_vars
  BY <1>1
<1> QED BY <1>2, PTL DEF Spec, TargetSticks

-----------------------------------------------------------------------------
(* A success with --export went through the export and its verification,   *)
(* which ends the program if there is no export.                           *)
SuccessInv ==
  /\ pc = "export" \/ exported => wellformed
  /\ exported => pc \in {"cleanup", "verify", "report", "done"}
  /\ status # "none" => pc = "done"
  /\ status = "SUCCESS" /\ Export => exported
  /\ pc = "report" /\ verdict /\ Export => exported

(* The status is SUCCESS only of a run that has left an export.            *)
THEOREM SuccessHasExport == Spec => []SuccessIsExported
<1>1. Init => SuccessInv
  BY DEF Init, SuccessInv
<1>2. ASSUME SuccessInv, [Next]_vars PROVE SuccessInv'
  <2> USE DEF SuccessInv, At, Goto, outcome, web
  <2>1. CASE EnvNext
    BY <1>2, <2>1 DEF EnvNext, EnvStarts, EnvFails, RestartForProcd, ServicesAreUp
  <2>2. CASE RoundNext
    BY <1>2, <2>2 DEF RoundNext, FirstProbe, FindErrorProc, ProbeAfterKill, RerunInitBash, NextRound,
                      Dispatch, Result
  <2>3. CASE CallNext
    BY <1>2, <2>3 DEF CallNext, RunBinary, StartAndProbe, Locate, ApplyFix, FixExits, InferMagicByte,
                      RehostPeer, NothingFound, Settle, Iterate, Return
  <2>4. CASE EndNext
    <3>1. CASE Check BY <1>2, <3>1 DEF Check
    <3>2. CASE ExportContainer BY <1>2, <3>2 DEF ExportContainer
    <3>3. CASE Raise BY <1>2, <3>3 DEF Raise
    <3>4. CASE Cleanup BY <1>2, <3>4 DEF Cleanup
    <3>5. CASE VerifyExport BY <1>2, <3>5 DEF VerifyExport
    <3>6. CASE NothingToVerify BY <1>2, <3>6 DEF NothingToVerify
    <3>7. CASE Report BY <1>2, <3>7 DEF Report
    <3>8. CASE Done BY <1>2, <3>8 DEF Done, vars
    <3> QED BY <2>4, <3>1, <3>2, <3>3, <3>4, <3>5, <3>6, <3>7, <3>8 DEF EndNext
  <2>5. CASE UNCHANGED vars
    BY <1>2, <2>5 DEF vars
  <2> QED BY <1>2, <2>1, <2>2, <2>3, <2>4, <2>5 DEF Next
<1>3. SuccessInv => SuccessIsExported
  BY DEF SuccessInv, SuccessIsExported
<1> QED BY <1>1, <1>2, <1>3, PTL DEF Spec

-----------------------------------------------------------------------------
(* Located errors: what was answered last is in the set, and the magic     *)
(* bytes of a file are located once, right after its fill_file_content.    *)
LocatedInv ==
  \A s \in Service, f \in SysFile :
    /\ located[s].last = Fill(f) => Fill(f) \in located[s].fixed /\ Magic(f) \notin located[s].fixed
    /\ Magic(f) \in located[s].fixed => Fill(f) \in located[s].fixed

(* Errors of these two kinds are the same only if they are equal. *)
LEMMA SameFile ==
  ASSUME NEW f \in SysFile, NEW e \in Error
  PROVE  /\ IsSameError(Magic(f), e) => e = Magic(f)
         /\ \A g \in SysFile : Magic(f) # Fill(g) /\ (Fill(f) = Fill(g) => f = g)
                                                /\ (Magic(f) = Magic(g) => f = g)
<1> USE DEF Err, Net, Fill, Supply, Magic, Socket, Shm, IsSameError
<1>1. IsSameError(Magic(f), e) => e = Magic(f)
  <2>1. CASE e \in FileFailure BY <2>1 DEF FileFailure
  <2>2. CASE e \in SocketFailure BY <2>2 DEF SocketFailure
  <2>3. CASE e \in ShmFailure BY <2>3 DEF ShmFailure
  <2>4. CASE \E d \in SUBSET Device : e = Net(d) BY <2>4
  <2>5. CASE \E g \in SysFile : e = Magic(g) BY <2>5
  <2>6. CASE \E d \in Device : e = Net({d}) BY <2>6
  <2> QED BY <2>1, <2>2, <2>3, <2>4, <2>5, <2>6 DEF Error, Failure
<1> QED BY <1>1

LEMMA FillIsError ==
  ASSUME NEW f \in SysFile
  PROVE  Fill(f) # NoError
<1>1. Fill(f) \in Error
  BY DEF Error, Failure, FileFailure
<1> QED BY <1>1, NoErrorAssumption DEF IsSameError

LEMMA LocateStep ==
  ASSUME Device = {}, CallInv, LocatedInv, Locate
  PROVE  /\ LocatedInv'
         /\ \A e \in located[Top.service].fixed : ~IsSameError(cand', e)
<1> DEFINE s == Top.service
<1>1. s \in Service
  BY TopService DEF Locate, At, InCall
<1>2. located[s].fixed \subseteq Error
  BY <1>1 DEF CallInv, TypeOK
<1>3. \/ cand' = NoError
      \/ \E f \in SysFile : cand' = Magic(f) /\ located[s].last = Fill(f)
      \/ cand' \in Failure /\ ~IsErrorFixed(s, cand')
  BY <1>1, CandidateKinds DEF Locate
<1>4. located' = [located EXCEPT ![s] =
                    [fixed |-> IF cand' = NoError THEN @.fixed ELSE @.fixed \cup {cand'},
                     last |-> cand']]
  BY DEF Locate
<1>5. \A x \in Service : located'[x] = IF x # s THEN located[x]
                                        ELSE [fixed |-> IF cand' = NoError THEN located[s].fixed
                                                        ELSE located[s].fixed \cup {cand'},
                                              last |-> cand']
  BY <1>1, <1>4 DEF CallInv, TypeOK
<1> HIDE DEF s
<1>6. CASE cand' = NoError
  <2>1. \A e \in located[s].fixed : ~IsSameError(cand', e)
    BY <1>2, <1>6, NoErrorAssumption
  <2>2. LocatedInv'
    BY <1>1, <1>5, <1>6, FillIsError DEF LocatedInv
  <2> QED BY <2>1, <2>2 DEF s
<1>7. CASE \E f \in SysFile : cand' = Magic(f) /\ located[s].last = Fill(f)
  <2> PICK f \in SysFile : cand' = Magic(f) /\ located[s].last = Fill(f)
    BY <1>7
  <2>1. Magic(f) \notin located[s].fixed /\ Fill(f) \in located[s].fixed
    BY <1>1 DEF LocatedInv
  <2>2. \A e \in located[s].fixed : ~IsSameError(cand', e)
    BY <1>2, <2>1, SameFile
  <2>3. LocatedInv'
    BY <1>1, <1>2, <1>5, <2>1, SameFile DEF LocatedInv
  <2> QED BY <2>2, <2>3 DEF s
<1>8. CASE cand' \in Failure /\ ~IsErrorFixed(s, cand')
  <2>1. \A e \in located[s].fixed : ~IsSameError(cand', e)
    BY <1>8 DEF IsErrorFixed
  <2>2. LocatedInv'
    <3>1. cand' \notin located[s].fixed
      BY <2>1 DEF IsSameError
    <3>2. \A f \in SysFile : cand' # Magic(f)
      BY <1>8 DEF Failure, FileFailure, SocketFailure, ShmFailure, Err, Net, Fill, Supply, Magic,
                  Socket, Shm
    <3>3. \A f \in SysFile : Magic(f) # Fill(f)
      BY DEF Magic, Fill, Err
    <3>4. \A f \in SysFile : cand' = Fill(f) => Magic(f) \notin located[s].fixed
      BY <1>1, <3>1 DEF LocatedInv
    <3>5. cand' # NoError
      BY <1>8, NoErrorAssumption DEF Error, IsSameError
    <3>6. located'[s].last = cand' /\ located'[s].fixed = located[s].fixed \cup {cand'}
      BY <1>1, <1>5, <3>5
    <3>7. ASSUME NEW f \in SysFile
          PROVE  /\ cand' = Fill(f) => Fill(f) \in located'[s].fixed /\ Magic(f) \notin located'[s].fixed
                 /\ Magic(f) \in located'[s].fixed => Fill(f) \in located'[s].fixed
      BY <1>1, <3>2, <3>3, <3>4, <3>6 DEF LocatedInv
    <3>8. \A x \in Service : x # s => located'[x] = located[x]
      BY <1>5
    <3>9. ASSUME NEW x \in Service, NEW f \in SysFile
          PROVE  /\ located'[x].last = Fill(f) => Fill(f) \in located'[x].fixed /\ Magic(f) \notin located'[x].fixed
                 /\ Magic(f) \in located'[x].fixed => Fill(f) \in located'[x].fixed
      BY <3>6, <3>7, <3>8 DEF LocatedInv
    <3> QED BY <3>9 DEF LocatedInv
  <2> QED BY <2>1, <2>2 DEF s
<1> QED BY <1>3, <1>6, <1>7, <1>8

LEMMA LocatedElsewhere ==
  ASSUME LocatedInv, [Next]_vars, ~Locate
  PROVE  /\ LocatedInv'
         /\ ~(At("locate") /\ pc' = "fix")
<1> USE DEF LocatedInv, At, Goto, inCall
<1>1. CASE EnvNext
  BY <1>1 DEF EnvNext, EnvStarts, EnvFails, RestartForProcd, ServicesAreUp
<1>2. CASE RoundNext
  BY <1>2 DEF RoundNext, FirstProbe, FindErrorProc, ProbeAfterKill, RerunInitBash, NextRound,
              Dispatch, Result
<1>3. CASE CallNext
  BY <1>3 DEF CallNext, RunBinary, StartAndProbe, ApplyFix, FixExits, InferMagicByte, RehostPeer, NothingFound,
              Settle, Iterate, Return
<1>4. CASE EndNext
  BY <1>4 DEF EndNext, Check, ExportContainer, Raise, Cleanup, VerifyExport, NothingToVerify,
              Report, Done, vars
<1>5. CASE UNCHANGED vars
  BY <1>5 DEF vars
<1> QED BY <1>1, <1>2, <1>3, <1>4, <1>5 DEF Next

(* If the firmware misses no device, an error that was located before is   *)
(* never located again.                                                    *)
THEOREM LocatedOnce == Device = {} => (Spec => LocatedIsUnfixed)
<1> SUFFICES ASSUME Device = {} PROVE Spec => LocatedIsUnfixed
  OBVIOUS
<1> DEFINE Unfixed == At("locate") /\ pc' = "fix"
                        => \A e \in located[Top.service].fixed : ~IsSameError(cand', e)
<1>1. Init => LocatedInv
  <2>1. \A f \in SysFile : Fill(f) # NoError
    BY FillIsError
  <2> QED BY <2>1 DEF Init, LocatedInv
<1>2. CallInv /\ LocatedInv /\ [Next]_vars => LocatedInv' /\ [Unfixed]_vars
  BY LocateStep, LocatedElsewhere
<1> QED BY <1>1, <1>2, InitCallInv, NextCallInv, PTL DEF Spec, LocatedIsUnfixed
=============================================================================
