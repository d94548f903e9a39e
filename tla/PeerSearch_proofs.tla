------------------------- MODULE PeerSearch_proofs -------------------------
(***************************************************************************)
(* Both properties of the search for a peer, for any executables and any   *)
(* limits.                                                                 *)
(***************************************************************************)
EXTENDS PeerSearch, FunctionTheorems, FiniteSetTheorems, SequenceTheorems, TLAPS

Analyzing == phase = "callers" => binary \in Candidates /\ (callers # << >> \/ extracted # << >> => ~ Raises(P))

Waiting == /\ (phase # "callers" => callers = << >>)
           /\ (phase = "none" => todo = {} /\ matching = << >>)

(* What was found are calls that are reached.                              *)
FoundIsReached ==
  phase = "callers" => \A k \in DOMAIN extracted : extracted[k] \in Known(P) /\ P.sites[extracted[k]].reach # "never"

(* A call that its function's execution reaches was found or waits.        *)
Tried(i) ==
  \/ \E k \in DOMAIN extracted : extracted[k] = i
  \/ \E k \in DOMAIN callers : callers[k] = CallerOf(P, i)

NothingLost ==
  phase = "callers" /\ ~ Raises(P) =>
    \A i \in Known(P) : CallerOf(P, i) \in Selected(P) /\ i \in Reached(P, CallerOf(P, i)) => Tried(i)

MatchingShown == \A k \in DOMAIN matching : Shown(world.of[matching[k]])

AllHidden(b) == \A i \in Sought(world.of[b]) : Hidden(world.of[b], i)

Handled(b) ==
  b \in todo \/ (phase = "callers" /\ b = binary) \/ (\E k \in DOMAIN matching : matching[k] = b) \/ AllHidden(b)

NoneForgotten == phase \in {"next", "callers", "none"} => \A b \in Candidates : Handled(b)

IInv ==
  TypeOK /\ Analyzing /\ Waiting /\ FoundIsReached /\ NothingLost /\ MatchingShown /\ NoneForgotten /\ PeerUsesIt
-----------------------------------------------------------------------------
(* A sequence that takes each element of a finite set once takes them all. *)
LEMMA AllTaken ==
  ASSUME NEW S, IsFiniteSet(S), NEW q \in SetToSeqs(S)
  PROVE  q \in Seq(S) /\ \A x \in S : \E k \in DOMAIN q : q[k] = x
<1> DEFINE n == Cardinality(S)
<1>1. n \in Nat BY FS_CardinalityType
<1>2. q \in [1 .. n -> S] /\ \A i, j \in 1 .. n : i # j => q[i] # q[j] BY DEF SetToSeqs
<1>3. q \in Injection(1 .. n, S) BY <1>2 DEF Injection, IsInjective
<1>4. IsFiniteSet(1 .. n) /\ Cardinality(1 .. n) = n BY <1>1, FS_Interval
<1>5. q \in Surjection(1 .. n, S) BY <1>3, <1>4, FS_Injection
<1> QED BY <1>1, <1>2, <1>5 DEF Surjection

(* The program at hand.                                                    *)
LEMMA ProgramType ==
  ASSUME TypeOK, NEW b \in Binaries
  PROVE  world.of[b] \in Program /\ world.seek \in {"socket", "shm"}
BY WorldAssumption DEF TypeOK

LEMMA KnownFinite ==
  ASSUME NEW p \in Program
  PROVE  IsFiniteSet(Known(p)) /\ Known(p) \subseteq DOMAIN p.sites /\ Known(p) \subseteq Nat
<1>1. p.sites \in Seq(Site) BY DEF Program
<1>2. Len(p.sites) \in Nat /\ DOMAIN p.sites = 1 .. Len(p.sites) BY <1>1
<1>3. IsFiniteSet(1 .. Len(p.sites)) BY <1>2, FS_Interval
<1>4. Known(p) \subseteq 1 .. Len(p.sites) BY DEF Known
<1> QED BY <1>2, <1>3, <1>4, FS_Subset

LEMMA SelectedFinite ==
  ASSUME NEW p \in Program
  PROVE  IsFiniteSet(Selected(p))
<1> DEFINE all == {CallerOf(p, i) : i \in Known(p)}
           g == [i \in Known(p) |-> CallerOf(p, i)]
<1>1. g \in Surjection(Known(p), all) BY DEF Surjection
<1>2. IsFiniteSet(all) BY <1>1, KnownFinite, FS_Surjection
<1>3. Selected(p) \subseteq all BY DEF Selected
<1> QED BY <1>2, <1>3, FS_Subset

(* An execution finds known calls of its function that can be reached.     *)
LEMMA ReachedKnown ==
  ASSUME NEW p \in Program, NEW c
  PROVE  /\ Reached(p, c) \subseteq Known(p) /\ IsFiniteSet(Reached(p, c))
         /\ \A i \in Reached(p, c) : CallerOf(p, i) = c /\ p.sites[i].reach # "never"
<1>1. Reached(p, c) \subseteq Known(p)
  BY DEF Reached, Inside, FromEntry, Targeted, Simplified, Group
<1>2. \A i \in Reached(p, c) : CallerOf(p, i) = c /\ p.sites[i].reach # "never"
  BY DEF Reached, Inside, FromEntry, Targeted, Simplified, Group
<1> QED BY <1>1, <1>2, KnownFinite, FS_Subset

(* The other calls have one of the reasons not to be executed.             *)
LEMMA OtherwiseNotExecuted ==
  ASSUME NEW p \in Program, NEW i \in Known(p), i \notin Reached(p, CallerOf(p, i))
  PROVE  NotExecuted(p, i)
<1> DEFINE c == CallerOf(p, i)
<1>1. p.sites[i].reach \in {"entry", "behind", "near", "never"}
  <2>1. p.sites \in Seq(Site) /\ i \in DOMAIN p.sites BY KnownFinite DEF Program
  <2>2. p.sites[i] \in Site BY <2>1
  <2> QED BY <2>2 DEF Site
<1>2. i \in Group(p, c) BY DEF Group
<1>3. CASE p.size[c] > Large BY <1>1, <1>2, <1>3 DEF Reached, Inside, NotExecuted
<1>4. CASE ~ p.size[c] > Large /\ FromEntry(p, c) # {}
  BY <1>1, <1>2, <1>4 DEF Reached, FromEntry, NotExecuted
<1>5. CASE ~ p.size[c] > Large /\ FromEntry(p, c) = {}
  BY <1>1, <1>2, <1>5 DEF Reached, FromEntry, Targeted, Simplified, NotExecuted
<1> QED BY <1>3, <1>4, <1>5

(* When the calls found do not decide for a program, each call sought is   *)
(* hidden; when they do, it has shown its use.                             *)
LEMMA Judged ==
  ASSUME IInv, phase = "callers", callers = << >>
  PROVE  (~ Uses => AllHidden(binary)) /\ (Uses => Shown(P))
<1>1. binary \in Binaries /\ P \in Program /\ world.seek \in {"socket", "shm"}
  BY ProgramType DEF IInv, Analyzing, Candidates, P
<1>2. ASSUME ~ Uses, NEW i \in Sought(P), ~ Hidden(P, i) PROVE FALSE
  <2>1. /\ ~ Raises(P) /\ i \in Known(P) /\ ~ NotExecuted(P, i) /\ (world.seek = "socket" => ~ NotRead(P, i))
    BY <1>2 DEF Hidden
  <2>2. PICK k \in DOMAIN extracted : extracted[k] = i
    BY <2>1, <1>1, OtherwiseNotExecuted DEF IInv, NothingLost, Tried, NotExecuted
  <2>3. extracted # << >> /\ extracted \in Seq(Nat) BY <2>2 DEF IInv, TypeOK
  <2>4. world.seek = "socket" BY <2>3, <1>1, <1>2 DEF Uses
  <2>5. P.sites[i].addr BY <2>4, <1>2 DEF Sought
  <2>6. Value(P, i) = "addr" BY <2>1, <2>4, <2>5 DEF NotRead, Value, Address
  <2>7. PICK l \in 1 .. k - 1 : Value(P, extracted[l]) = "none"
    BY <1>2, <2>2, <2>4, <2>6 DEF Uses
  <2>8. l \in DOMAIN extracted BY <2>2, <2>3, <2>7
  <2>9. extracted[l] \in Known(P) /\ P.sites[extracted[l]].reach # "never"
    BY <2>8 DEF IInv, FoundIsReached
  <2>10. ~ P.sites[extracted[l]].read /\ P.guess = "none" BY <2>7 DEF Value, Address
  <2> QED BY <2>1, <2>4, <2>9, <2>10 DEF NotRead
<1>3. ASSUME Uses PROVE Shown(P)
  <2>1. extracted \in Seq(Nat) /\ ~ Raises(P)
    BY <1>3, <1>1 DEF IInv, TypeOK, Analyzing, Uses
  <2>2. CASE world.seek = "shm"
    <3>1. 1 \in DOMAIN extracted BY <2>1, <2>2, <1>3 DEF Uses
    <3> QED BY <3>1, <2>1, <2>2 DEF IInv, FoundIsReached, Shown
  <2>3. CASE world.seek = "socket"
    BY <2>1, <2>3, <1>3 DEF Uses, IInv, FoundIsReached, Shown
  <2> QED BY <1>1, <2>2, <2>3
<1> QED BY <1>2, <1>3 DEF AllHidden, P
-----------------------------------------------------------------------------
(* The search starts with nothing found.                                   *)
LEMMA Starts == Init => IInv
BY DEF Init, IInv, TypeOK, Analyzing, Waiting, FoundIsReached, NothingLost, MatchingShown, NoneForgotten, PeerUsesIt

(* Shown, AllHidden and Hidden look at the firmware only.                  *)
LEMMA SameWorld ==
  ASSUME UNCHANGED world
  PROVE  /\ \A p : Shown(p)' <=> Shown(p)
         /\ \A b : AllHidden(b)' <=> AllHidden(b)
         /\ Candidates' = Candidates /\ (Sole' <=> Sole)
<1>1. \A p : Shown(p)' <=> Shown(p) BY DEF Shown
<1>2. \A p, i : Hidden(p, i)' <=> Hidden(p, i) BY DEF Hidden
<1>3. \A p : Sought(p)' = Sought(p) BY DEF Sought
<1>4. \A b : AllHidden(b)' <=> AllHidden(b) BY <1>2, <1>3 DEF AllHidden
<1> QED BY <1>1, <1>4 DEF Candidates, Sole

LEMMA IdentifyKeeps == IInv /\ Identify => IInv'
<1> SUFFICES ASSUME IInv, Identify PROVE IInv' OBVIOUS
<1> USE SameWorld
<1>1. Candidates \subseteq Binaries BY DEF Candidates
<1>2. CASE Sole
  BY <1>1, <1>2 DEF IInv, Identify, TypeOK, Analyzing, Waiting, FoundIsReached, NothingLost, MatchingShown,
                    NoneForgotten, PeerUsesIt
<1>3. CASE ~ Sole
  <2>1. NoneForgotten' BY <1>3 DEF Identify, NoneForgotten, Handled
  <2> QED BY <2>1, <1>3 DEF IInv, Identify, TypeOK, Analyzing, Waiting, FoundIsReached, NothingLost, MatchingShown,
                    PeerUsesIt
<1> QED BY <1>2, <1>3

LEMMA AnalyzeKeeps == IInv /\ Analyze => IInv'
<1> SUFFICES ASSUME IInv, Analyze PROVE IInv' OBVIOUS
<1> USE SameWorld
<1>1. PICK b \in todo : /\ binary' = b /\ todo' = todo \ {b}
                        /\ callers' \in (IF Raises(world.of[b]) THEN {<< >>} ELSE Sorted(world.of[b]))
  BY DEF Analyze, CallersOf
<1>2. /\ phase = "next" /\ phase' = "callers" /\ extracted' = << >> /\ UNCHANGED <<world, matching, peer>>
  BY DEF Analyze, CallersOf
<1>3. b \in Candidates /\ b \in Binaries BY DEF IInv, TypeOK, Candidates
<1>4. P' = world.of[b] /\ P' \in Program
  BY <1>1, <1>2, <1>3, ProgramType DEF IInv, P
<1>5. CASE Raises(P')
  <2>1. callers' = << >> BY <1>5, <1>4, <1>1
  <2>2. TypeOK' BY <2>1, <1>1, <1>2, <1>3 DEF IInv, TypeOK
  <2>3. Analyzing' BY <2>1, <1>1, <1>2, <1>3 DEF Analyzing
  <2>4. NothingLost' BY <1>5 DEF NothingLost
  <2> QED BY <2>1, <2>2, <2>3, <2>4, <1>1, <1>2 DEF IInv, Waiting, FoundIsReached, MatchingShown, NoneForgotten, Handled, PeerUsesIt
<1>6. CASE ~ Raises(P')
  <2>1. callers' \in SetToSeqs(Selected(P')) BY <1>6, <1>4, <1>1 DEF Sorted
  <2>2. callers' \in Seq(Selected(P')) /\ \A x \in Selected(P') : \E k \in DOMAIN callers' : callers'[k] = x
    BY <2>1, <1>4, SelectedFinite, AllTaken
  <2>3. TypeOK' BY <2>2, <1>1, <1>2, <1>3 DEF IInv, TypeOK
  <2>4. Analyzing' BY <1>6, <1>1, <1>2, <1>3 DEF Analyzing
  <2>5. NothingLost' BY <2>2 DEF NothingLost, Tried
  <2> QED BY <2>3, <2>4, <2>5, <1>1, <1>2 DEF IInv, Waiting, FoundIsReached, MatchingShown, NoneForgotten, Handled, PeerUsesIt
<1> QED BY <1>5, <1>6

LEMMA ExecuteKeeps == IInv /\ Execute => IInv'
<1> SUFFICES ASSUME IInv, Execute PROVE IInv' OBVIOUS
<1> USE SameWorld
<1>1. /\ phase = "callers" /\ callers # << >> /\ callers' = Tail(callers)
      /\ UNCHANGED <<world, todo, matching, binary, phase, peer>>
  BY DEF Execute
<1> DEFINE c == Head(callers)
<1>2. PICK q \in SetToSeqs(Reached(P, c)) : extracted' = extracted \o q BY DEF Execute
<1>3. /\ binary \in Candidates /\ binary \in Binaries /\ P \in Program /\ P' = P /\ ~ Raises(P)
  BY <1>1, ProgramType DEF IInv, Analyzing, Candidates, P
<1>4. q \in Seq(Reached(P, c)) /\ \A x \in Reached(P, c) : \E k \in DOMAIN q : q[k] = x
  BY <1>3, ReachedKnown, AllTaken
<1>5. /\ Reached(P, c) \subseteq Known(P) /\ Known(P) \subseteq Nat
      /\ \A i \in Reached(P, c) : CallerOf(P, i) = c /\ P.sites[i].reach # "never"
  BY <1>3, ReachedKnown, KnownFinite
<1>6. q \in Seq(Nat) /\ extracted \in Seq(Nat) /\ extracted' \in Seq(Nat)
  <2>1. Reached(P, c) \subseteq Nat BY <1>5
  <2>2. q \in Seq(Nat) BY <2>1, <1>4
  <2> QED BY <2>2, <1>2 DEF IInv, TypeOK
<1>7. callers \in Seq(Selected(P)) /\ callers' \in Seq(Selected(P)) BY <1>1 DEF IInv, TypeOK
<1>8. TypeOK' BY <1>1, <1>3, <1>6, <1>7 DEF IInv, TypeOK, P
<1>9. FoundIsReached'
  <2> SUFFICES ASSUME NEW k \in DOMAIN extracted'
               PROVE  extracted'[k] \in Known(P) /\ P.sites[extracted'[k]].reach # "never"
    BY <1>3 DEF FoundIsReached
  <2>1. CASE k \in DOMAIN extracted
    <3>1. extracted'[k] = extracted[k] BY <2>1, <1>2, <1>6
    <3> QED BY <3>1, <2>1, <1>1 DEF IInv, FoundIsReached
  <2>2. CASE k \notin DOMAIN extracted
    <3>1. k - Len(extracted) \in DOMAIN q /\ extracted'[k] = q[k - Len(extracted)] BY <2>2, <1>2, <1>6
    <3>2. q[k - Len(extracted)] \in Reached(P, c) BY <3>1, <1>4
    <3> QED BY <3>1, <3>2, <1>5
  <2> QED BY <2>1, <2>2
<1>10. NothingLost'
  <2> SUFFICES ASSUME NEW i \in Known(P), CallerOf(P, i) \in Selected(P), i \in Reached(P, CallerOf(P, i))
               PROVE  Tried(i)'
    BY <1>3 DEF NothingLost
  <2>1. CASE CallerOf(P, i) = c
    <3>1. PICK k \in DOMAIN q : q[k] = i BY <2>1, <1>4
    <3>2. k + Len(extracted) \in DOMAIN extracted' /\ extracted'[k + Len(extracted)] = i BY <3>1, <1>2, <1>6
    <3> QED BY <3>2 DEF Tried
  <2>2. CASE CallerOf(P, i) # c
    <3>1. Tried(i) BY <1>1, <1>3 DEF IInv, NothingLost
    <3>2. CASE \E k \in DOMAIN extracted : extracted[k] = i
      <4>1. PICK k \in DOMAIN extracted : extracted[k] = i BY <3>2
      <4>2. k \in DOMAIN extracted' /\ extracted'[k] = i BY <4>1, <1>2, <1>6
      <4> QED BY <4>2 DEF Tried
    <3>3. CASE \E k \in DOMAIN callers : callers[k] = CallerOf(P, i)
      <4>1. PICK k \in DOMAIN callers : callers[k] = CallerOf(P, i) BY <3>3
      <4>2. k # 1 BY <4>1, <2>2
      <4>3. k - 1 \in DOMAIN callers' /\ callers'[k - 1] = CallerOf(P, i) BY <4>1, <4>2, <1>1, <1>7
      <4> QED BY <4>3, <1>3 DEF Tried
    <3> QED BY <3>1, <3>2, <3>3 DEF Tried
  <2> QED BY <2>1, <2>2
<1> QED BY <1>1, <1>3, <1>8, <1>9, <1>10 DEF IInv, Analyzing, Waiting, MatchingShown, NoneForgotten, Handled, PeerUsesIt

LEMMA JudgeKeeps == IInv /\ Judge => IInv'
<1> SUFFICES ASSUME IInv, Judge PROVE IInv' OBVIOUS
<1> USE SameWorld
<1>1. phase = "callers" /\ callers = << >> /\ UNCHANGED <<world, todo, binary, callers, extracted>> BY DEF Judge, JudgeShm, JudgeSocket
<1>2. (~ Uses => AllHidden(binary)) /\ (Uses => Shown(world.of[binary])) BY <1>1, Judged DEF P
<1>3. binary \in Candidates /\ binary \in Binaries BY <1>1 DEF IInv, Analyzing, Candidates
<1>4. CASE Uses /\ world.seek = "shm"
  <2>1. peer' = binary /\ phase' = "done" /\ matching' = matching BY <1>4 DEF Judge, JudgeShm, JudgeSocket
  <2>2. PeerUsesIt' BY <2>1, <1>1, <1>2, <1>4 DEF PeerUsesIt
  <2>3. TypeOK' BY <2>1, <1>1, <1>3 DEF IInv, TypeOK
  <2> QED BY <2>1, <2>2, <2>3, <1>1 DEF IInv, Analyzing, Waiting, FoundIsReached, NothingLost, MatchingShown, NoneForgotten
<1>5. CASE Uses /\ world.seek # "shm"
  <2>1. phase' = "next" /\ matching' = Append(matching, binary) /\ peer' = peer BY <1>5 DEF Judge, JudgeShm, JudgeSocket
  <2>2. matching \in Seq(Candidates) /\ matching' \in Seq(Candidates) BY <2>1, <1>3 DEF IInv, TypeOK
  <2>3. /\ Len(matching') = Len(matching) + 1 /\ matching'[Len(matching')] = binary
        /\ \A k \in DOMAIN matching : k \in DOMAIN matching' /\ matching'[k] = matching[k]
        /\ \A k \in DOMAIN matching' : k \in DOMAIN matching \/ k = Len(matching')
        /\ Len(matching') \in DOMAIN matching'
    BY <2>1, <2>2
  <2>4. TypeOK' BY <2>1, <2>2, <1>1 DEF IInv, TypeOK
  <2>5. MatchingShown' BY <2>3, <1>1, <1>2, <1>5 DEF IInv, MatchingShown
  <2>6. NoneForgotten' BY <2>1, <2>3, <1>1 DEF IInv, NoneForgotten, Handled
  <2> QED BY <2>1, <2>4, <2>5, <2>6, <1>1 DEF IInv, Analyzing, Waiting, FoundIsReached, NothingLost, PeerUsesIt
<1>6. CASE ~ Uses
  <2>1. phase' = "next" /\ matching' = matching /\ peer' = peer BY <1>6 DEF Judge, JudgeShm, JudgeSocket
  <2>2. TypeOK' BY <2>1, <1>1 DEF IInv, TypeOK
  <2>3. NoneForgotten' BY <2>1, <1>1, <1>2, <1>6 DEF IInv, NoneForgotten, Handled
  <2> QED BY <2>1, <2>2, <2>3, <1>1 DEF IInv, Analyzing, Waiting, FoundIsReached, NothingLost, MatchingShown, PeerUsesIt
<1> QED BY <1>4, <1>5, <1>6

LEMMA DecideKeeps == IInv /\ Decide => IInv'
<1> SUFFICES ASSUME IInv, Decide PROVE IInv' OBVIOUS
<1> USE SameWorld
<1>1. phase = "next" /\ todo = {} /\ UNCHANGED <<world, todo, matching, binary, callers, extracted>> BY DEF Decide
<1>2. CASE matching = << >>
  <2>1. phase' = "none" /\ peer' = peer BY <1>2 DEF Decide
  <2> QED BY <1>1, <1>2, <2>1 DEF IInv, TypeOK, Analyzing, Waiting, FoundIsReached, NothingLost, MatchingShown, NoneForgotten,
                                  Handled, PeerUsesIt
<1>3. CASE matching # << >>
  <2>1. phase' = "done" /\ peer' = matching[1] BY <1>3 DEF Decide
  <2>2. matching \in Seq(Candidates) /\ 1 \in DOMAIN matching BY <1>3 DEF IInv, TypeOK
  <2>3. peer' \in Binaries /\ Shown(world.of[peer']) BY <2>1, <2>2 DEF IInv, MatchingShown, Candidates
  <2> QED BY <1>1, <2>1, <2>3 DEF IInv, TypeOK, Analyzing, Waiting, FoundIsReached, NothingLost, MatchingShown, NoneForgotten,
                                  PeerUsesIt
<1> QED BY <1>2, <1>3

LEMMA StutterKeeps == IInv /\ UNCHANGED vars => IInv'
<1> SUFFICES ASSUME IInv, UNCHANGED vars PROVE IInv' OBVIOUS
<1> USE SameWorld
<1>1. UNCHANGED <<world, todo, matching, binary, callers, extracted, phase, peer>> BY DEF vars
<1>2. P' = P BY <1>1 DEF P
<1> QED BY <1>1, <1>2 DEF IInv, TypeOK, Analyzing, Waiting, FoundIsReached, NothingLost, Tried, MatchingShown, NoneForgotten,
                          Handled, PeerUsesIt

LEMMA Invariant == Spec => []IInv
<1>1. IInv /\ [Next]_vars => IInv'
  BY IdentifyKeeps, AnalyzeKeeps, ExecuteKeeps, JudgeKeeps, DecideKeeps, StutterKeeps DEF Next
<1> QED BY <1>1, Starts, PTL DEF Spec
-----------------------------------------------------------------------------
(* Every variable of the search keeps its type, for any firmware.          *)
THEOREM Typed == Spec => []TypeOK
<1>1. IInv => TypeOK BY DEF IInv
<1> QED BY <1>1, Invariant, PTL

(* The peer that _identify_peer_process names, unless it was the only      *)
(* candidate, has shown a call with the address and its analysis ended.    *)
THEOREM PeerShown == Spec => []PeerUsesIt
<1>1. IInv => PeerUsesIt BY DEF IInv
<1> QED BY <1>1, Invariant, PTL

(* No use of the address is lost between candidates, callers and the ways  *)
(* of execution: what is not noticed is hidden for a named reason.         *)
THEOREM NothingOverlooked == Spec => []MatchUnlessHidden
<1>1. IInv => MatchUnlessHidden
  BY DEF IInv, Waiting, NoneForgotten, Handled, AllHidden, MatchUnlessHidden
<1> QED BY <1>1, Invariant, PTL
=============================================================================
