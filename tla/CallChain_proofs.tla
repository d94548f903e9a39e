-------------------------- MODULE CallChain_proofs --------------------------
(***************************************************************************)
(* What the run of CallChain checks of the chain it returns and of the     *)
(* files it takes up, proved for any firmware and any count.               *)
(***************************************************************************)
EXTENDS CallChain, FunctionTheorems, FiniteSetTheorems, SequenceTheorems, WellFoundedInduction, TLAPS

(* Every link of the graph is a call or is assumed, and every kept answer  *)
(* lists callees only.                                                     *)
LinksAreReal == \A e \in graph : e \in Assumed \/ Calls(e[1], e[2])

AnswersAreReal == \A c \in Files : execve_map[c] = NotAsked \/ execve_map[c] \subseteq Callees(c)

ChainInGraph == phase = "found" => call_chain \in SimplePaths(graph)

(* What waits in the worklist was marked when it was pushed, only the      *)
(* target was not.                                                         *)
Marked ==
  /\ Range(taken) \subseteq analyzed
  /\ \/ Range(worklist) \subseteq analyzed
     \/ worklist = <<Target>> /\ taken = << >> /\ callers = {} /\ analyzed = {}

Once == IsInjective(taken) /\ IsInjective(worklist) /\ Range(taken) \cap Range(worklist) = {}

Counted == Len(taken) < Count /\ (phase = "exit" => Len(taken) + 1 = Count)

Unstarted == phase = "entry" => worklist = << >> /\ taken = << >> /\ callers = {} /\ analyzed = {}

IInv == TypeOK /\ LinksAreReal /\ AnswersAreReal /\ ChainInGraph /\ Marked /\ Once /\ Counted /\ Unstarted
-----------------------------------------------------------------------------
(* The firmware at hand.                                                   *)
LEMMA FirmwareType ==
  ASSUME TypeOK
  PROVE  /\ fw.bash \in Files \cup {NoFile} /\ fw.procd \in Files \cup {NoFile}
         /\ fw.initd \subseteq Files /\ Init_ \in Files /\ Target \in Files /\ NoFile \notin Files
BY WorldAssumption, EntryAssumption DEF TypeOK, Firmware

(* Assumed links are between files.                                        *)
LEMMA EntryLinksType ==
  ASSUME TypeOK
  PROVE  EntryLinks \subseteq Files \X Files /\ EntryLinks \subseteq Assumed
BY FirmwareType DEF EntryLinks, Links, Assumed

LEMMA InitdLinksType ==
  ASSUME TypeOK, NEW f \in Files
  PROVE  InitdLinks(f) \subseteq Files \X Files /\ InitdLinks(f) \subseteq Assumed
BY FirmwareType DEF InitdLinks, Links, Assumed

(* What Ghidra or the shell parser answers, and what was kept of it, are   *)
(* callees.                                                                *)
LEMMA AnswerIsReal ==
  ASSUME TypeOK, AnswersAreReal, NEW c \in Files, NEW f
  PROVE  Answer(c, f) \subseteq Callees(c) /\ Answer(c, f) \subseteq Files
<1>1. Seen(c, f) \subseteq Callees(c) BY DEF Seen
<1>2. Callees(c) \subseteq Files BY DEF Callees
<1> QED BY <1>1, <1>2 DEF Answer, AnswersAreReal

(* A sequence without repetition has as many elements as places.           *)
LEMMA PlacesCounted ==
  ASSUME NEW s \in Seq(Files), IsInjective(s)
  PROVE  Cardinality(Range(s)) = Len(s)
<1>1. s \in Bijection(1 .. Len(s), Range(s)) BY DEF Bijection, Injection, Surjection, IsInjective, Range
<1>2. Len(s) \in Nat OBVIOUS
<1>3. ExistsBijection(1 .. Len(s), Range(s)) BY <1>1 DEF ExistsBijection
<1> QED BY <1>2, <1>3, FS_CountingElements

(* Pushing and popping.                                                    *)
LEMMA AppendRange ==
  ASSUME NEW s \in Seq(Files), NEW f \in Files
  PROVE  /\ Append(s, f) \in Seq(Files) /\ Range(Append(s, f)) = Range(s) \cup {f}
         /\ IsInjective(s) /\ f \notin Range(s) => IsInjective(Append(s, f))
<1> DEFINE t == Append(s, f)
           n == Len(s)
<1>1. n \in Nat /\ DOMAIN s = 1 .. n OBVIOUS
<1>2. t \in Seq(Files) /\ DOMAIN t = 1 .. n + 1 /\ t[n + 1] = f /\ \A i \in 1 .. n : t[i] = s[i] OBVIOUS
<1> HIDE DEF t, n
<1>3. Range(t) \subseteq Range(s) \cup {f} BY <1>1, <1>2 DEF Range
<1>4. Range(s) \cup {f} \subseteq Range(t) BY <1>1, <1>2 DEF Range
<1>5. ASSUME IsInjective(s), f \notin Range(s) PROVE IsInjective(t)
  BY <1>1, <1>2, <1>5 DEF Range, IsInjective
<1> QED BY <1>2, <1>3, <1>4, <1>5 DEF t

LEMMA FrontRange ==
  ASSUME NEW s \in Seq(Files), s # << >>
  PROVE  /\ Front(s) \in Seq(Files) /\ Last(s) \in Files /\ Last(s) \in Range(s) /\ Range(Front(s)) \subseteq Range(s)
         /\ IsInjective(s) => IsInjective(Front(s)) /\ Last(s) \notin Range(Front(s))
<1> DEFINE n == Len(s)
<1>1. n \in Nat /\ n > 0 /\ DOMAIN s = 1 .. n OBVIOUS
<1>2. Front(s) \in Seq(Files) /\ Len(Front(s)) = n - 1 /\ \A i \in 1 .. n - 1 : Front(s)[i] = s[i]
  BY <1>1 DEF Front
<1>3. DOMAIN Front(s) = 1 .. n - 1 BY <1>2
<1>4. Last(s) = s[n] /\ n \in DOMAIN s /\ s[n] \in Files BY <1>1 DEF Last
<1>5. Range(Front(s)) \subseteq Range(s) BY <1>1, <1>2, <1>3 DEF Range
<1>6. ASSUME IsInjective(s) PROVE IsInjective(Front(s)) /\ Last(s) \notin Range(Front(s))
  BY <1>1, <1>2, <1>3, <1>4, <1>6 DEF Range, IsInjective
<1> QED BY <1>2, <1>4, <1>5, <1>6 DEF Range

LEMMA FrontAndLast ==
  ASSUME NEW s \in Seq(Files), s # << >>
  PROVE  Range(Front(s)) \cup {Last(s)} = Range(s)
<1> DEFINE n == Len(s)
<1>1. n \in Nat /\ n > 0 /\ DOMAIN s = 1 .. n OBVIOUS
<1>2. Front(s) \in Seq(Files) /\ Len(Front(s)) = n - 1 /\ \A i \in 1 .. n - 1 : Front(s)[i] = s[i]
  BY <1>1 DEF Front
<1>3. DOMAIN Front(s) = 1 .. n - 1 BY <1>2
<1>4. Last(s) = s[n] BY <1>1 DEF Last
<1> HIDE DEF n
<1>5. Range(s) \subseteq Range(Front(s)) \cup {Last(s)}
  <2>1. \A i \in 1 .. n : i = n \/ i \in 1 .. n - 1 BY <1>1
  <2> QED BY <1>1, <1>2, <1>3, <1>4, <2>1 DEF Range
<1>6. Last(s) \in Range(s) /\ Range(Front(s)) \subseteq Range(s) BY FrontRange
<1> QED BY <1>5, <1>6

-----------------------------------------------------------------------------
LEMMA InitIInv == Init => IInv
<1> SUFFICES ASSUME Init PROVE IInv OBVIOUS
<1>1. TypeOK BY DEF Init, TypeOK
<1>2. Marked /\ Once BY DEF Init, Marked, Once, Range, IsInjective
<1>3. Counted /\ Unstarted BY CountAssumption DEF Init, Counted, Unstarted
<1>4. LinksAreReal /\ AnswersAreReal /\ ChainInGraph BY DEF Init, LinksAreReal, AnswersAreReal, ChainInGraph
<1> QED BY <1>1, <1>2, <1>3, <1>4 DEF IInv

LEMMA StartIInv == IInv /\ StartSearch => IInv'
<1> SUFFICES ASSUME IInv, StartSearch PROVE IInv' OBVIOUS
<1> USE DEF IInv
<1>1. CASE Raises
  <2>1. TypeOK' BY <1>1 DEF StartSearch, TypeOK
  <2>2. Marked' /\ Once' /\ Counted' /\ Unstarted' BY <1>1 DEF StartSearch, Marked, Once, Counted, Unstarted
  <2>3. LinksAreReal' /\ AnswersAreReal' /\ ChainInGraph'
    BY <1>1 DEF StartSearch, LinksAreReal, AnswersAreReal, ChainInGraph, Assumed, EntryLinks, InitdLinks, Calls, Callees, Links
  <2> QED BY <2>1, <2>2, <2>3
<1>2. CASE ~Raises
  <2>1. TypeOK' BY <1>2, EntryLinksType, FirmwareType DEF StartSearch, TypeOK
  <2>2. Marked' BY <1>2 DEF StartSearch, Marked, Unstarted, Range
  <2>3. Once' BY <1>2 DEF StartSearch, Once, Unstarted, Range, IsInjective
  <2>4. Counted' /\ Unstarted' BY <1>2 DEF StartSearch, Counted, Unstarted
  <2>5. LinksAreReal'
    BY <1>2, EntryLinksType DEF StartSearch, LinksAreReal, Assumed, EntryLinks, InitdLinks, Calls, Links
  <2>6. AnswersAreReal' /\ ChainInGraph' BY <1>2 DEF StartSearch, AnswersAreReal, ChainInGraph, Callees, Calls
  <2> QED BY <2>1, <2>2, <2>3, <2>4, <2>5, <2>6
<1> QED BY <1>1, <1>2

(* A step of the search that adds real links to the graph and callees to   *)
(* the answers.                                                            *)
LEMMA RealStep ==
  ASSUME IInv, fw' = fw,
         \A e \in graph' : e \in graph \/ e \in Assumed \/ Calls(e[1], e[2]),
         \A c \in Files : execve_map'[c] = execve_map[c] \/ execve_map'[c] \subseteq Callees(c)
  PROVE  LinksAreReal' /\ AnswersAreReal'
<1>1. Assumed' = Assumed BY DEF Assumed, EntryLinks, InitdLinks, Links
<1>2. \A c, f : Calls(c, f)' = Calls(c, f) BY DEF Calls
<1>3. \A c : Callees(c)' = Callees(c) BY <1>2 DEF Callees
<1>4. LinksAreReal' BY <1>1, <1>2 DEF IInv, LinksAreReal
<1>5. AnswersAreReal' BY <1>3 DEF IInv, AnswersAreReal
<1> QED BY <1>4, <1>5

(* A route is a sequence of files.                                         *)
LEMMA RouteType ==
  ASSUME NEW p \in Routes
  PROVE  /\ Len(p) \in Nat /\ Len(p) > 1 /\ p[1] = Init_ /\ p[Len(p)] = Target
         /\ \A i \in 1 .. Len(p) : p[i] \in Files
<1>1. PICK S \in SUBSET Files : p \in SetToSeqs(S) BY DEF Routes, SetToAllKPermutations
<1>2. Cardinality(S) \in Nat BY EntryAssumption, FS_Subset, FS_CardinalityType
<1>3. p \in [1 .. Cardinality(S) -> S] BY <1>1 DEF SetToSeqs
<1>4. Len(p) = Cardinality(S) BY <1>2, <1>3
<1> QED BY <1>1, <1>2, <1>3, <1>4 DEF Routes, Last

(* The chain that get_call_chain picks.                                    *)
LEMMA FoundChain ==
  ASSUME NEW g, Found(g)
  PROVE  phase' = "found" /\ call_chain' \in SimplePaths(g) /\ call_chain' \in Routes
BY DEF Found, Shortest, SimplePaths

LEMMA PopIInv == IInv /\ Pop => IInv'
<1> SUFFICES ASSUME IInv, Pop PROVE IInv' OBVIOUS
<1> USE DEF IInv
<1>1. CASE Len(taken) + 1 = Count
  <2>1. TypeOK' BY <1>1 DEF Pop, TypeOK
  <2>2. Marked' /\ Once' /\ Counted' /\ Unstarted' BY <1>1 DEF Pop, Marked, Once, Counted, Unstarted
  <2>3. LinksAreReal' /\ AnswersAreReal' BY <1>1, RealStep DEF Pop
  <2>4. ChainInGraph' BY <1>1 DEF Pop, ChainInGraph
  <2> QED BY <2>1, <2>2, <2>3, <2>4
<1>2. CASE Len(taken) + 1 # Count
  <2> DEFINE f == Last(worklist)
  <2>1. /\ phase = "search" /\ callers = {} /\ worklist # << >> /\ fw' = fw /\ execve_map' = execve_map
        /\ TakesUp(f)
        /\ \/ Found(graph') /\ callers' = callers
           \/ callers' = Potential(f) /\ phase' = phase /\ call_chain' = call_chain
    BY <1>2 DEF Pop
  <2>2. worklist \in Seq(Files) /\ taken \in Seq(Files) BY DEF TypeOK
  <2>3. /\ Front(worklist) \in Seq(Files) /\ f \in Files /\ f \in Range(worklist)
        /\ Range(Front(worklist)) \subseteq Range(worklist)
        /\ IsInjective(worklist) => IsInjective(Front(worklist)) /\ f \notin Range(Front(worklist))
    BY <2>1, <2>2, FrontRange
  <2>4. /\ Append(taken, f) \in Seq(Files) /\ Range(Append(taken, f)) = Range(taken) \cup {f}
        /\ IsInjective(taken) /\ f \notin Range(taken) => IsInjective(Append(taken, f))
        /\ Len(Append(taken, f)) = Len(taken) + 1
    BY <2>2, <2>3, AppendRange
  <2> HIDE DEF f
  <2>5. /\ worklist' = Front(worklist) /\ current' = f /\ taken' = Append(taken, f)
        /\ analyzed' = analyzed \cup {f} /\ graph' = graph \cup InitdLinks(f)
    BY <2>1 DEF TakesUp
  <2>6. InitdLinks(f) \subseteq Files \X Files /\ InitdLinks(f) \subseteq Assumed BY <2>3, InitdLinksType
  <2>7. Potential(f) \subseteq Files BY DEF Potential, ByName, ByLink
  <2>8. phase' \in {"search", "found"} /\ call_chain' \in Routes \cup {<< >>}
    BY <2>1, FoundChain DEF TypeOK
  <2>9. TypeOK'
    <3>1. fw' \in Worlds /\ execve_map' = execve_map BY <2>1 DEF TypeOK
    <3>2. analyzed' \subseteq Files /\ graph' \subseteq Files \X Files BY <2>3, <2>5, <2>6 DEF TypeOK
    <3>3. callers' \subseteq Files BY <2>1, <2>7
    <3> QED BY <2>3, <2>4, <2>5, <2>8, <3>1, <3>2, <3>3 DEF TypeOK
  <2>10. LinksAreReal' /\ AnswersAreReal' BY <2>1, <2>5, <2>6, RealStep
  <2>11. ChainInGraph'
    <3>1. SimplePaths(graph') = SimplePaths(graph)' BY DEF SimplePaths, Routes
    <3> QED BY <2>1, <3>1, FoundChain DEF ChainInGraph
  <2>12. f \notin Range(taken) BY <2>3 DEF Once
  <2>13. Once' BY <2>3, <2>4, <2>5, <2>12 DEF Once
  <2>14. Marked'
    <3>1. Range(worklist) \subseteq analyzed \cup {Target}
      BY DEF Marked, Range
    <3>2. Range(taken') \subseteq analyzed' BY <2>4, <2>5 DEF Marked
    <3>3. CASE Range(worklist) \subseteq analyzed BY <2>3, <2>5, <3>2, <3>3 DEF Marked
    <3>4. CASE worklist = <<Target>>
      <4>1. f = Target /\ Range(worklist) = {Target} BY <3>4 DEF f, Last, Range
      <4> QED BY <2>3, <2>5, <3>2, <4>1 DEF Marked
    <3> QED BY <3>3, <3>4 DEF Marked
  <2>15. Counted' BY <1>2, <2>1, <2>2, <2>4, <2>5, <2>8, CountAssumption DEF Counted
  <2>16. Unstarted' BY <2>8 DEF Unstarted
  <2> QED BY <2>9, <2>10, <2>11, <2>13, <2>14, <2>15, <2>16
<1> QED BY <1>1, <1>2

LEMMA LookIInv == IInv /\ Look => IInv'
<1> SUFFICES ASSUME IInv, Look PROVE IInv' OBVIOUS
<1> USE DEF IInv
<1>1. PICK c \in callers :
        /\ execve_map' = [execve_map EXCEPT ![c] = Answer(c, current)]
        /\ callers' = callers \ {c}
        /\ IF Calling(c)
           THEN graph' = graph \cup {<<c, current>>} /\ Push(c)
           ELSE UNCHANGED <<graph, worklist, analyzed>>
        /\ IF Succeeded(graph') THEN Found(graph') ELSE UNCHANGED <<phase, call_chain>>
  BY DEF Look
<1>2. phase = "search" /\ fw' = fw /\ taken' = taken /\ current' = current BY DEF Look
<1>3. c \in Files BY DEF TypeOK
<1>4. Answer(c, current) \subseteq Callees(c) /\ Answer(c, current) \subseteq Files BY <1>3, AnswerIsReal
<1>5. ASSUME Calling(c) PROVE Calls(c, current) /\ current \in Files
  BY <1>4, <1>5 DEF Calling, Callees
<1>6. phase' \in {"search", "found"} /\ call_chain' \in Routes \cup {<< >>}
  BY <1>1, <1>2, FoundChain DEF TypeOK
<1>7. worklist \in Seq(Files) BY DEF TypeOK
<1>8. Append(worklist, c) \in Seq(Files) /\ Range(Append(worklist, c)) = Range(worklist) \cup {c}
  BY <1>3, <1>7, AppendRange
<1>9. \/ worklist' = worklist /\ analyzed' = analyzed
      \/ c \notin analyzed /\ worklist' = Append(worklist, c) /\ analyzed' = analyzed \cup {c}
  BY <1>1 DEF Push
<1>10. graph' = graph \/ (graph' = graph \cup {<<c, current>>} /\ Calls(c, current) /\ current \in Files)
  BY <1>1, <1>5
<1>11. TypeOK'
  <2>1. fw' \in Worlds /\ taken' \in Seq(Files) /\ current' \in Files \cup {NoFile} BY <1>2 DEF TypeOK
  <2>2. worklist' \in Seq(Files) /\ analyzed' \subseteq Files BY <1>3, <1>7, <1>8, <1>9 DEF TypeOK
  <2>3. graph' \subseteq Files \X Files BY <1>3, <1>10 DEF TypeOK
  <2>4. execve_map' \in [Files -> (SUBSET Files) \cup {NotAsked}] BY <1>1, <1>3, <1>4 DEF TypeOK
  <2>5. callers' \subseteq Files BY <1>1 DEF TypeOK
  <2> QED BY <1>6, <2>1, <2>2, <2>3, <2>4, <2>5 DEF TypeOK
<1>12. LinksAreReal' /\ AnswersAreReal'
  <2>1. \A e \in graph' : e \in graph \/ Calls(e[1], e[2]) BY <1>10
  <2>2. \A d \in Files : execve_map'[d] = execve_map[d] \/ execve_map'[d] \subseteq Callees(d)
    BY <1>1, <1>3, <1>4 DEF TypeOK
  <2> QED BY <1>2, <2>1, <2>2, RealStep
<1>13. ChainInGraph'
  <2>1. SimplePaths(graph') = SimplePaths(graph)' BY DEF SimplePaths, Routes
  <2> QED BY <1>1, <1>2, <2>1, FoundChain DEF ChainInGraph
<1>14. Range(worklist) \subseteq analyzed BY <1>1 DEF Marked
<1>15. Marked' BY <1>2, <1>8, <1>9, <1>14 DEF Marked
<1>16. Once'
  <2>1. CASE worklist' = worklist BY <1>2, <2>1 DEF Once
  <2>2. CASE c \notin analyzed /\ worklist' = Append(worklist, c)
    <3>1. c \notin Range(worklist) /\ c \notin Range(taken) BY <1>14, <2>2 DEF Marked
    <3>2. IsInjective(Append(worklist, c)) BY <1>3, <1>7, <3>1, AppendRange DEF Once
    <3> QED BY <1>2, <1>8, <2>2, <3>1, <3>2 DEF Once
  <2> QED BY <1>9, <2>1, <2>2
<1>17. Counted' /\ Unstarted' BY <1>2, <1>6 DEF Counted, Unstarted
<1> QED BY <1>11, <1>12, <1>13, <1>15, <1>16, <1>17

(* Steps that leave the search as it is.                                   *)
LEMMA QuietStep ==
  ASSUME IInv, UNCHANGED <<fw, worklist, analyzed, taken, graph, execve_map, current, callers, call_chain>>,
         phase' = phase \/ (phase' = "none" /\ phase = "search")
  PROVE  IInv'
<1> USE DEF IInv
<1>1. TypeOK' BY DEF TypeOK
<1>2. Marked' /\ Once' /\ Counted' /\ Unstarted' BY DEF Marked, Once, Counted, Unstarted
<1>3. LinksAreReal' /\ AnswersAreReal' BY RealStep
<1>4. ChainInGraph' BY DEF ChainInGraph, SimplePaths, Routes
<1> QED BY <1>1, <1>2, <1>3, <1>4

LEMMA StepIInv == IInv /\ [Next]_vars => IInv'
<1> SUFFICES ASSUME IInv, [Next]_vars PROVE IInv' OBVIOUS
<1>1. CASE StartSearch BY <1>1, StartIInv
<1>2. CASE Pop BY <1>2, PopIInv
<1>3. CASE GiveUp BY <1>3, QuietStep DEF GiveUp
<1>4. CASE Look BY <1>4, LookIInv
<1>5. CASE UNCHANGED vars BY <1>5, QuietStep DEF vars
<1> QED BY <1>1, <1>2, <1>3, <1>4, <1>5 DEF Next

LEMMA Invariance == Spec => []IInv
BY InitIInv, StepIInv, PTL DEF Spec

-----------------------------------------------------------------------------
(* What the search has met: the files it has taken up or is going to.      *)
Met == Range(taken) \cup Range(worklist)

Begun == phase = "none" \/ (phase = "search" /\ taken # << >>)

(* The search goes on because the init does not lead to the target yet,    *)
(* and everything it has met does.                                         *)
Searching ==
  /\ Begun => ~Succeeded(graph)
  /\ \A f \in Met : HasPath(graph, f, Target)
  /\ phase \in {"search", "none"} => Target \in Met /\ analyzed \subseteq Met /\ ~Raises
  /\ phase = "none" => worklist = << >> /\ callers = {}
  /\ taken = << >> => callers = {}

(* The assumed links are in the graph as far as they go; every other link  *)
(* ends in a file that was taken up.                                       *)
LinksAreThere ==
  /\ phase \in {"search", "none"} => EntryLinks \subseteq graph
  /\ \A f \in Range(taken) : InitdLinks(f) \subseteq graph
  /\ \A e \in graph : e \in EntryLinks \/ e[2] \in Range(taken)

(* Of a file that was taken up every possible caller was asked, or is about*)
(* to be, and is met if it calls it.                                       *)
Asked(c, f) == execve_map[c] # NotAsked /\ (f \in execve_map[c] => c \in Met)
CallersAsked ==
  /\ callers # {} => current \in Range(taken)
  /\ phase \in {"search", "none"} =>
       \A f \in Range(taken) : \A c \in Potential(f) : (f = current /\ c \in callers) \/ Asked(c, f)

SInv == Searching /\ LinksAreThere /\ CallersAsked
-----------------------------------------------------------------------------
(* Paths of a graph.                                                       *)
LEMMA PathGrows ==
  ASSUME NEW g, NEW h, g \subseteq h, NEW a, NEW b, HasPath(g, a, b)
  PROVE  HasPath(h, a, b)
BY DEF HasPath

LEMMA PathStep ==
  ASSUME NEW g, NEW a, NEW b, NEW c, <<a, b>> \in g, HasPath(g, b, c)
  PROVE  HasPath(g, a, c)
<1> SUFFICES ASSUME NEW S \in SUBSET (Files \ {c}), a \in S
             PROVE  \E e \in g : e[1] \in S /\ e[2] \notin S
  BY DEF HasPath
<1>1. CASE b \in S BY <1>1 DEF HasPath
<1>2. CASE b \notin S BY <1>2
<1> QED BY <1>1, <1>2

LEMMA NoPath == \A g, a : HasPath(g, a, a)
BY DEF HasPath

(* A path does not leave a set that no link leaves.                        *)
LEMMA PathStays ==
  ASSUME NEW g, NEW S \in SUBSET Files, \A e \in g : e[1] \in S => e[2] \in S,
         NEW a \in S, NEW b \in Files, HasPath(g, a, b)
  PROVE  b \in S
<1>1. SUFFICES ASSUME b \notin S PROVE FALSE OBVIOUS
<1>2. S \in SUBSET (Files \ {b}) BY <1>1
<1> QED BY <1>2 DEF HasPath

LEMMA InitLeads == 
  ASSUME TypeOK, HasPath(graph, Init_, Target)
  PROVE  Succeeded(graph)
<1>1. {Init_} \in SUBSET (Files \ {Target}) BY EntryAssumption
<1>2. \E e \in graph : e[1] \in {Init_} BY <1>1 DEF HasPath
<1> QED BY <1>2 DEF Succeeded, HasNode

(* Whoever leads the init to the target has made the search succeed.       *)
LEMMA EntryLeads ==
  ASSUME TypeOK, SInv, phase \in {"search", "none"}, fw.busybox \/ fw.procd # NoFile,
         NEW c \in {Init_, fw.bash, fw.procd} \ {NoFile}, HasPath(graph, c, Target)
  PROVE  HasPath(graph, Init_, Target)
<1>1. EntryLinks \subseteq graph BY DEF SInv, LinksAreThere
<1>2. Init_ # NoFile BY FirmwareType
<1>3. CASE c = Init_ BY <1>3
<1>4. CASE c = fw.procd
  <2>1. <<Init_, fw.procd>> \in graph BY <1>1, <1>2, <1>4 DEF EntryLinks, Links
  <2> QED BY <1>4, <2>1, PathStep
<1>5. CASE c = fw.bash /\ fw.busybox
  <2>1. <<Init_, fw.bash>> \in graph BY <1>1, <1>2, <1>5 DEF EntryLinks, Links
  <2> QED BY <1>5, <2>1, PathStep
<1>6. CASE c = fw.bash /\ fw.procd # NoFile
  <2>1. <<Init_, fw.procd>> \in graph /\ <<fw.procd, fw.bash>> \in graph
    BY <1>1, <1>2, <1>6 DEF EntryLinks, Links
  <2>2. HasPath(graph, fw.procd, Target) BY <1>6, <2>1, PathStep
  <2> QED BY <2>1, <2>2, PathStep
<1> QED BY <1>3, <1>4, <1>5, <1>6

(* What the graph leads to from a file that was met was met, too.          *)
LEMMA MetStays ==
  ASSUME TypeOK, SInv, Begun, NEW a \in Met, NEW b \in Files, HasPath(graph, a, b)
  PROVE  b \in Met
<1>1. Met \in SUBSET Files BY DEF Met, TypeOK, Range
<1>2. phase \in {"search", "none"} BY DEF Begun
<1>3. ASSUME NEW e \in graph, e[1] \in Met PROVE e[2] \in Met
  <2>1. CASE e[2] \in Range(taken) BY <2>1 DEF Met
  <2>2. CASE e \in EntryLinks
    <3>1. HasPath(graph, e[1], Target) BY <1>3 DEF SInv, Searching
    <3>2. CASE e = <<fw.bash, Target>> BY <1>2, <3>2 DEF SInv, Searching
    <3>3. CASE fw.busybox /\ e = <<Init_, fw.bash>>
      BY <3>1, <3>3, InitLeads DEF SInv, Searching
    <3>4. CASE e = <<Init_, fw.procd>> BY <3>1, <3>4, InitLeads DEF SInv, Searching
    <3>5. CASE e = <<fw.procd, fw.bash>> /\ fw.procd # NoFile
      <4>1. HasPath(graph, Init_, Target) BY <1>2, <3>1, <3>5, EntryLeads
      <4> QED BY <4>1, InitLeads DEF SInv, Searching
    <3> QED BY <2>2, <3>2, <3>3, <3>4, <3>5 DEF EntryLinks, Links
  <2> QED BY <2>1, <2>2 DEF SInv, LinksAreThere
<1> QED BY <1>1, <1>3, PathStays
-----------------------------------------------------------------------------
LEMMA InitSInv == Init => SInv
<1> SUFFICES ASSUME Init PROVE SInv OBVIOUS
<1>1. Met = {} /\ Range(taken) = {} BY DEF Init, Met, Range
<1> QED BY <1>1 DEF Init, SInv, Searching, LinksAreThere, CallersAsked, Begun

LEMMA StartSInv == IInv /\ SInv /\ StartSearch => SInv'
<1> SUFFICES ASSUME IInv, SInv, StartSearch PROVE SInv' OBVIOUS
<1>1. /\ phase = "entry" /\ worklist = << >> /\ taken = << >> /\ callers = {} /\ analyzed = {}
      /\ fw' = fw /\ taken' = << >> /\ callers' = {} /\ analyzed' = {}
  BY DEF IInv, Unstarted, StartSearch
<1>2. Range(taken') = {} /\ Range(taken) = {} /\ Range(worklist) = {} BY <1>1 DEF Range
<1>3. EntryLinks' = EntryLinks /\ Raises' = Raises BY <1>1 DEF EntryLinks, Links, Raises
<1>4. CASE Raises
  <2>1. phase' = "raised" /\ worklist' = worklist /\ graph' = graph BY <1>4 DEF StartSearch
  <2>2. Met' = {} BY <1>1, <1>2, <2>1 DEF Met
  <2>3. LinksAreThere' BY <1>1, <1>2, <1>3, <2>1 DEF SInv, LinksAreThere
  <2> QED BY <1>1, <1>2, <2>1, <2>2, <2>3 DEF SInv, Searching, CallersAsked, Begun
<1>5. CASE ~Raises
  <2>1. phase' = "search" /\ worklist' = <<Target>> /\ graph' = EntryLinks BY <1>5 DEF StartSearch
  <2>2. Met' = {Target} BY <1>1, <1>2, <2>1 DEF Met, Range
  <2>3. \A f \in Met' : HasPath(graph', f, Target) BY <2>2, NoPath
  <2>4. Searching' BY <1>1, <1>3, <1>5, <2>1, <2>2, <2>3 DEF Searching, Begun
  <2>5. LinksAreThere' BY <1>2, <1>3, <2>1 DEF LinksAreThere
  <2>6. CallersAsked' BY <1>1, <1>2, <2>1 DEF CallersAsked
  <2> QED BY <2>4, <2>5, <2>6 DEF SInv
<1> QED BY <1>4, <1>5

LEMMA PopSInv == IInv /\ SInv /\ Pop => SInv'
<1> SUFFICES ASSUME IInv, SInv, Pop PROVE SInv' OBVIOUS
<1>1. TypeOK /\ phase = "search" /\ callers = {} /\ worklist # << >> /\ fw' = fw /\ execve_map' = execve_map
  BY DEF IInv, Pop
<1>2. /\ EntryLinks' = EntryLinks /\ Raises' = Raises /\ \A f : InitdLinks(f)' = InitdLinks(f)
      /\ \A f : Potential(f)' = Potential(f)
  BY <1>1 DEF EntryLinks, InitdLinks, Links, Raises, Potential, ByName, ByLink
<1>3. CASE Len(taken) + 1 = Count
  <2>1. phase' = "exit" /\ UNCHANGED <<worklist, analyzed, taken, graph, current, callers, call_chain>>
    BY <1>3 DEF Pop
  <2>2. Met' = Met BY <2>1 DEF Met
  <2> QED BY <1>1, <1>2, <2>1, <2>2 DEF SInv, Searching, LinksAreThere, CallersAsked, Begun
<1>4. CASE Len(taken) + 1 # Count
  <2> DEFINE f == Last(worklist)
  <2>1. /\ TakesUp(f)
        /\ \/ phase' = "found" /\ callers' = {}
           \/ ~Succeeded(graph') /\ callers' = Potential(f) /\ phase' = "search"
    BY <1>1, <1>4 DEF Pop, Found
  <2>2. worklist \in Seq(Files) /\ taken \in Seq(Files) BY <1>1 DEF TypeOK
  <2>3. f \in Files /\ f \in Range(worklist) /\ Range(Front(worklist)) \cup {f} = Range(worklist)
    BY <1>1, <2>2, FrontRange, FrontAndLast
  <2>4. Range(Append(taken, f)) = Range(taken) \cup {f} /\ Append(taken, f) # << >> BY <2>2, <2>3, AppendRange
  <2> HIDE DEF f
  <2>5. /\ worklist' = Front(worklist) /\ current' = f /\ taken' = Append(taken, f)
        /\ analyzed' = analyzed \cup {f} /\ graph' = graph \cup InitdLinks(f)
    BY <2>1 DEF TakesUp
  <2>6. Met' = Met /\ Range(taken') = Range(taken) \cup {f} /\ f \in Met BY <2>3, <2>4, <2>5 DEF Met
  <2>7. \A g \in Met : HasPath(graph', g, Target) BY <2>5, PathGrows DEF SInv, Searching
  <2>8. Searching' BY <1>1, <1>2, <2>1, <2>4, <2>5, <2>6, <2>7 DEF SInv, Searching, Begun
  <2>9. LinksAreThere'
    <3>1. \A e \in InitdLinks(f) : e[2] = f BY DEF InitdLinks, Links
    <3> QED BY <1>1, <1>2, <2>5, <2>6, <3>1 DEF SInv, LinksAreThere
  <2>10. CallersAsked'
    <3>1. \A g \in Range(taken) : \A c \in Potential(g) : Asked(c, g)
      BY <1>1 DEF SInv, CallersAsked
    <3>2. \A c, g : Asked(c, g)' = Asked(c, g) BY <1>1, <2>6 DEF Asked
    <3> QED BY <1>1, <1>2, <2>1, <2>5, <2>6, <3>1, <3>2 DEF CallersAsked
  <2> QED BY <2>8, <2>9, <2>10 DEF SInv
<1> QED BY <1>3, <1>4

LEMMA LookSInv == IInv /\ SInv /\ Look => SInv'
<1> SUFFICES ASSUME IInv, SInv, Look PROVE SInv' OBVIOUS
<1>1. PICK c \in callers :
        /\ execve_map' = [execve_map EXCEPT ![c] = Answer(c, current)]
        /\ callers' = callers \ {c}
        /\ IF Calling(c)
           THEN graph' = graph \cup {<<c, current>>} /\ Push(c)
           ELSE UNCHANGED <<graph, worklist, analyzed>>
        /\ IF Succeeded(graph') THEN Found(graph') ELSE UNCHANGED <<phase, call_chain>>
  BY DEF Look
<1>2. TypeOK /\ phase = "search" /\ fw' = fw /\ taken' = taken /\ current' = current BY DEF IInv, Look
<1>3. c \in Files /\ current \in Range(taken) /\ taken # << >> /\ Begun
  BY <1>1, <1>2 DEF TypeOK, SInv, Searching, CallersAsked, Begun
<1>4. current \in Met /\ current \in Files BY <1>2, <1>3 DEF Met, TypeOK, Range
<1>5. /\ EntryLinks' = EntryLinks /\ Raises' = Raises /\ \A f : InitdLinks(f)' = InitdLinks(f)
      /\ \A f : Potential(f)' = Potential(f)
  BY <1>2 DEF EntryLinks, InitdLinks, Links, Raises, Potential, ByName, ByLink
<1>6. (phase' = "search" /\ ~Succeeded(graph')) \/ phase' = "found" BY <1>1, <1>2 DEF Found
<1>7. worklist \in Seq(Files) BY <1>2 DEF TypeOK
<1>8. Range(Append(worklist, c)) = Range(worklist) \cup {c} BY <1>3, <1>7, AppendRange
<1>9. analyzed \subseteq Met BY <1>2 DEF SInv, Searching
<1>10. /\ Met' = IF Calling(c) THEN Met \cup {c} ELSE Met
       /\ analyzed' \subseteq Met'
       /\ graph' = IF Calling(c) THEN graph \cup {<<c, current>>} ELSE graph
  BY <1>1, <1>2, <1>8, <1>9 DEF Push, Met
<1>11. \A f \in Met' : HasPath(graph', f, Target)
  <2>1. \A f \in Met : HasPath(graph', f, Target) BY <1>10, PathGrows DEF SInv, Searching
  <2>2. Calling(c) => HasPath(graph', c, Target) BY <1>4, <1>10, <2>1, PathStep
  <2> QED BY <1>10, <2>1, <2>2
<1>12. Searching' BY <1>2, <1>3, <1>5, <1>6, <1>10, <1>11 DEF SInv, Searching, Begun
<1>13. LinksAreThere'
  <2>1. \A e \in graph' : e \in graph \/ e[2] = current BY <1>10
  <2>2. graph \subseteq graph' BY <1>10
  <2> QED BY <1>2, <1>3, <1>5, <1>6, <2>1, <2>2 DEF SInv, LinksAreThere
<1>14. Answer(c, current) # NotAsked
  <2>1. Answer(c, current) \subseteq Files BY <1>2, <1>3, AnswerIsReal DEF IInv
  <2> QED BY <2>1, EntryAssumption DEF NotAsked
<1>15. current \in Answer(c, current) => c \in Met'
  <2>1. ASSUME ~Linkable(c) PROVE c \in Met
    <3>1. HasPath(graph, current, c) BY <2>1 DEF Linkable
    <3> QED BY <1>2, <1>3, <1>4, <3>1, MetStays
  <2> QED BY <1>10, <2>1 DEF Calling
<1>16. \A f : f = current => Asked(c, f)'
  <2>1. execve_map'[c] = Answer(c, current) BY <1>1, <1>2, <1>3 DEF TypeOK
  <2> QED BY <1>14, <1>15, <2>1 DEF Asked
<1>17. ASSUME NEW f, NEW d \in Files, Asked(d, f) PROVE Asked(d, f)'
  <2>1. execve_map'[d] = execve_map[d] BY <1>1, <1>2, <1>17 DEF TypeOK, Asked, Answer
  <2> QED BY <1>10, <1>17, <2>1 DEF Asked
<1>18. CallersAsked'
  <2>1. \A f : Potential(f) \subseteq Files BY DEF Potential, ByName, ByLink
  <2>2. ASSUME NEW f \in Range(taken), NEW d \in Potential(f)
        PROVE  (f = current /\ d \in callers') \/ Asked(d, f)'
    <3>1. (f = current /\ d \in callers) \/ Asked(d, f) BY <1>2, <2>2 DEF SInv, CallersAsked
    <3>2. d \in Files BY <2>1, <2>2
    <3>3. CASE Asked(d, f)
      <4>1. Asked(d, f)' BY <1>17, <3>2, <3>3
      <4> QED BY <4>1
    <3>4. CASE f = current /\ d \in callers
      <4>1. CASE d = c
        <5>1. Asked(c, f)' BY <1>16, <3>4
        <5> QED BY <4>1, <5>1 DEF Asked
      <4>2. CASE d # c BY <1>1, <3>4, <4>2
      <4> QED BY <4>1, <4>2
    <3> QED BY <3>1, <3>3, <3>4
  <2> QED BY <1>2, <1>3, <1>5, <2>2 DEF CallersAsked
<1> QED BY <1>12, <1>13, <1>18 DEF SInv

LEMMA QuietSInv ==
  ASSUME IInv, SInv, UNCHANGED <<fw, worklist, analyzed, taken, graph, execve_map, current, callers>>,
         phase' = phase \/ GiveUp
  PROVE  SInv'
<1>1. Met' = Met /\ EntryLinks' = EntryLinks /\ Raises' = Raises /\ \A f : InitdLinks(f)' = InitdLinks(f)
  BY DEF Met, EntryLinks, InitdLinks, Links, Raises
<1>2. (\A f : Potential(f)' = Potential(f)) /\ \A c, f : Asked(c, f)' = Asked(c, f)
  BY <1>1 DEF Potential, ByName, ByLink, Asked
<1>3. CASE phase' = phase BY <1>1, <1>2, <1>3 DEF SInv, Searching, LinksAreThere, CallersAsked, Begun
<1>4. CASE GiveUp
  <2>1. phase = "search" /\ callers = {} /\ worklist = << >> /\ phase' = "none" BY <1>4 DEF GiveUp
  <2>2. Target \in Range(taken)
    <3>1. Range(worklist) = {} BY <2>1 DEF Range
    <3> QED BY <2>1, <3>1 DEF SInv, Searching, Met
  <2>3. Begun BY <2>1, <2>2 DEF Begun, Range
  <2> QED BY <1>1, <1>2, <2>1, <2>3 DEF SInv, Searching, LinksAreThere, CallersAsked, Begun
<1> QED BY <1>3, <1>4

LEMMA StepSInv == IInv /\ SInv /\ [Next]_vars => SInv'
<1> SUFFICES ASSUME IInv, SInv, [Next]_vars PROVE SInv' OBVIOUS
<1>1. CASE StartSearch BY <1>1, StartSInv
<1>2. CASE Pop BY <1>2, PopSInv
<1>3. CASE GiveUp BY <1>3, QuietSInv DEF GiveUp
<1>4. CASE Look BY <1>4, LookSInv
<1>5. CASE UNCHANGED vars BY <1>5, QuietSInv DEF vars
<1> QED BY <1>1, <1>2, <1>3, <1>4, <1>5 DEF Next

LEMMA SearchInvariance == Spec => [](IInv /\ SInv)
BY InitIInv, StepIInv, InitSInv, StepSInv, PTL DEF Spec
-----------------------------------------------------------------------------
(* A set of numbers has a least one.                                       *)
LEMMA Least ==
  ASSUME NEW T \in SUBSET Nat, T # {}
  PROVE  \E n \in T : \A m \in T : n <= m
<1> DEFINE F == {0 .. m : m \in T}
<1>1. IsWellFoundedOn(StrictSubsetOrdering(Nat), FiniteSubsetsOf(Nat)) BY FS_StrictSubsetOrderingWellFounded
<1>2. F \subseteq FiniteSubsetsOf(Nat) /\ F # {}
  <2>1. \A m \in T : 0 .. m \in SUBSET Nat /\ IsFiniteSet(0 .. m) BY FS_Interval
  <2> QED BY <2>1 DEF FiniteSubsetsOf
<1>3. \E x \in F : \A y \in F : <<y, x>> \notin StrictSubsetOrdering(Nat)
  <2> HIDE DEF F
  <2> QED BY <1>1, <1>2, WFMin
<1>4. PICK n \in T : \A m \in T : <<0 .. m, 0 .. n>> \notin StrictSubsetOrdering(Nat) BY <1>3
<1>5. \A m \in T : m < n => <<0 .. m, 0 .. n>> \in StrictSubsetOrdering(Nat)
  <2> SUFFICES ASSUME NEW m \in T, m < n PROVE <<0 .. m, 0 .. n>> \in StrictSubsetOrdering(Nat) OBVIOUS
  <2>1. 0 .. m \subseteq 0 .. n /\ n \in 0 .. n /\ n \notin 0 .. m /\ 0 .. n \subseteq Nat OBVIOUS
  <2> QED BY <2>1 DEF StrictSubsetOrdering
<1>6. \A m \in T : m \in Nat /\ n \in Nat OBVIOUS
<1>7. \A m \in T : ~(m < n) BY <1>4, <1>5
<1>8. \A m \in T : n <= m BY <1>6, <1>7
<1> QED BY <1>8

(* When the search has given up, a link of a route that is neither missing *)
(* nor hidden leads back from a file that was met to another.              *)
LEMMA LinkBack ==
  ASSUME IInv, SInv, phase = "none", NEW c \in Files, NEW f \in Met,
         <<c, f>> \in Intended \/ (Calls(c, f) /\ ~Hidden(c, f))
  PROVE  c \in Met
<1>1. TypeOK /\ ~HasPath(graph, Init_, Target)
  BY InitLeads DEF IInv, SInv, Searching, Begun
<1>2. f \in Range(taken)
  <2>1. Range(worklist) = {} BY DEF SInv, Searching, Range
  <2> QED BY <2>1 DEF Met
<1>3. CASE <<c, f>> \in Intended
  <2>1. (fw.busybox \/ fw.procd # NoFile) /\ <<c, f>> \in Assumed BY <1>3 DEF Intended
  <2>2. <<c, f>> \in EntryLinks \/ <<c, f>> \in InitdLinks(f)
    <3>1. \A g : \A e \in InitdLinks(g) : e[2] = g BY DEF InitdLinks, Links
    <3>2. ASSUME NEW g \in Files, <<c, f>> \in InitdLinks(g) PROVE f = g BY <3>1, <3>2
    <3> QED BY <2>1, <3>2 DEF Assumed
  <2>3. <<c, f>> \in graph BY <1>2, <2>2 DEF SInv, LinksAreThere
  <2>4. c \in {Init_, fw.bash, fw.procd} \ {NoFile}
    BY <1>1, <2>2, FirmwareType DEF EntryLinks, InitdLinks, Links
  <2>5. HasPath(graph, f, Target) BY DEF SInv, Searching
  <2>6. HasPath(graph, c, Target) BY <2>3, <2>5, PathStep
  <2> QED BY <1>1, <2>1, <2>4, <2>6, EntryLeads
<1>4. CASE Calls(c, f) /\ ~Hidden(c, f)
  <2>1. c \in Potential(f) /\ (execve_map[c] = NotAsked \/ f \in execve_map[c]) BY <1>4 DEF Hidden
  <2>2. Asked(c, f) BY <1>2, <2>1 DEF SInv, Searching, CallersAsked
  <2> QED BY <2>1, <2>2 DEF Asked
<1> QED BY <1>3, <1>4

-----------------------------------------------------------------------------
(* The types hold for any firmware.                                        *)
THEOREM Typed == Spec => []TypeOK
<1>1. IInv => TypeOK BY DEF IInv
<1> QED BY <1>1, Invariance, PTL

(* run answers with a chain from the init to the target in which every     *)
(* file does start the next one or is assumed to, whatever answers of      *)
(* Ghidra were kept and in whatever order the callers were asked.          *)
THEOREM ChainRight == Spec => []ChainIsReal
<1>1. IInv => ChainIsReal
  <2> SUFFICES ASSUME IInv, phase = "found"
               PROVE  call_chain # << >> /\ \A i \in 1 .. Len(call_chain) - 1 :
                        <<call_chain[i], call_chain[i + 1]>> \in Assumed \/ Calls(call_chain[i], call_chain[i + 1])
    BY DEF ChainIsReal
  <2>1. call_chain \in SimplePaths(graph) BY DEF IInv, ChainInGraph
  <2>2. Len(call_chain) > 1 BY <2>1 DEF SimplePaths, Routes
  <2>3. \A i \in 1 .. Len(call_chain) - 1 : <<call_chain[i], call_chain[i + 1]>> \in graph
    BY <2>1 DEF SimplePaths
  <2>4. call_chain # << >> BY <2>2
  <2>5. \A e \in graph : e \in Assumed \/ Calls(e[1], e[2]) BY DEF IInv, LinksAreReal
  <2> QED BY <2>3, <2>4, <2>5
<1> QED BY <1>1, Invariance, PTL

(* No file is taken up twice, whatever cycles the calls have, so that the  *)
(* counter ends only a search through Count - 1 different files.           *)
THEOREM TakenOnce == Spec => []NoneTakenTwice
<1>1. IInv => NoneTakenTwice
  <2> SUFFICES ASSUME IInv PROVE NoneTakenTwice OBVIOUS
  <2>1. taken \in Seq(Files) /\ IsInjective(taken) BY DEF IInv, TypeOK, Once
  <2>2. Cardinality(Range(taken)) = Len(taken) BY <2>1, PlacesCounted
  <2>3. phase = "exit" => Cardinality(Range(taken)) = Count - 1
    BY <2>1, <2>2, CountAssumption DEF IInv, Counted
  <2> QED BY <2>3 DEF IInv, Once, NoneTakenTwice
<1> QED BY <1>1, Invariance, PTL
(* run gives up only if every route from the init to the target has a link *)
(* that no caller makes, that no string or kept answer shows, or that is   *)
(* assumed in vain: the order in which files are taken up, the links that  *)
(* are refused because they would close a circle, and the marks on files   *)
(* that wait lose nothing.                                                 *)
THEOREM NothingLost == Spec => []FoundUnlessHidden
<1>1. IInv /\ SInv => FoundUnlessHidden
  <2> SUFFICES ASSUME IInv, SInv, phase = "none", NEW p \in Routes,
                      \A i \in 1 .. Len(p) - 1 :
                        <<p[i], p[i + 1]>> \in Intended \/ (Calls(p[i], p[i + 1]) /\ ~Hidden(p[i], p[i + 1]))
               PROVE  FALSE
    BY DEF FoundUnlessHidden
  <2> DEFINE n == Len(p)
             T == {j \in Nat : j < n /\ p[n - j] \notin Met}
  <2>1. n \in Nat /\ n > 1 /\ p[1] = Init_ /\ p[n] = Target /\ \A i \in 1 .. n : p[i] \in Files
    BY RouteType
  <2>2. Target \in Met BY DEF SInv, Searching
  <2>3. T = {}
    <3>1. SUFFICES ASSUME T # {} PROVE FALSE OBVIOUS
    <3>2. PICK j \in T : \A m \in T : j <= m
      <4> HIDE DEF T
      <4>1. T \in SUBSET Nat BY DEF T
      <4> QED BY <3>1, <4>1, Least
    <3>3. j \in Nat /\ j < n /\ p[n - j] \notin Met OBVIOUS
    <3>4. j # 0 BY <2>1, <2>2, <3>3
    <3>5. j - 1 \in Nat /\ j - 1 < n /\ ~(j <= j - 1) BY <2>1, <3>3, <3>4
    <3>6. p[n - (j - 1)] \in Met BY <3>2, <3>5
    <3>7. n - j \in 1 .. n - 1 /\ (n - j) + 1 = n - (j - 1) BY <2>1, <3>3, <3>4
    <3>8. p[n - j] \in Files BY <2>1, <3>7
    <3>9. p[(n - j) + 1] \in Met BY <3>6, <3>7
    <3> QED BY <3>3, <3>7, <3>8, <3>9, LinkBack
  <2>4. n - 1 \in Nat /\ n - 1 < n /\ n - (n - 1) = 1 BY <2>1
  <2>5. Init_ \in Met BY <2>1, <2>3, <2>4
  <2>6. HasPath(graph, Init_, Target) BY <2>5 DEF SInv, Searching
  <2> QED BY <2>6, InitLeads DEF IInv, SInv, Searching, Begun
<1> QED BY <1>1, SearchInvariance, PTL
=============================================================================
