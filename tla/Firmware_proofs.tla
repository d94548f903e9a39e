--------------------------- MODULE Firmware_proofs ---------------------------
(***************************************************************************)
(* What is proved of the modules that change the firmware or follow it:    *)
(* Preparation, Greenhouse, Processes and Network.  Each has names of its  *)
(* own, so that one module can extend them all; no theorem is about two of *)
(* them.                                                                   *)
(***************************************************************************)
EXTENDS Preparation, Greenhouse, Processes, Network, FiniteSetTheorems, SequenceTheorems, WellFoundedInduction, TLAPS
-----------------------------------------------------------------------------
(* A set of numbers has a least one, a finite one a greatest.              *)
LEMMA Least ==
  ASSUME NEW T \in SUBSET Nat, T # {}
  PROVE  \E n \in T : \A m \in T : n <= m
<1> DEFINE F == {0 .. m : m \in T}
<1>1. IsWellFoundedOn(StrictSubsetOrdering(Nat), FiniteSubsetsOf(Nat)) BY FS_StrictSubsetOrderingWellFounded
<1>2. F \subseteq FiniteSubsetsOf(Nat) /\ F # {}
  <2>1. \A m \in T : 0 .. m \in SUBSET Nat /\ IsFiniteSet(0 .. m) BY FS_Interval
  <2> QED BY <2>1 DEF FiniteSubsetsOf
<1>3. \E x \in F : \A y \in F : <<y, x>> \notin StrictSubsetOrdering(Nat)
  <2> HIDE DEF F
  <2> QED BY <1>1, <1>2, WFMin
<1>4. PICK n \in T : \A m \in T : <<0 .. m, 0 .. n>> \notin StrictSubsetOrdering(Nat) BY <1>3
<1>5. \A m \in T : m < n => <<0 .. m, 0 .. n>> \in StrictSubsetOrdering(Nat)
  <2> SUFFICES ASSUME NEW m \in T, m < n PROVE <<0 .. m, 0 .. n>> \in StrictSubsetOrdering(Nat) OBVIOUS
  <2>1. 0 .. m \subseteq 0 .. n /\ n \in 0 .. n /\ n \notin 0 .. m /\ 0 .. n \subseteq Nat OBVIOUS
  <2> QED BY <2>1 DEF StrictSubsetOrdering
<1>6. \A m \in T : m \in Nat /\ n \in Nat OBVIOUS
<1>7. \A m \in T : ~(m < n) BY <1>4, <1>5
<1>8. \A m \in T : n <= m BY <1>6, <1>7
<1> QED BY <1>8

LEMMA Greatest ==
  ASSUME NEW S \in SUBSET Nat, IsFiniteSet(S), S # {}
  PROVE  \E n \in S : \A m \in S : n >= m
<1> DEFINE Above(n) == {m \in S : m > n}
           F == {Above(n) : n \in S}
<1>1. IsWellFoundedOn(StrictSubsetOrdering(Nat), FiniteSubsetsOf(Nat)) BY FS_StrictSubsetOrderingWellFounded
<1>2. F \subseteq FiniteSubsetsOf(Nat) /\ F # {}
  <2>1. \A n \in S : Above(n) \in SUBSET Nat /\ IsFiniteSet(Above(n)) BY FS_Subset
  <2> QED BY <2>1 DEF FiniteSubsetsOf
<1>3. \E x \in F : \A y \in F : <<y, x>> \notin StrictSubsetOrdering(Nat)
  <2> HIDE DEF F
  <2> QED BY <1>1, <1>2, WFMin
<1>4. PICK n \in S : \A m \in S : <<Above(m), Above(n)>> \notin StrictSubsetOrdering(Nat) BY <1>3
<1>5. \A m \in S : m > n => <<Above(m), Above(n)>> \in StrictSubsetOrdering(Nat)
  <2> SUFFICES ASSUME NEW m \in S, m > n PROVE <<Above(m), Above(n)>> \in StrictSubsetOrdering(Nat) OBVIOUS
  <2>1. m \in Nat /\ n \in Nat /\ m > n /\ \A l \in S : l \in Nat OBVIOUS
  <2>2. \A l \in S : l > m => l > n BY <2>1
  <2>3. Above(m) \subseteq Above(n) /\ Above(n) \subseteq Nat BY <2>1, <2>2
  <2>4. m \in Above(n) /\ m \notin Above(m) BY <2>1
  <2> QED BY <2>3, <2>4 DEF StrictSubsetOrdering
<1>6. \A m \in S : m \in Nat /\ n \in Nat OBVIOUS
<1>7. \A m \in S : ~(m > n) BY <1>4, <1>5
<1>8. \A m \in S : n >= m BY <1>6, <1>7
<1> QED BY <1>8
-----------------------------------------------------------------------------
(* Preparation.                                                            *)

AfterScripts == {"ready"}
AfterBusy == {"scripts"} \cup AfterScripts
AfterEntry == {"preprocess", "busy"} \cup AfterBusy
AfterReboots == {"libraries", "defaults", "identify", "entry"} \cup AfterEntry
AfterSetup == {"reboots"} \cup AfterReboots
AfterClean == {"setup"} \cup AfterSetup
AfterChoice == {"clean"} \cup AfterClean
Unread == {"clean", "setup", "reboots", "libraries", "defaults", "identify"}
Stopped == {"exit0", "exit1"}

Dummies == \A f \in Files : fs[f] = "dummy" => f.name \in Aims \ {"inittab"}
Kinds ==
  /\ IsFiniteSet(Files) /\ \A f \in Files : f.kind \in Kind
  /\ pc \in {"unpack", "fact", "binwalk"} => fs = << >>
  /\ pc = "choose" => \A f \in Files : fs[f] = "original"
  /\ pc \in Unread => \A f \in Files : fs[f] # "edited"
Suits(f, m) == f.kind = "link" \/ m = IF f.kind = "pie" THEN "elf" ELSE f.kind
Kept ==
  pc \in AfterChoice =>
    /\ target \in Candidates
    /\ service # "DHCP" /\ target.dir \notin Anew =>
         fs[target] = "original" \/ (target.kind = "special" /\ pc \notin AfterSetup)
    /\ pc \in AfterSetup => machine \in {"elf", "bare"} /\ Suits(target, machine)
Best == pc \in AfterChoice \ AfterEntry => target.kind \in Native \/ \A f \in Runnable : InTheWay(f)
Stilled ==
  \A f \in Files : Standing(f) /\ ~ OutOfReach(f) =>
    /\ pc \in AfterClean => f.kind # "special"
    /\ pc \in AfterReboots => f.name \notin Rebooting \cup ShuttingDown
    /\ pc \in AfterBusy => f.name \notin Busy(service)
PrepInv == TypeOK /\ Kinds /\ Dummies /\ Kept /\ Best /\ Stilled /\ GivenUpForCause /\ StartFound

LEMMA SameFiles ==
  ASSUME Files' = Files, given' = given
  PROVE  /\ Candidates' = Candidates /\ Runnable' = Runnable /\ service' = service
         /\ \A f : (OutOfReach(f)' <=> OutOfReach(f)) /\ (InTheWay(f)' <=> InTheWay(f))
<1>1. service' = service BY DEF service
<1>2. Dropped' = Dropped BY <1>1 DEF Dropped
<1>3. Candidates' = Candidates BY <1>1, <1>2 DEF Candidates
<1>4. Runnable' = Runnable BY <1>1 DEF Runnable
<1>5. \A f : OutOfReach(f)' <=> OutOfReach(f) BY DEF OutOfReach
<1>6. \A f : InTheWay(f)' <=> InTheWay(f) BY <1>3 DEF InTheWay
<1> QED BY <1>1, <1>3, <1>4, <1>5, <1>6

(* A pass over the files that leaves the target alone.                     *)
Order == {<<"clean", "setup">>, <<"reboots", "libraries">>, <<"libraries", "defaults">>, <<"defaults", "identify">>,
          <<"identify", "entry">>, <<"entry", "preprocess">>, <<"preprocess", "busy">>, <<"busy", "scripts">>,
          <<"scripts", "ready">>}
Passes == \E o \in Order : pc = o[1] /\ pc' = o[2]
LEMMA PassKeeps ==
  ASSUME PrepInv, Passes, Files' = Files, UNCHANGED <<given, target, machine>>,
         service # "DHCP" => fs'[target] = fs[target] \/ (target.kind = "special" /\ pc = "clean"),
         \A f \in Files : Standing(f)' => Standing(f),
         \A f \in Files : fs'[f] = "dummy" => fs[f] = "dummy" \/ f.name \in Aims \ {"inittab"},
         pc \in Unread \ {"identify"} => \A f \in Files : fs'[f] = "edited" => fs[f] = "edited",
         \A f \in Files : Standing(f)' /\ ~ OutOfReach(f) =>
           /\ pc = "clean" => f.kind # "special"
           /\ pc = "reboots" => f.name \notin Rebooting \cup ShuttingDown
           /\ pc = "busy" => f.name \notin Busy(service)
  PROVE  Kinds' /\ Dummies' /\ Kept' /\ Best' /\ Stilled' /\ GivenUpForCause' /\ (pc' # "entry" => StartFound')
<1>1. /\ Candidates' = Candidates /\ Runnable' = Runnable /\ service' = service
      /\ \A f : (OutOfReach(f)' <=> OutOfReach(f)) /\ (InTheWay(f)' <=> InTheWay(f))
  BY SameFiles
<1> USE DEF Passes, Order, AfterChoice, AfterClean, AfterSetup, AfterReboots, AfterEntry, AfterBusy, AfterScripts
<1>2. pc \in AfterChoice /\ pc' \in AfterChoice OBVIOUS
<1>3. Kinds'
  <2>1. pc' \in Unread => pc \in Unread \ {"identify"} BY DEF Unread
  <2> QED BY <2>1 DEF PrepInv, Kinds
<1>4. Dummies' BY DEF PrepInv, Dummies
<1>5. Kept'
  <2>1. target \in Candidates BY <1>2 DEF PrepInv, Kept
  <2>2. pc' \in AfterSetup => pc \in AfterSetup OBVIOUS
  <2>3. pc \in AfterSetup => machine \in {"elf", "bare"} /\ Suits(target, machine) BY <1>2 DEF PrepInv, Kept
  <2>4. service # "DHCP" /\ target.dir \notin Anew =>
          fs[target] = "original" \/ (target.kind = "special" /\ pc \notin AfterSetup)
    BY <1>2 DEF PrepInv, Kept
  <2>5. service # "DHCP" /\ target.dir \notin Anew =>
          fs'[target] = "original" \/ (target.kind = "special" /\ pc' \notin AfterSetup)
    BY <2>3, <2>4 DEF Suits
  <2> QED BY <1>1, <2>1, <2>2, <2>3, <2>5 DEF Kept
<1>6. Best'
  <2>1. pc' \in AfterChoice \ AfterEntry => pc \in AfterChoice \ AfterEntry OBVIOUS
  <2> QED BY <1>1, <2>1 DEF PrepInv, Best
<1>7. Stilled'
  <2> SUFFICES ASSUME NEW f \in Files, Standing(f)', ~ OutOfReach(f)
               PROVE  /\ pc' \in AfterClean => f.kind # "special"
                      /\ pc' \in AfterReboots => f.name \notin Rebooting \cup ShuttingDown
                      /\ pc' \in AfterBusy => f.name \notin Busy(service)
    BY <1>1 DEF Stilled
  <2>1. Standing(f) OBVIOUS
  <2>2. /\ pc \in AfterClean => f.kind # "special"
        /\ pc \in AfterReboots => f.name \notin Rebooting \cup ShuttingDown
        /\ pc \in AfterBusy => f.name \notin Busy(service)
    BY <2>1 DEF PrepInv, Stilled
  <2> QED BY <2>2
<1>8. GivenUpForCause' BY DEF GivenUpForCause
<1>9. pc' # "entry" => StartFound' BY DEF StartFound
<1> QED BY <1>3, <1>4, <1>5, <1>6, <1>7, <1>8, <1>9

LEMMA Touches ==
  ASSUME TypeOK, NEW touched, NEW next, Becomes(touched, next), DOMAIN touched \subseteq Files,
         \A f \in DOMAIN touched : touched[f] \in {"edited", "dummy", "renamed", "gone"},
         \A f \in DOMAIN touched : touched[f] = "edited" => fs[f] = "original"
  PROVE  /\ Files' = Files /\ UNCHANGED <<given, outside, target, start, machine, broken>> /\ pc' = next
         /\ fs' \in [Files -> {"original", "edited", "dummy", "renamed", "gone"}]
         /\ \A f \in Files : fs'[f] = IF f \in DOMAIN touched THEN touched[f] ELSE fs[f]
         /\ \A f \in Files : Standing(f)' => Standing(f)
         /\ (\A f \in DOMAIN touched : touched[f] # "edited") => \A f \in Files : fs'[f] = "edited" => fs[f] = "edited"
<1>1. fs' = [f \in Files |-> IF f \in DOMAIN touched THEN touched[f] ELSE fs[f]] BY DEF Becomes
<1>2. Files' = Files BY <1>1 DEF Files
<1>3. \A f \in Files : fs'[f] = IF f \in DOMAIN touched THEN touched[f] ELSE fs[f] BY <1>1
<1>4. fs \in [Files -> {"original", "edited", "dummy", "renamed", "gone"}] BY DEF TypeOK
<1>5. \A f \in Files : Standing(f)' => Standing(f) BY <1>3 DEF Standing
<1>6. fs' \in [Files -> {"original", "edited", "dummy", "renamed", "gone"}] BY <1>1, <1>4
<1>7. (\A f \in DOMAIN touched : touched[f] # "edited") => \A f \in Files : fs'[f] = "edited" => fs[f] = "edited"
  BY <1>3
<1> QED BY <1>2, <1>3, <1>5, <1>6, <1>7 DEF Becomes

(* What the answer of EntryPoint owes to the files that are there.         *)
StartRight(files, tab, answer_) ==
  LET init == SbinInit(files)
      runs == init.kind \in Executable \cup Link
      rcS == At(files, {"etc/init.d"}, "rcS")
  IN  /\ runs => InitCommand(answer_) # Nothing
      /\ At(files, {"sbin"}, "rc") # {} /\ SbinRc(files).kind \notin Link => answer_ # NoStart
      /\ runs /\ ParsesInittab(files) /\ tab.kind = "sysinit" /\ rcS # {} => answer_.args /\ answer_.bash \in rcS

LEMMA NothingIsNoFile ==
  ASSUME NEW f, f.kind \in Kind PROVE f # Nothing
<1>1. Nothing.kind = "none" BY DEF Nothing
<1>2. "none" \notin Kind BY DEF Kind, Program, Link, Inittab
<1> QED BY <1>1, <1>2

LEMMA IdentifiedRight ==
  ASSUME NEW files, \A f \in files : f.kind \in Kind, NEW tab
  PROVE  StartRight(files, tab, Identified(files, tab))
<1> DEFINE init == SbinInit(files)
           rc == SbinRc(files)
           plain == PlainStart(files, tab)
           answer_ == Identified(files, tab)
           sysinit == Sysinit(files, tab)
           bash == BusyboxBash(files, tab)
           rcS == At(files, {"etc/init.d"}, "rcS")
           named == ParsesInittab(files) /\ tab.kind = "sysinit" /\ rcS # {}
<1>1. NoStart = [binary |-> Nothing, bash |-> Nothing, args |-> FALSE, forRc |-> Nothing] BY DEF NoStart, Start
<1>2. named => sysinit \in rcS
  BY DEF Sysinit, OrNothing
<1>3. named => sysinit # Nothing
  <2>1. \A f \in rcS : f \in files BY DEF At
  <2> QED BY <1>2, <2>1, NothingIsNoFile
<1>4. At(files, {"sbin"}, "rc") # {} => rc # Nothing
  <2> SUFFICES ASSUME At(files, {"sbin"}, "rc") # {} PROVE rc # Nothing OBVIOUS
  <2> DEFINE S == At(files, {"sbin", "usr/sbin"}, "rc")
             place(f) == IF f.dir = "usr/sbin" THEN 1 ELSE 2
  <2>1. S # {} BY DEF At
  <2>2. \E f \in S : \A o \in S : place(f) <= place(o)
    <3>1. CASE \E f \in S : f.dir = "usr/sbin" BY <3>1
    <3>2. CASE \A f \in S : f.dir # "usr/sbin" BY <2>1, <3>2
    <3> QED BY <3>1, <3>2
  <2>3. rc \in S BY <2>1, <2>2 DEF SbinRc, FirstOf
  <2>4. rc \in files BY <2>3 DEF At
  <2> QED BY <2>4, NothingIsNoFile
<1>5. init.kind \in Executable \cup Link \cup {"tobusybox"} => init # Nothing
  <2>1. Nothing.kind = "none" BY DEF Nothing
  <2>2. "none" \notin Executable \cup Link \cup {"tobusybox"} BY DEF Executable, Program, Link
  <2> HIDE DEF init
  <2> QED BY <2>1, <2>2
<1>6. CASE init.kind = "tobusybox" /\ bash # Nothing
  <2>1. answer_ = Start(init, bash, sysinit # Nothing, Nothing) BY <1>6 DEF Identified
  <2>2. sysinit # Nothing => bash = sysinit BY DEF BusyboxBash
  <2>3. init # Nothing BY <1>5, <1>6
  <2>4. answer_.binary = init /\ answer_.forRc = Nothing /\ answer_.bash = bash /\ answer_.args = (sysinit # Nothing)
    BY <2>1 DEF Start
  <2>5. answer_ # NoStart BY <1>1, <2>3, <2>4
  <2> QED BY <1>2, <1>3, <2>2, <2>3, <2>4, <2>5 DEF StartRight, InitCommand
<1>12. named /\ init.kind = "tobusybox" => bash # Nothing BY <1>3 DEF BusyboxBash
<1>13. named /\ init.kind # "tobusybox" => init # Nothing /\ init.kind \notin Link /\ ~ HasProcd(files)
  BY DEF ParsesInittab
<1>7. CASE ~ (init.kind = "tobusybox" /\ bash # Nothing) /\ init # Nothing /\ HasProcd(files)
  <2>1. answer_ = Start(init, OrNothing(At(files, {"etc/init.d"}, "rcS")), FALSE, Nothing) BY <1>7 DEF Identified
  <2>2. answer_.binary = init /\ answer_.forRc = Nothing /\ answer_.args = FALSE BY <2>1 DEF Start
  <2>3. answer_ # NoStart BY <1>1, <1>7, <2>2
  <2> QED BY <1>7, <1>12, <1>13, <2>2, <2>3 DEF StartRight, InitCommand
<1> DEFINE early == (init.kind = "tobusybox" /\ bash # Nothing) \/ (init # Nothing /\ HasProcd(files))
<1>8. CASE ~ early /\ init # Nothing /\ init.kind \notin Link /\ plain # NoStart
  <2>1. answer_ = plain BY <1>8 DEF Identified
  <2>2. answer_.binary = (IF init.kind \in Executable THEN init ELSE Nothing) /\ answer_.forRc = Nothing
        /\ answer_.args = (sysinit # Nothing)
        /\ answer_.bash = (IF init.kind \notin Executable /\ Profile(files) # Nothing THEN Profile(files) ELSE sysinit)
    BY <2>1 DEF PlainStart, Start
  <2>3. init.kind \in Executable \cup Link => InitCommand(answer_) # Nothing BY <1>8, <2>2 DEF InitCommand
  <2>4. named /\ init.kind \in Executable \cup Link => answer_.args /\ answer_.bash \in rcS
    BY <1>2, <1>3, <1>8, <2>2
  <2> QED BY <1>8, <2>1, <2>3, <2>4 DEF StartRight
<1> DEFINE middle == early \/ (init # Nothing /\ init.kind \notin Link /\ plain # NoStart)
<1>9. ~ middle /\ init.kind \in Executable \cup Link => init.kind \in Link
  <2> SUFFICES ASSUME ~ middle, init.kind \in Executable, init.kind \notin Link PROVE FALSE OBVIOUS
  <2>1. init # Nothing BY <1>5
  <2>2. plain.binary = init BY DEF PlainStart, Start
  <2>3. plain # NoStart BY <1>1, <2>1, <2>2
  <2> QED BY <2>1, <2>3
<1>14. ~ middle /\ init.kind \in Executable \cup Link => ~ named BY <1>9, <1>12, <1>13
<1>10. CASE ~ middle /\ rc # Nothing /\ rc.kind \notin Link
  <2>1. answer_ = RcStart(files) BY <1>10 DEF Identified
  <2>2. answer_.binary = rc /\ answer_.args = FALSE BY <2>1 DEF RcStart, Start, FirstOf
  <2>3. InitCommand(answer_) # Nothing /\ answer_ # NoStart BY <1>1, <1>10, <2>2 DEF InitCommand
  <2> QED BY <1>14, <1>10, <2>2, <2>3 DEF StartRight
<1>11. CASE ~ middle /\ ~ (rc # Nothing /\ rc.kind \notin Link)
  <2>1. answer_ = Linked(init) BY <1>11 DEF Identified
  <2>2. CASE init.kind \in Link
    <3>1. answer_.binary = init /\ answer_.forRc = Nothing /\ answer_.args = FALSE BY <2>1, <2>2 DEF Linked, Start
    <3>2. init # Nothing BY <1>5, <2>2
    <3> QED BY <1>4, <1>11, <1>14, <3>1, <3>2 DEF StartRight, InitCommand
  <2>3. CASE init.kind \notin Link
    <3>1. answer_ = NoStart BY <2>1, <2>3 DEF Linked
    <3>2. answer_.args = FALSE BY <1>1, <3>1
    <3> QED BY <1>4, <1>9, <1>11, <1>14, <2>3, <3>2 DEF StartRight
  <2> QED BY <2>2, <2>3
<1> QED BY <1>6, <1>7, <1>8, <1>10, <1>11

LEMMA TargetIsServer ==
  ASSUME TypeOK, Kept, pc \in AfterChoice
  PROVE  /\ target \in Files /\ target.name \in Names(service)
         /\ service # "DHCP" => target.name \notin Aims /\ target.name \notin Busy(service)
         /\ pc \in AfterSetup => target.kind \in Program \cup {"link"}
<1>1. target \in Candidates BY DEF Kept
<1>2. target \in Files /\ target.name \in Names(service) BY <1>1 DEF Candidates, Named
<1>3. service \in Service BY CasesAssumption DEF TypeOK, service
<1>4. service # "DHCP" => Names(service) \cap (Aims \cup Busy(service)) = {} BY <1>3, ServersAssumption
<1>5. pc \in AfterSetup => target.kind \in Program \cup {"link"} BY DEF Kept, Suits, Program
<1> QED BY <1>2, <1>4, <1>5

(* An exception or a step that says False, in a firmware whose files stay. *)
LEMMA Stays ==
  ASSUME PrepInv, UNCHANGED <<fs, given, outside, target, start, machine>>, broken' \in BOOLEAN,
         pc' \in Stopped \cup {"fact", "binwalk"}, pc' \notin Stopped => fs = << >>,
         pc' \in Stopped => broken' \/ given.only \/ Unexpected' \/ \A f \in Runnable : InTheWay(f)
  PROVE  PrepInv'
<1>1. Files' = Files BY DEF Files
<1>2. /\ Candidates' = Candidates /\ Runnable' = Runnable /\ service' = service
      /\ \A f : (OutOfReach(f)' <=> OutOfReach(f)) /\ (InTheWay(f)' <=> InTheWay(f))
  BY <1>1, SameFiles
<1> USE DEF Stopped, AfterChoice, AfterClean, AfterSetup, AfterReboots, AfterEntry, AfterBusy, AfterScripts
<1>3. TypeOK' BY <1>1 DEF PrepInv, TypeOK
<1>4. Kinds' /\ Dummies'
  <2>1. pc' \notin Unread /\ pc' # "choose" BY DEF Unread
  <2>2. Kinds' BY <1>1, <2>1 DEF PrepInv, Kinds
  <2> QED BY <1>1, <2>2 DEF PrepInv, Dummies
<1>5. Kept' /\ Best' /\ StartFound' BY DEF Kept, Best, StartFound
<1>6. Stilled' BY DEF Stilled
<1>7. GivenUpForCause' BY <1>2 DEF GivenUpForCause
<1> QED BY <1>3, <1>4, <1>5, <1>6, <1>7 DEF PrepInv

LEMMA CleanKeeps ==
  ASSUME PrepInv, Clean PROVE PrepInv'
<1>1. PICK met \in SUBSET ToClean :
        /\ Named(Files, {"netconf"}) = {} => met = ToClean
        /\ Becomes([f \in met |-> Cleaned(f)], "setup")
  BY DEF Clean
<1> DEFINE touched == [f \in met |-> Cleaned(f)]
<1>2. DOMAIN touched \subseteq Files /\ \A f \in DOMAIN touched : touched[f] \in {"renamed", "gone"}
  BY DEF ToClean, Cleaned
<1>3. DOMAIN touched = met /\ Becomes(touched, "setup") BY <1>1
<1> HIDE DEF touched
<1>4. /\ Files' = Files /\ UNCHANGED <<given, outside, target, start, machine, broken>> /\ pc' = "setup"
      /\ fs' \in [Files -> {"original", "edited", "dummy", "renamed", "gone"}]
      /\ \A f \in Files : fs'[f] = IF f \in DOMAIN touched THEN touched[f] ELSE fs[f]
      /\ \A f \in Files : Standing(f)' => Standing(f)
  <2>1. \A f \in DOMAIN touched : touched[f] \in {"edited", "dummy", "renamed", "gone"} BY <1>2
  <2>2. \A f \in DOMAIN touched : touched[f] = "edited" => fs[f] = "original" BY <1>2
  <2> QED BY <1>2, <1>3, <2>1, <2>2, Touches DEF PrepInv
<1>5. pc = "clean" BY DEF Clean
<1>6. service # "DHCP" => fs'[target] = fs[target] \/ (target.kind = "special" /\ pc = "clean")
  <2>1. target \in Files /\ (service # "DHCP" => target.name \notin Aims)
    BY <1>5, TargetIsServer DEF PrepInv, AfterChoice
  <2>2. target \in met => target.kind = "special" \/ target.name \in Aims BY DEF ToClean, Aims
  <2> QED BY <1>3, <1>4, <1>5, <2>1, <2>2
<1>7. \A f \in Files : (fs'[f] = "dummy" => fs[f] = "dummy") /\ (fs'[f] = "edited" => fs[f] = "edited") BY <1>2, <1>4
<1>8. \A f \in Files : Standing(f)' /\ ~ OutOfReach(f) => f.kind # "special"
  <2> SUFFICES ASSUME NEW f \in Files, Standing(f)', f.kind = "special", Named(Files, {"netconf"}) = {} PROVE FALSE
    BY DEF OutOfReach
  <2>1. f \in met BY <1>1 DEF ToClean
  <2> QED BY <1>2, <1>3, <1>4, <2>1 DEF Standing
<1>9. Passes BY <1>4, <1>5 DEF Passes, Order
<1>10. Kinds' /\ Dummies' /\ Kept' /\ Best' /\ Stilled' /\ GivenUpForCause' /\ StartFound'
  BY <1>4, <1>5, <1>6, <1>7, <1>8, <1>9, PassKeeps
<1>11. TypeOK' BY <1>4 DEF PrepInv, TypeOK
<1> QED BY <1>10, <1>11 DEF PrepInv

LEMMA RebootsKeeps ==
  ASSUME PrepInv, RemoveReboots PROVE PrepInv'
<1>1. pc = "reboots" BY DEF RemoveReboots
<1>2. target \in Files /\ (service # "DHCP" => target.name \notin Aims)
  BY <1>1, TargetIsServer DEF PrepInv, AfterChoice, AfterClean, AfterSetup
<1>3. Reboots \cup Shutdowns \subseteq Files
      /\ \A f \in Reboots \cup Shutdowns : f.name \in Rebooting \cup ShuttingDown
  BY DEF Reboots, Shutdowns, Reached, Named
<1>4. ASSUME NEW f \in Files, Standing(f), f.name \in Rebooting \cup ShuttingDown, ~ OutOfReach(f)
      PROVE  /\ f.name \in Rebooting => f \in Reboots \ Pages(Reboots)
             /\ f.name \in ShuttingDown => f \in Shutdowns
  <2>1. f.kind # "link" BY <1>4, NamesAssumption DEF OutOfReach
  <2>2. Exists(f) BY <2>1 DEF Exists
  <2>3. (f.name \in Rebooting => f.kind # "page") /\ f.dir # RootFolder BY <1>4 DEF OutOfReach
  <2> QED BY <1>4, <2>2, <2>3 DEF Reboots, Shutdowns, Reached, Named, Pages
<1>5. CASE Reboots = {} /\ Shutdowns # {} /\ Raise
  <2>1. UNCHANGED <<fs, given, outside, target, start, machine, broken>> /\ pc' = "exit1" BY <1>5 DEF Raise, Leave, Rest
  <2>2. Files' = Files /\ service' = service BY <2>1 DEF Files, service
  <2>3. Unexpected' BY <1>5, <2>1, <2>2 DEF Unexpected, Reboots, Shutdowns, Reached, Exists, Standing
  <2>4. broken' \in BOOLEAN BY <2>1 DEF PrepInv, TypeOK
  <2> QED BY <2>1, <2>3, <2>4, Stays DEF Stopped
<1>6. CASE Reboots \cup Shutdowns = {} /\ Leave("libraries")
  <2>1. UNCHANGED <<fs, given, outside, target, start, machine, broken>> /\ pc' = "libraries" BY <1>6 DEF Leave, Rest
  <2>2. Files' = Files BY <2>1 DEF Files
  <2>3. \A f \in Files : Standing(f)' <=> Standing(f) BY <2>1 DEF Standing
  <2>4. \A f \in Files : Standing(f)' /\ ~ OutOfReach(f) => f.name \notin Rebooting \cup ShuttingDown BY <1>4, <1>6, <2>3
  <2>5. Passes BY <1>1, <2>1 DEF Passes, Order
  <2>6. Kinds' /\ Dummies' /\ Kept' /\ Best' /\ Stilled' /\ GivenUpForCause' /\ StartFound'
    BY <1>1, <2>1, <2>2, <2>3, <2>4, <2>5, PassKeeps
  <2>7. TypeOK' BY <2>1, <2>2 DEF PrepInv, TypeOK
  <2> QED BY <2>6, <2>7 DEF PrepInv
<1>7. ASSUME NEW last_ \in Reboots, Becomes([f \in Stubs(last_) |-> "dummy"], "libraries") PROVE PrepInv'
  <2> DEFINE touched == [f \in Stubs(last_) |-> "dummy"]
  <2>1. DOMAIN touched = Stubs(last_) /\ Becomes(touched, "libraries") /\ \A f \in DOMAIN touched : touched[f] = "dummy" BY <1>7
  <2>2. Stubs(last_) \subseteq Files
        /\ \A f \in Stubs(last_) : f.name \in Rebooting \cup ShuttingDown
    BY <1>3 DEF Stubs
  <2> HIDE DEF touched
  <2>3. /\ Files' = Files /\ UNCHANGED <<given, outside, target, start, machine, broken>> /\ pc' = "libraries"
        /\ fs' \in [Files -> {"original", "edited", "dummy", "renamed", "gone"}]
        /\ \A f \in Files : fs'[f] = IF f \in DOMAIN touched THEN touched[f] ELSE fs[f]
        /\ \A f \in Files : Standing(f)' => Standing(f)
    <3>1. \A f \in DOMAIN touched : touched[f] \in {"edited", "dummy", "renamed", "gone"} BY <2>1
    <3>2. \A f \in DOMAIN touched : touched[f] = "edited" => fs[f] = "original" BY <2>1
    <3> QED BY <2>1, <2>2, <3>1, <3>2, Touches DEF PrepInv
  <2>4. service # "DHCP" => fs'[target] = fs[target] BY <1>2, <2>1, <2>2, <2>3 DEF Aims
  <2>5. \A f \in Files : fs'[f] = "dummy" => fs[f] = "dummy" \/ f.name \in Aims \ {"inittab"}
    BY <2>1, <2>2, <2>3, NamesAssumption DEF Aims
  <2>10. \A f \in Files : fs'[f] = "edited" => fs[f] = "edited" BY <2>1, <2>3
  <2>6. ASSUME NEW f \in Files, Standing(f)', ~ OutOfReach(f) PROVE f.name \notin Rebooting \cup ShuttingDown
    <3> SUFFICES ASSUME f.name \in Rebooting \cup ShuttingDown PROVE FALSE OBVIOUS
    <3>1. Standing(f) BY <2>3, <2>6
    <3>2. f \notin Stubs(last_) BY <2>1, <2>3, <2>6 DEF Standing
    <3>3. f.name \in ShuttingDown /\ f \in Shutdowns /\ last_.kind = "page" BY <1>4, <2>6, <3>1, <3>2 DEF Stubs
    <3>4. last_ \in Pages(Named(Files, Rebooting)) /\ last_.dir # RootFolder BY <3>3 DEF Pages, Reboots, Reached, Named
    <3> QED BY <2>6, <3>3, <3>4 DEF OutOfReach
  <2>7. Passes BY <1>1, <2>3 DEF Passes, Order
  <2>8. Kinds' /\ Dummies' /\ Kept' /\ Best' /\ Stilled' /\ GivenUpForCause' /\ StartFound'
    BY <1>1, <2>3, <2>4, <2>5, <2>6, <2>7, <2>10, PassKeeps
  <2>9. TypeOK' BY <2>3 DEF PrepInv, TypeOK
  <2> QED BY <2>8, <2>9 DEF PrepInv
<1> QED BY <1>5, <1>6, <1>7 DEF RemoveReboots

LEMMA RecogniseKeeps ==
  ASSUME PrepInv, Recognise PROVE PrepInv'
<1>1. pc = "setup" BY DEF Recognise
<1> USE DEF AfterChoice, AfterClean, AfterSetup, AfterReboots, AfterEntry, AfterBusy, AfterScripts
<1>2. CASE (Arch(target) = "wide" /\ Raise) \/ (Arch(target) \notin Program \ {"odd"} /\ GiveUp)
  <2>1. UNCHANGED <<fs, given, outside, target, start, machine, broken>> /\ pc' \in Stopped
    BY <1>2 DEF Raise, GiveUp, Leave, Rest, Stopped
  <2>2. target.kind \notin Native BY <1>2 DEF Arch, Program, Native
  <2>3. \A f \in Runnable : InTheWay(f) BY <1>1, <2>2 DEF PrepInv, Best
  <2>4. broken' \in BOOLEAN BY <2>1 DEF PrepInv, TypeOK
  <2> QED BY <2>1, <2>3, <2>4, Stays
<1>3. CASE /\ Arch(target) \in {"elf", "bare"} /\ machine' = Arch(target) /\ pc' = "reboots"
           /\ fs' = [f \in Files |-> IF f.dir \in Anew THEN "gone" ELSE fs[f]]
           /\ UNCHANGED <<given, outside, target, start, broken>>
  <2>1. Files' = Files /\ \A f \in Files : fs'[f] = IF f.dir \in Anew THEN "gone" ELSE fs[f] BY <1>3 DEF Files
  <2>2. /\ Candidates' = Candidates /\ Runnable' = Runnable /\ service' = service
        /\ \A f : (OutOfReach(f)' <=> OutOfReach(f)) /\ (InTheWay(f)' <=> InTheWay(f))
    BY <1>3, <2>1, SameFiles
  <2>3. TypeOK' BY <1>3, <2>1 DEF PrepInv, TypeOK
  <2>4. Kinds' /\ Dummies'
    <3>1. \A f \in Files : fs[f] # "edited" BY <1>1 DEF PrepInv, Kinds, Unread
    <3>2. Kinds' BY <1>3, <2>1, <3>1 DEF PrepInv, Kinds
    <3> QED BY <2>1, <3>2 DEF PrepInv, Dummies
  <2>5. Kept'
    <3>1. Suits(target, machine') BY <1>3 DEF Arch, Suits
    <3>2. target \in Candidates
          /\ (service # "DHCP" /\ target.dir \notin Anew => fs[target] = "original" \/ target.kind = "special")
      BY <1>1 DEF PrepInv, Kept
    <3>3. target.kind # "special" BY <1>3, <3>1 DEF Suits
    <3>4. target \in Files BY <3>2 DEF Candidates, Named
    <3> QED BY <1>3, <2>1, <2>2, <3>1, <3>2, <3>3, <3>4 DEF Kept
  <2>6. Best' BY <1>1, <1>3, <2>2 DEF PrepInv, Best
  <2>7. Stilled'
    <3>1. \A f \in Files : Standing(f)' => Standing(f) BY <2>1 DEF Standing
    <3> QED BY <1>1, <1>3, <2>1, <2>2, <3>1 DEF PrepInv, Stilled
  <2>8. GivenUpForCause' /\ StartFound' BY <1>3 DEF GivenUpForCause, StartFound
  <2> QED BY <2>3, <2>4, <2>5, <2>6, <2>7, <2>8 DEF PrepInv
<1> QED BY <1>2, <1>3 DEF Recognise

LEMMA LibrariesKeep ==
  ASSUME PrepInv, FakeLibraries PROVE PrepInv'
<1>1. pc = "libraries" BY DEF FakeLibraries
<1>2. PICK done \in SUBSET Nvram : Becomes([f \in done |-> "dummy"], "defaults") BY DEF FakeLibraries
<1>3. target \in Files /\ (service # "DHCP" => target.name \notin Aims)
  BY <1>1, TargetIsServer DEF PrepInv, AfterChoice, AfterClean, AfterSetup, AfterReboots
<1> DEFINE touched == [f \in done |-> "dummy"]
<1>4. DOMAIN touched = done /\ Becomes(touched, "defaults") /\ \A f \in DOMAIN touched : touched[f] = "dummy" BY <1>2
<1>5. done \subseteq Files /\ \A f \in done : f.name = "libnvram.so" BY DEF Nvram, Named
<1> HIDE DEF touched
<1>6. /\ Files' = Files /\ UNCHANGED <<given, outside, target, start, machine, broken>> /\ pc' = "defaults"
      /\ fs' \in [Files -> {"original", "edited", "dummy", "renamed", "gone"}]
      /\ \A f \in Files : fs'[f] = IF f \in DOMAIN touched THEN touched[f] ELSE fs[f]
      /\ \A f \in Files : Standing(f)' => Standing(f)
  <2>1. \A f \in DOMAIN touched : touched[f] \in {"edited", "dummy", "renamed", "gone"} BY <1>4
  <2>2. \A f \in DOMAIN touched : touched[f] = "edited" => fs[f] = "original" BY <1>4
  <2> QED BY <1>4, <1>5, <2>1, <2>2, Touches DEF PrepInv
<1>7. service # "DHCP" => fs'[target] = fs[target] BY <1>3, <1>4, <1>5, <1>6 DEF Aims
<1>8. \A f \in Files : fs'[f] = "dummy" => fs[f] = "dummy" \/ f.name \in Aims \ {"inittab"} BY <1>4, <1>5, <1>6 DEF Aims
<1>12. \A f \in Files : fs'[f] = "edited" => fs[f] = "edited" BY <1>4, <1>6
<1>9. Passes BY <1>1, <1>6 DEF Passes, Order
<1>10. Kinds' /\ Dummies' /\ Kept' /\ Best' /\ Stilled' /\ GivenUpForCause' /\ StartFound'
  BY <1>1, <1>6, <1>7, <1>8, <1>9, <1>12, PassKeeps
<1>11. TypeOK' BY <1>6 DEF PrepInv, TypeOK
<1> QED BY <1>10, <1>11 DEF PrepInv

(* A pass that touches nothing.                                            *)
LEMMA LeaveKeeps ==
  ASSUME PrepInv, Passes, UNCHANGED <<fs, given, target, start, machine, broken>>, outside' \in BOOLEAN,
         pc \notin {"clean", "identify", "reboots", "busy"}
  PROVE  PrepInv'
<1>1. Files' = Files BY DEF Files
<1>2. \A f \in Files : Standing(f)' <=> Standing(f) BY DEF Standing
<1>3. pc' # "entry" BY DEF Passes, Order
<1>4. Kinds' /\ Dummies' /\ Kept' /\ Best' /\ Stilled' /\ GivenUpForCause' /\ StartFound'
  BY <1>1, <1>2, <1>3, PassKeeps
<1>5. TypeOK' BY <1>1 DEF PrepInv, TypeOK, Passes, Order
<1> QED BY <1>4, <1>5 DEF PrepInv

LEMMA DefaultsKeep ==
  ASSUME PrepInv, LoadFactoryDefault PROVE PrepInv'
<1>1. pc = "defaults" BY DEF LoadFactoryDefault
<1>2. CASE Leave("identify")
  <2>1. UNCHANGED <<fs, given, outside, target, start, machine, broken>> /\ pc' = "identify" BY <1>2 DEF Leave, Rest
  <2>2. Passes BY <1>1, <2>1 DEF Passes, Order
  <2>3. outside' \in BOOLEAN BY <2>1 DEF PrepInv, TypeOK
  <2> QED BY <1>1, <2>1, <2>2, <2>3, LeaveKeeps
<1>3. CASE pc' = "exit1" /\ broken' = TRUE /\ Rest /\ UNCHANGED fs
  <2>1. UNCHANGED <<fs, given, outside, target, start, machine>> /\ pc' \in Stopped /\ broken' \in BOOLEAN
    BY <1>3 DEF Rest, Stopped
  <2> QED BY <1>3, <2>1, Stays
<1> QED BY <1>2, <1>3 DEF LoadFactoryDefault

(* An edited inittab is still there, so the answer suits the files after   *)
(* the edit as it suited those before.                                     *)
LEMMA AnswerKeeps ==
  ASSUME PrepInv, pc = "identify", pc' = "entry", UNCHANGED <<given, outside, target, machine, broken>>,
         NEW tab \in Inittabs(Here), start' = Identified(Here, tab),
         fs' = [f \in Files |-> IF f = tab /\ ParsesInittab(Here) THEN "edited" ELSE fs[f]]
  PROVE  PrepInv'
<1>1. pc = "identify" /\ pc' = "entry" /\ UNCHANGED <<given, outside, target, machine, broken>> OBVIOUS
<1>2. /\ tab \in Inittabs(Here) /\ start' = Identified(Here, tab)
      /\ fs' = [f \in Files |-> IF f = tab /\ ParsesInittab(Here) THEN "edited" ELSE fs[f]]
  OBVIOUS
<1>3. Here \subseteq Files /\ \A f \in Here : Standing(f) \/ fs[f] = "dummy" BY DEF Here
<1>4. \A f \in Files : f.kind \in Kind BY DEF PrepInv, Kinds
<1>5. tab \in Files => tab \in Here /\ tab.name = "inittab" /\ Standing(tab)
  <2> SUFFICES ASSUME tab \in Files PROVE tab \in Here /\ tab.name = "inittab" /\ Standing(tab) OBVIOUS
  <2>1. tab # Nothing BY <1>4, NothingIsNoFile
  <2>2. tab \in Named(Here, {"inittab"}) BY <1>2, <2>1 DEF Inittabs
  <2>3. tab \in Here /\ tab.name = "inittab" BY <2>2 DEF Named
  <2>4. fs[tab] # "dummy" BY <2>3 DEF PrepInv, Dummies
  <2> QED BY <1>3, <2>3, <2>4
<1>6. Files' = Files BY <1>2 DEF Files
<1>7. \A f \in Files : fs'[f] = fs[f] \/ (f = tab /\ fs'[f] = "edited") BY <1>2
<1>8. \A f \in Files : Standing(f)' <=> Standing(f) BY <1>5, <1>7 DEF Standing
<1>9. Here' = Here
  <2>1. \A f \in Files : fs'[f] = "dummy" <=> fs[f] = "dummy" BY <1>5, <1>7 DEF Standing
  <2>2. \A f \in Files : Exists(f)' <=> Exists(f) BY <1>1 DEF Exists
  <2> QED BY <1>6, <1>8, <2>1, <2>2 DEF Here
<1>10. StartFound'
  <2>1. StartRight(Here, tab, start')
    <3>1. \A f \in Here : f.kind \in Kind BY <1>3, <1>4
    <3> QED BY <1>2, <3>1, IdentifiedRight
  <2>2. \A f \in Files' : f.kind = "sysinit" /\ fs'[f] = "edited" => ParsesInittab(Here) /\ tab.kind = "sysinit"
    <3>1. \A f \in Files : fs[f] # "edited" BY <1>1 DEF PrepInv, Kinds, Unread
    <3> QED BY <1>2, <1>6, <3>1
  <2> QED BY <1>9, <2>1, <2>2 DEF StartFound, StartRight
<1>11. target \in Files /\ (service # "DHCP" => target.name \notin Aims)
  BY <1>1, TargetIsServer DEF PrepInv, AfterChoice, AfterClean, AfterSetup, AfterReboots
<1>12. service # "DHCP" => fs'[target] = fs[target] BY <1>5, <1>7, <1>11 DEF Aims
<1>16. pc \notin Unread \ {"identify"} BY <1>1
<1>13. Passes BY <1>1 DEF Passes, Order
<1>14. Kinds' /\ Dummies' /\ Kept' /\ Best' /\ Stilled' /\ GivenUpForCause'
  BY <1>1, <1>6, <1>7, <1>8, <1>12, <1>13, <1>16, PassKeeps
<1>15. TypeOK'
  <2>1. fs' \in [Files -> {"original", "edited", "dummy", "renamed", "gone"}] BY <1>2 DEF PrepInv, TypeOK
  <2> QED BY <1>1, <1>6, <2>1 DEF PrepInv, TypeOK
<1> QED BY <1>10, <1>14, <1>15 DEF PrepInv

LEMMA IdentifyKeeps ==
  ASSUME PrepInv, Identify PROVE PrepInv'
<1>1. pc = "identify" BY DEF Identify
<1>2. CASE Illegible(Here) /\ Raise
  <2>1. UNCHANGED <<fs, given, outside, target, start, machine, broken>> /\ pc' \in Stopped
    BY <1>2 DEF Raise, Leave, Rest, Stopped
  <2>2. Files' = Files BY <2>1 DEF Files
  <2>3. Here' = Here BY <2>1, <2>2 DEF Here, Standing, Exists
  <2>4. Unexpected' BY <1>2, <2>3 DEF Unexpected
  <2>5. broken' \in BOOLEAN BY <2>1 DEF PrepInv, TypeOK
  <2> QED BY <1>1, <2>1, <2>4, <2>5, Stays DEF Stopped
<1>3. CASE ~ Illegible(Here)
  <2>1. PICK tab \in Inittabs(Here) :
          /\ start' = Identified(Here, tab)
          /\ fs' = [f \in Files |-> IF f = tab /\ ParsesInittab(Here) THEN "edited" ELSE fs[f]]
    BY <1>3 DEF Identify
  <2>2. pc' = "entry" /\ UNCHANGED <<given, outside, target, machine, broken>> BY <1>3 DEF Identify
  <2> QED BY <1>1, <2>1, <2>2, AnswerKeeps
<1> QED BY <1>2, <1>3 DEF Identify

LEMMA FilesystemKeeps ==
  ASSUME PrepInv, FixFilesystem PROVE PrepInv'
<1>1. pc = "entry" BY DEF FixFilesystem
<1> USE DEF AfterChoice, AfterClean, AfterSetup, AfterReboots, AfterEntry, AfterBusy, AfterScripts
<1>2. CASE HasShell /\ Leave("preprocess")
  <2>1. UNCHANGED <<fs, given, outside, target, start, machine, broken>> /\ pc' = "preprocess" BY <1>2 DEF Leave, Rest
  <2>2. Passes BY <1>1, <2>1 DEF Passes, Order
  <2>3. outside' \in BOOLEAN BY <2>1 DEF PrepInv, TypeOK
  <2> QED BY <1>1, <2>1, <2>2, <2>3, LeaveKeeps
<1>3. CASE machine = "bare" /\ Raise
  <2>1. UNCHANGED <<fs, given, outside, target, start, machine, broken>> /\ pc' \in Stopped
    BY <1>3 DEF Raise, Leave, Rest, Stopped
  <2>2. target.kind \notin Native BY <1>1, <1>3 DEF PrepInv, Kept, Suits, Native
  <2>3. \A f \in Runnable : InTheWay(f) BY <1>1, <2>2 DEF PrepInv, Best
  <2>4. broken' \in BOOLEAN BY <2>1 DEF PrepInv, TypeOK
  <2> QED BY <2>1, <2>3, <2>4, Stays
<1>4. CASE pc' = "preprocess" /\ outside' = TRUE /\ UNCHANGED <<fs, given, target, start, machine, broken>>
  <2>1. Passes BY <1>1, <1>4 DEF Passes, Order
  <2> QED BY <1>1, <1>4, <2>1, LeaveKeeps
<1>5. CASE /\ ~ HasShell /\ ~ InBin("sh") /\ pc' = "preprocess"
           /\ fs' = [f \in Files \cup {Shell} |-> IF f \in Files THEN fs[f] ELSE "original"]
           /\ UNCHANGED <<given, outside, target, start, machine, broken>>
  <2>1. Files' = Files \cup {Shell} /\ service' = service BY <1>5 DEF Files, service
  <2>2. \A f \in Files : fs'[f] = fs[f] BY <1>5
  <2>3. fs'[Shell] \in {"original", "edited", "dummy", "renamed", "gone"} /\ (fs'[Shell] = "dummy" => Shell \in Files)
    BY <1>5 DEF PrepInv, TypeOK
  <2>4. Shell.name = "sh" /\ Shell.kind = "elf" BY DEF Shell
  <2>5. IsFiniteSet(Files') BY <2>1, FS_AddElement DEF PrepInv, Kinds
  <2>6. Kinds' BY <1>5, <2>1, <2>4, <2>5 DEF PrepInv, Kinds, Kind, Program, Unread
  <2>7. Dummies' BY <2>1, <2>2, <2>3 DEF PrepInv, Dummies
  <2>8. TypeOK'
    <3>1. fs' \in [Files' -> {"original", "edited", "dummy", "renamed", "gone"}]
      BY <1>5, <2>1 DEF PrepInv, TypeOK
    <3> QED BY <1>5, <2>1, <3>1 DEF PrepInv, TypeOK
  <2>9. \A n : n # "sh" => Named(Files', {n}) = Named(Files, {n}) BY <2>1, <2>4 DEF Named
  <2>10. Dropped' = Dropped BY <2>1, <2>9 DEF Dropped
  <2>11. Candidates \subseteq Candidates' BY <2>1, <2>10 DEF Candidates, Named
  <2>12. target \in Files BY <1>1, TargetIsServer DEF PrepInv
  <2>13. Kept' BY <1>1, <1>5, <2>1, <2>2, <2>11, <2>12 DEF PrepInv, Kept
  <2>14. Best' /\ GivenUpForCause' /\ StartFound' BY <1>5 DEF Best, GivenUpForCause, StartFound
  <2>15. \A f : OutOfReach(f) => OutOfReach(f)'
    <3>1. \A N : Named(Files, N) \subseteq Named(Files', N) BY <2>1 DEF Named
    <3> QED BY <3>1 DEF OutOfReach, Pages
  <2>16. Stilled'
    <3> SUFFICES ASSUME NEW f \in Files', Standing(f)', ~ OutOfReach(f)'
                 PROVE  f.kind # "special" /\ f.name \notin Rebooting \cup ShuttingDown
      BY <1>5 DEF Stilled
    <3>1. CASE f \in Files
      <4>1. Standing(f) /\ ~ OutOfReach(f) BY <2>2, <2>15, <3>1 DEF Standing
      <4> QED BY <1>1, <3>1, <4>1 DEF PrepInv, Stilled
    <3>2. CASE f = Shell BY <2>4, <3>2, NamesAssumption
    <3> QED BY <2>1, <3>1, <3>2
  <2> QED BY <2>6, <2>7, <2>8, <2>13, <2>14, <2>16 DEF PrepInv
<1> QED BY <1>2, <1>3, <1>4, <1>5 DEF FixFilesystem

LEMMA PreprocessKeeps ==
  ASSUME PrepInv, Preprocess PROVE PrepInv'
<1>1. pc = "preprocess" BY DEF Preprocess
<1> DEFINE astray == \/ Unpacker # {} /\ ~ InBin("htmlunpack")
                     \/ Present("rc_apps") /\ ~ \E f \in Files : f.dir = "usr/etc"
<1>2. CASE astray
  <2>1. Raise BY <1>2 DEF Preprocess
  <2>2. UNCHANGED <<fs, given, outside, target, start, machine, broken>> /\ pc' \in Stopped
    BY <2>1 DEF Raise, Leave, Rest, Stopped
  <2>3. Unexpected BY <1>2 DEF Unexpected, Present
  <2>4. Unexpected'
    <3>1. Files' = Files BY <2>2 DEF Files
    <3>2. Here' = Here BY <2>2, <3>1 DEF Here, Exists, Standing
    <3> QED BY <2>2, <2>3, <3>1, <3>2 DEF Unexpected, Shutdowns, Reboots, Reached, Unpacker, InBin, Exists, Standing
  <2>5. broken' \in BOOLEAN BY <2>2 DEF PrepInv, TypeOK
  <2> QED BY <2>2, <2>4, <2>5, Stays
<1>3. CASE ~ astray
  <2> DEFINE moved == {u \in Unpacker : u.dir = "bin"}
             touched == [f \in moved |-> "renamed"]
  <2>1. DOMAIN touched = moved /\ Becomes(touched, "busy") /\ \A f \in DOMAIN touched : touched[f] = "renamed"
    BY <1>3 DEF Preprocess
  <2>2. moved \subseteq Files /\ \A f \in moved : f.name = "htmlunpack" BY DEF Unpacker, Named
  <2> HIDE DEF touched, moved
  <2>3. /\ Files' = Files /\ UNCHANGED <<given, outside, target, start, machine, broken>> /\ pc' = "busy"
        /\ fs' \in [Files -> {"original", "edited", "dummy", "renamed", "gone"}]
        /\ \A f \in Files : fs'[f] = IF f \in DOMAIN touched THEN touched[f] ELSE fs[f]
        /\ \A f \in Files : Standing(f)' => Standing(f)
    <3>1. \A f \in DOMAIN touched : touched[f] \in {"edited", "dummy", "renamed", "gone"} BY <2>1
    <3>2. \A f \in DOMAIN touched : touched[f] = "edited" => fs[f] = "original" BY <2>1
    <3> QED BY <2>1, <2>2, <3>1, <3>2, Touches DEF PrepInv
  <2>4. target \in Files /\ (service # "DHCP" => target.name \notin Aims)
    BY <1>1, TargetIsServer DEF PrepInv, AfterChoice, AfterClean, AfterSetup, AfterReboots, AfterEntry
  <2>5. service # "DHCP" => fs'[target] = fs[target] BY <2>1, <2>2, <2>3, <2>4 DEF Aims
  <2>6. \A f \in Files : fs'[f] = "dummy" => fs[f] = "dummy" BY <2>1, <2>3
  <2>7. Passes BY <1>1, <2>3 DEF Passes, Order
  <2>8. Kinds' /\ Dummies' /\ Kept' /\ Best' /\ Stilled' /\ GivenUpForCause' /\ StartFound'
    BY <1>1, <2>3, <2>5, <2>6, <2>7, PassKeeps DEF Unread
  <2>9. TypeOK' BY <2>3 DEF PrepInv, TypeOK
  <2> QED BY <2>8, <2>9 DEF PrepInv
<1> QED BY <1>2, <1>3

LEMMA BusyKeeps ==
  ASSUME PrepInv, RemoveBusy PROVE PrepInv'
<1>1. pc = "busy" BY DEF RemoveBusy, RenameBusy
<1> DEFINE removed == Named(Files, {n \in Busy(service) : n \in Always \/ Present(n)})
           renamed == {r \in removed : fs[r] # "gone"}
           touched == [f \in renamed |-> "renamed"]
<1>2. DOMAIN touched = renamed /\ Becomes(touched, "scripts") /\ \A f \in DOMAIN touched : touched[f] = "renamed"
  BY DEF RemoveBusy, RenameBusy
<1>3. renamed \subseteq Files /\ \A f \in renamed : f.name \in Busy(service) BY DEF Named
<1>4. ASSUME NEW f \in Files, Standing(f), f.name \in Busy(service), ~ OutOfReach(f) PROVE f \in renamed
  <2>1. fs[f] # "gone" BY <1>4 DEF Standing
  <2>2. f.kind # "special"
    BY <1>1, <1>4 DEF PrepInv, Stilled, AfterClean, AfterSetup, AfterReboots, AfterEntry, AfterBusy, AfterScripts
  <2>3. f.name \in Always \/ f.kind # "link" BY <1>4 DEF OutOfReach
  <2>4. f.name \in Always \/ Present(f.name)
    <3>1. f \in Named(Files, {f.name}) BY DEF Named
    <3> QED BY <2>2, <2>3, <3>1 DEF Present, Exists
  <2> QED BY <1>4, <2>1, <2>4 DEF Named
<1> HIDE DEF touched, renamed
<1>5. /\ Files' = Files /\ UNCHANGED <<given, outside, target, start, machine, broken>> /\ pc' = "scripts"
      /\ fs' \in [Files -> {"original", "edited", "dummy", "renamed", "gone"}]
      /\ \A f \in Files : fs'[f] = IF f \in DOMAIN touched THEN touched[f] ELSE fs[f]
      /\ \A f \in Files : Standing(f)' => Standing(f)
  <2>1. \A f \in DOMAIN touched : touched[f] \in {"edited", "dummy", "renamed", "gone"} BY <1>2
  <2>2. \A f \in DOMAIN touched : touched[f] = "edited" => fs[f] = "original" BY <1>2
  <2> QED BY <1>2, <1>3, <2>1, <2>2, Touches DEF PrepInv
<1>6. target \in Files /\ (service # "DHCP" => target.name \notin Busy(service))
  BY <1>1, TargetIsServer DEF PrepInv, AfterChoice, AfterClean, AfterSetup, AfterReboots, AfterEntry
<1>7. service # "DHCP" => fs'[target] = fs[target] BY <1>2, <1>3, <1>5, <1>6
<1>8. \A f \in Files : fs'[f] = "dummy" => fs[f] = "dummy" BY <1>2, <1>5
<1>9. \A f \in Files : Standing(f)' /\ ~ OutOfReach(f) => f.name \notin Busy(service)
  BY <1>2, <1>4, <1>5 DEF Standing
<1>10. Passes BY <1>1, <1>5 DEF Passes, Order
<1>11. Kinds' /\ Dummies' /\ Kept' /\ Best' /\ Stilled' /\ GivenUpForCause' /\ StartFound'
  BY <1>1, <1>5, <1>7, <1>8, <1>9, <1>10, PassKeeps DEF Unread
<1>12. TypeOK' BY <1>5 DEF PrepInv, TypeOK
<1> QED BY <1>11, <1>12 DEF PrepInv

LEMMA ScriptsKeep ==
  ASSUME PrepInv, EditScripts PROVE PrepInv'
<1>1. pc = "scripts" BY DEF EditScripts
<1>2. CASE Present("xmldb")
  <2>1. UNCHANGED <<fs, given, outside, target, start, machine, broken>> /\ pc' = "ready"
    BY <1>2 DEF EditScripts, Leave, Rest
  <2>2. Passes BY <1>1, <2>1 DEF Passes, Order
  <2>3. outside' \in BOOLEAN BY <2>1 DEF PrepInv, TypeOK
  <2> QED BY <1>1, <2>1, <2>2, <2>3, LeaveKeeps
<1>3. CASE ~ Present("xmldb")
  <2> DEFINE edits == {b \in BashFiles : fs[b] = "original"}
             touched == [f \in edits |-> "edited"]
  <2>1. DOMAIN touched = edits /\ Becomes(touched, "ready") /\ \A f \in DOMAIN touched : touched[f] = "edited"
    BY <1>3 DEF EditScripts, Edited
  <2>2. edits \subseteq Files /\ \A f \in edits : f.kind = "script" /\ fs[f] = "original" BY DEF BashFiles
  <2> HIDE DEF touched, edits
  <2>3. /\ Files' = Files /\ UNCHANGED <<given, outside, target, start, machine, broken>> /\ pc' = "ready"
        /\ fs' \in [Files -> {"original", "edited", "dummy", "renamed", "gone"}]
        /\ \A f \in Files : fs'[f] = IF f \in DOMAIN touched THEN touched[f] ELSE fs[f]
        /\ \A f \in Files : Standing(f)' => Standing(f)
    <3>1. \A f \in DOMAIN touched : touched[f] \in {"edited", "dummy", "renamed", "gone"} BY <2>1
    <3>2. \A f \in DOMAIN touched : touched[f] = "edited" => fs[f] = "original" BY <2>1, <2>2
    <3> QED BY <2>1, <2>2, <3>1, <3>2, Touches DEF PrepInv
  <2>4. target \in Files /\ target.kind \in Program \cup {"link"}
    BY <1>1, TargetIsServer DEF PrepInv, AfterChoice, AfterClean, AfterSetup, AfterReboots, AfterEntry, AfterBusy
  <2>5. service # "DHCP" => fs'[target] = fs[target] BY <2>1, <2>2, <2>3, <2>4 DEF Program
  <2>6. \A f \in Files : fs'[f] = "dummy" => fs[f] = "dummy" BY <2>1, <2>3
  <2>7. Passes BY <1>1, <2>3 DEF Passes, Order
  <2>8. Kinds' /\ Dummies' /\ Kept' /\ Best' /\ Stilled' /\ GivenUpForCause' /\ StartFound'
    BY <1>1, <2>3, <2>5, <2>6, <2>7, PassKeeps DEF Unread
  <2>9. TypeOK' BY <2>3 DEF PrepInv, TypeOK
  <2> QED BY <2>8, <2>9 DEF PrepInv
<1> QED BY <1>2, <1>3

(* A walk meets every candidate.                                           *)
LEMMA WalkMeetsAll ==
  ASSUME Kinds, NEW w \in Walks
  PROVE  /\ DOMAIN w = 1 .. Cardinality(Candidates) /\ Cardinality(Candidates) \in Nat
         /\ \A k \in DOMAIN w : w[k] \in Candidates
         /\ \A f \in Candidates : \E k \in DOMAIN w : w[k] = f
<1> DEFINE n == Cardinality(Candidates)
<1>1. IsFiniteSet(Candidates)
  <2>1. Candidates \subseteq Files BY DEF Candidates, Named
  <2> QED BY <2>1, FS_Subset DEF Kinds
<1>2. n \in Nat BY <1>1, FS_CardinalityType
<1>3. w \in [1 .. n -> Candidates] /\ \A i, j \in 1 .. n : i < j => w[i] # w[j]
  <2>1. w \in [1 .. n -> Candidates] BY DEF Walks
  <2>2. \A i, j \in DOMAIN w : i < j => w[i] # w[j] BY DEF Walks
  <2> QED BY <2>1, <2>2
<1> HIDE DEF n
<1>4. \A i, j \in 1 .. n : w[i] = w[j] => i = j
  <2> SUFFICES ASSUME NEW i \in 1 .. n, NEW j \in 1 .. n, w[i] = w[j], i # j PROVE FALSE OBVIOUS
  <2>1. i < j \/ j < i BY <1>2
  <2> QED BY <1>3, <2>1
<1>5. w \in Injection(1 .. n, Candidates) BY <1>3, <1>4 DEF Injection, IsInjective
<1>6. Cardinality(1 .. n) = n
  <2>1. 1 \in Int /\ n \in Int BY <1>2
  <2>2. Cardinality(1 .. n) = IF 1 > n THEN 0 ELSE n - 1 + 1 BY <2>1, FS_Interval
  <2> QED BY <1>2, <2>2
<1>7. w \in Surjection(1 .. n, Candidates) BY <1>1, <1>5, <1>6, FS_Injection DEF n
<1>8. \A f \in Candidates : \E k \in 1 .. n : w[k] = f BY <1>7 DEF Surjection
<1> QED BY <1>2, <1>3, <1>8 DEF n

(* With no candidate under rc_app file is asked about each of them.        *)
LEMMA EachAsked ==
  ASSUME Kinds, NEW w \in Walks, \A f \in Candidates : f.dir # "rc_app"
  PROVE  Accepted(w) = {f \in Candidates : IsElf(f)}
<1>1. /\ DOMAIN w = 1 .. Cardinality(Candidates) /\ Cardinality(Candidates) \in Nat
      /\ \A k \in DOMAIN w : w[k] \in Candidates
      /\ \A f \in Candidates : \E k \in DOMAIN w : w[k] = f
  BY WalkMeetsAll
<1>2. ASSUME NEW k \in DOMAIN w PROVE Latest(Looked(w, k)) = k
  <2>1. k \in Nat /\ \A j \in 1 .. k : j \in DOMAIN w BY <1>1
  <2>2. Looked(w, k) = 1 .. k BY <1>1, <2>1 DEF Looked
  <2>3. k \in 1 .. k /\ \A o \in 1 .. k : o <= k BY <1>1
  <2>4. \A j \in 1 .. k : (\A o \in 1 .. k : o <= j) => j = k BY <2>1, <2>3
  <2> QED BY <2>2, <2>3, <2>4 DEF Latest
<1>3. Accepted(w) = {w[k] : k \in {i \in DOMAIN w : IsElf(w[i])}}
  <2>1. {k \in DOMAIN w : IsElf(w[Latest(Looked(w, k))])} = {i \in DOMAIN w : IsElf(w[i])} BY <1>2
  <2> QED BY <2>1 DEF Accepted
<1>4. \A f \in Accepted(w) : f \in Candidates /\ IsElf(f) BY <1>1, <1>3
<1>5. \A f \in Candidates : IsElf(f) => f \in Accepted(w) BY <1>1, <1>3
<1> QED BY <1>4, <1>5

(* A program that is no candidate was displaced by one of another name.    *)
LEMMA Displaced ==
  ASSUME NEW f \in Runnable \ Candidates
  PROVE  \/ /\ service = "DNS" /\ f.name = "ddnsd"
            /\ \E o \in Files : o \in Candidates /\ o.name = "dnsmasq"
         \/ /\ service = "UPNP" /\ f.name = "miniupnpc"
            /\ \E o \in Files : o \in Candidates /\ o.name = "miniupnpd"
<1>1. f \in Files /\ f.name \in Names(service) /\ f.name \in Dropped BY DEF Runnable, Candidates, Named
<1>2. CASE service = "DNS" /\ Named(Files, {"dnsmasq"}) # {}
  <2>1. Dropped = {"ddnsd"} BY <1>2 DEF Dropped
  <2>2. PICK o \in Files : o.name = "dnsmasq" BY <1>2 DEF Named
  <2>3. "dnsmasq" \in Names(service) \ Dropped BY <1>2, <2>1, ServersAssumption
  <2>4. o \in Candidates BY <2>2, <2>3 DEF Candidates, Named
  <2> QED BY <1>1, <1>2, <2>1, <2>2, <2>4
<1>3. CASE service = "UPNP" /\ Named(Files, {"miniupnpd"}) # {}
  <2>1. Dropped = {"miniupnpc"} BY <1>3 DEF Dropped
  <2>2. PICK o \in Files : o.name = "miniupnpd" BY <1>3 DEF Named
  <2>3. "miniupnpd" \in Names(service) \ Dropped BY <1>3, <2>1, ServersAssumption
  <2>4. o \in Candidates BY <2>2, <2>3 DEF Candidates, Named
  <2> QED BY <1>1, <1>3, <2>1, <2>2, <2>4
<1>4. ~ (service = "DNS" /\ Named(Files, {"dnsmasq"}) # {}) /\ ~ (service = "UPNP" /\ Named(Files, {"miniupnpd"}) # {})
      => Dropped = {}
  BY DEF Dropped
<1> QED BY <1>1, <1>2, <1>3, <1>4

LEMMA RcAppIsInTheWay ==
  ASSUME NEW o \in Candidates, o.dir = "rc_app" PROVE \A f : InTheWay(f)
BY DEF InTheWay

LEMMA ElfIsElf ==
  \A f : (f.kind \in Native => IsElf(f)) /\ (~ IsElf(f) => f.kind \notin Native)
BY DEF IsElf, Program, Native

LEMMA ChooseKeeps ==
  ASSUME PrepInv, Choose PROVE PrepInv'
<1>1. pc = "choose" BY DEF Choose
<1>2. PICK w \in Walks :
       IF w # << >> /\ w[1].dir = "rc_app" THEN Raise
       ELSE IF Accepted(w) = {} THEN GiveUp
       ELSE /\ target' \in Shortest(Accepted(w)) /\ pc' = "clean"
            /\ UNCHANGED <<given, outside, fs, start, machine, broken>>
  BY DEF Choose
<1>3. /\ DOMAIN w = 1 .. Cardinality(Candidates) /\ Cardinality(Candidates) \in Nat
      /\ \A k \in DOMAIN w : w[k] \in Candidates
      /\ \A f \in Candidates : \E k \in DOMAIN w : w[k] = f
  BY WalkMeetsAll DEF PrepInv
<1>4. Candidates \subseteq Files BY DEF Candidates, Named
<1>5. \A f \in Runnable : f \in Files /\ f.kind \in Native BY DEF Runnable, Named
<1> DEFINE first == w # << >> /\ w[1].dir = "rc_app"
<1>6. ASSUME first \/ Accepted(w) = {} PROVE \A f \in Runnable : InTheWay(f)
  <2>1. CASE \E o \in Candidates : o.dir = "rc_app" BY <2>1, RcAppIsInTheWay
  <2>2. CASE \A o \in Candidates : o.dir # "rc_app"
    <3>1. ~ first
      <4> SUFFICES ASSUME first PROVE FALSE OBVIOUS
      <4>1. DOMAIN w # {}
        <5>1. w \in [1 .. Cardinality(Candidates) -> Candidates] BY DEF Walks
        <5>2. CASE Cardinality(Candidates) = 0
          <6>1. DOMAIN w = {} BY <1>3, <5>2
          <6>2. DOMAIN << >> = {} OBVIOUS
          <6>3. w = << >> BY <5>1, <5>2
          <6> QED BY <6>3
        <5>3. CASE Cardinality(Candidates) # 0 BY <1>3, <5>3
        <5> QED BY <5>2, <5>3
      <4>2. 1 \in DOMAIN w BY <1>3, <4>1
      <4> QED BY <1>3, <2>2, <4>2
    <3>2. \A o \in Candidates : o.kind \notin Native BY <1>6, <2>2, <3>1, EachAsked, ElfIsElf DEF PrepInv
    <3> SUFFICES ASSUME NEW f \in Runnable PROVE InTheWay(f) OBVIOUS
    <3>3. f \notin Candidates BY <1>5, <3>2
    <3>4. \E o \in Files : /\ o.kind \notin Native
                          /\ <<f.name, o.name>> \in {<<"ddnsd", "dnsmasq">>, <<"miniupnpc", "miniupnpd">>}
      BY <3>2, <3>3, Displaced
    <3> QED BY <3>4 DEF InTheWay
  <2> QED BY <2>1, <2>2
<1>7. CASE first \/ Accepted(w) = {}
  <2>1. UNCHANGED <<fs, given, outside, target, start, machine, broken>> /\ pc' \in Stopped
    BY <1>2, <1>7 DEF Raise, GiveUp, Leave, Rest, Stopped
  <2>2. broken' \in BOOLEAN BY <2>1 DEF PrepInv, TypeOK
  <2> QED BY <1>6, <1>7, <2>1, <2>2, Stays
<1>8. CASE ~ first /\ Accepted(w) # {}
  <2>1. target' \in Shortest(Accepted(w)) /\ pc' = "clean" /\ UNCHANGED <<given, outside, fs, start, machine, broken>>
    BY <1>2, <1>8
  <2>2. Files' = Files BY <2>1 DEF Files
  <2>3. /\ Candidates' = Candidates /\ Runnable' = Runnable /\ service' = service
        /\ \A f : (OutOfReach(f)' <=> OutOfReach(f)) /\ (InTheWay(f)' <=> InTheWay(f))
    BY <2>1, <2>2, SameFiles
  <2>4. target' \in Accepted(w) /\ \A o \in Accepted(w) : Size[target'.name] <= Size[o.name] BY <2>1 DEF Shortest
  <2>5. target' \in Candidates /\ target' \in Files BY <1>3, <1>4, <2>4 DEF Accepted
  <2>6. target'.kind \in Native \/ \A f \in Runnable : InTheWay(f)
    <3> SUFFICES ASSUME target'.kind \notin Native, \A o \in Candidates : o.dir # "rc_app", NEW f \in Runnable PROVE InTheWay(f)
      BY RcAppIsInTheWay
    <3>1. Accepted(w) = {o \in Candidates : IsElf(o)} BY EachAsked DEF PrepInv
    <3>2. CASE f \in Candidates
      <4>1. Size[target'.name] <= Size[f.name] BY <1>5, <2>4, <3>1, <3>2, ElfIsElf
      <4> QED BY <2>5, <4>1 DEF InTheWay
    <3>3. CASE /\ f \notin Candidates /\ service = "DNS" /\ f.name = "ddnsd"
               /\ \E o \in Files : o \in Candidates /\ o.name = "dnsmasq"
      <4>1. target'.name \in Names(service) \ Dropped BY <2>5 DEF Candidates, Named
      <4>2. "ddnsd" \in Dropped BY <1>5, <3>3 DEF Candidates, Runnable, Named
      <4>3. target'.name = "dnsmasq" BY <3>3, <4>1, <4>2, ServersAssumption
      <4> QED BY <2>5, <3>3, <4>3 DEF InTheWay
    <3>4. CASE /\ f \notin Candidates /\ service = "UPNP" /\ f.name = "miniupnpc"
               /\ \E o \in Files : o \in Candidates /\ o.name = "miniupnpd"
      <4>1. PICK o \in Files : o \in Candidates /\ o.name = "miniupnpd" BY <3>4
      <4>2. CASE o.kind \notin Native BY <3>4, <4>1, <4>2 DEF InTheWay
      <4>3. CASE o.kind \in Native
        <5>1. Size[target'.name] <= Size["miniupnpd"] BY <2>4, <3>1, <4>1, <4>3, ElfIsElf
        <5>2. Size[target'.name] <= Size[f.name] BY <3>4, <5>1, ServersAssumption
        <5> QED BY <2>5, <5>2 DEF InTheWay
      <4> QED BY <4>2, <4>3
    <3> QED BY <3>2, <3>3, <3>4, Displaced
  <2> USE DEF AfterChoice, AfterClean, AfterSetup, AfterReboots, AfterEntry, AfterBusy, AfterScripts
  <2>7. TypeOK' BY <2>1, <2>2, <2>5 DEF PrepInv, TypeOK
  <2>8. Kinds' /\ Dummies'
    <3>1. \A f \in Files : fs[f] # "edited" BY <1>1 DEF PrepInv, Kinds
    <3> QED BY <2>1, <2>2, <3>1 DEF PrepInv, Kinds, Dummies
  <2>9. Best' BY <2>1, <2>3, <2>6 DEF Best
  <2>10. Stilled' /\ GivenUpForCause' /\ StartFound' BY <2>1 DEF Stilled, GivenUpForCause, StartFound
  <2>11. Kept'
    <3>1. fs'[target'] = "original" BY <1>1, <2>1, <2>5 DEF PrepInv, Kinds
    <3> QED BY <2>1, <2>3, <2>5, <3>1 DEF Kept
  <2> QED BY <2>7, <2>8, <2>9, <2>10, <2>11 DEF PrepInv
<1> QED BY <1>7, <1>8

LEMMA PrepStarts ==
  ASSUME Init PROVE PrepInv
<1>1. Files = {} /\ fs = << >> BY DEF Init, Files
<1>2. TypeOK
  <2>1. fs \in [Files -> {"original", "edited", "dummy", "renamed", "gone"}] BY <1>1 DEF Files
  <2> QED BY <2>1 DEF Init, TypeOK
<1>3. Kinds BY <1>1, FS_EmptySet DEF Init, Kinds, Unread
<1>4. Dummies /\ Stilled BY <1>1 DEF Dummies, Stilled
<1>5. Kept /\ Best /\ GivenUpForCause /\ StartFound
  BY DEF Init, Kept, Best, GivenUpForCause, StartFound, AfterChoice, AfterClean, AfterSetup, AfterReboots, AfterEntry,
         AfterBusy, AfterScripts
<1> QED BY <1>2, <1>3, <1>4, <1>5 DEF PrepInv

LEMMA TakeKeeps ==
  ASSUME PrepInv, NEW files, fs = << >>, Take(files), IsFiniteSet(files), \A f \in files : f.kind \in Kind
  PROVE  PrepInv'
<1>1. fs' = [f \in files |-> "original"] /\ pc' = "choose" /\ UNCHANGED <<given, outside, target, start, machine, broken>>
  BY DEF Take, Rest
<1>2. Files' = files BY <1>1 DEF Files
<1>3. \A f \in Files' : fs'[f] = "original" BY <1>1, <1>2
<1> USE DEF AfterChoice, AfterClean, AfterSetup, AfterReboots, AfterEntry, AfterBusy, AfterScripts
<1>4. Kinds' /\ Dummies' BY <1>1, <1>2, <1>3 DEF Kinds, Dummies, Unread
<1>5. Kept' /\ Best' /\ Stilled' /\ GivenUpForCause' /\ StartFound'
  BY <1>1 DEF Kept, Best, Stilled, GivenUpForCause, StartFound
<1>6. TypeOK'
  <2>1. target = Nothing
    <3>1. Files = {} BY DEF Files
    <3> QED BY <3>1 DEF PrepInv, TypeOK
  <2>2. fs' \in [Files' -> {"original", "edited", "dummy", "renamed", "gone"}] BY <1>1, <1>2
  <2> QED BY <1>1, <2>1, <2>2 DEF PrepInv, TypeOK
<1> QED BY <1>4, <1>5, <1>6 DEF PrepInv

(* Before the choice of a root nothing is there to be missed.              *)
LEMMA EmptyStays ==
  ASSUME PrepInv, fs = << >>, Rest, UNCHANGED fs, broken' \in BOOLEAN, pc' \in Stopped \cup {"fact", "binwalk"}
  PROVE  PrepInv'
<1>1. Runnable = {} BY DEF Runnable, Named, Files
<1> QED BY <1>1, Stays DEF Rest

LEMMA ImageIsSeq ==
  ASSUME TypeOK PROVE IsFiniteSet(DOMAIN image) /\ DOMAIN image \in SUBSET Nat
<1>1. PICK n \in Nat : DOMAIN image = 1 .. n
  <2>1. Len(image) \in Nat /\ DOMAIN image = 1 .. Len(image) BY CasesAssumption DEF TypeOK, image
  <2> DEFINE m == Len(image)
  <2>2. m \in Nat /\ DOMAIN image = 1 .. m BY <2>1
  <2> HIDE DEF m
  <2> QED BY <2>2
<1>2. 1 \in Int /\ n \in Int OBVIOUS
<1>3. IsFiniteSet(1 .. n) BY <1>2, FS_Interval
<1>4. 1 .. n \in SUBSET Nat OBVIOUS
<1> QED BY <1>1, <1>3, <1>4

LEMMA RootsAreFinite ==
  ASSUME PrepInv, NEW r \in DOMAIN image
  PROVE  /\ IsFiniteSet(image[r].files) /\ \A f \in image[r].files : f.kind \in Kind
         /\ IsFiniteSet(Filled(r)) /\ \A f \in Filled(r) : f.kind \in Kind
<1>1. /\ IsFiniteSet(DOMAIN image)
      /\ \A o \in DOMAIN image : IsFiniteSet(image[o].files) /\ \A f \in image[o].files : f.kind \in Kind
  BY CasesAssumption, ImageIsSeq DEF PrepInv, TypeOK, image
<1> DEFINE all == UNION {image[o].files : o \in DOMAIN image}
           others == {f \in all : f.dir \in image[r].empty}
<1>2. IsFiniteSet(all)
  <2> DEFINE D == DOMAIN image
             sets == {image[o].files : o \in D}
             g == [o \in D |-> image[o].files]
  <2>1. IsFiniteSet(sets)
    <3>1. g \in Surjection(D, sets) BY DEF Surjection
    <3> HIDE DEF g, sets
    <3> QED BY <1>1, <3>1, FS_Surjection
  <2> QED BY <1>1, <2>1, FS_UNION
<1>3. IsFiniteSet(others) BY <1>2, FS_Subset
<1>4. IsFiniteSet(image[r].files \cup others) BY <1>1, <1>3, FS_Union
<1>5. Filled(r) = image[r].files \cup others BY DEF Filled
<1>6. \A f \in others : f.kind \in Kind BY <1>1
<1> HIDE DEF others
<1> QED BY <1>1, <1>4, <1>5, <1>6

LEMMA ExtractorKeeps ==
  ASSUME PrepInv, fs = << >>, NEW next \in Stopped \cup {"fact", "binwalk"}, Extractor(next) PROVE PrepInv'
<1>1. ASSUME NEW r \in DOMAIN image, Take(image[r].files) PROVE PrepInv' BY <1>1, RootsAreFinite, TakeKeeps
<1>2. ASSUME GiveUp \/ Raise PROVE PrepInv'
  <2>1. Rest /\ UNCHANGED fs /\ pc' \in Stopped /\ broken' = broken BY <1>2 DEF GiveUp, Raise, Leave, Stopped
  <2> QED BY <2>1, EmptyStays DEF PrepInv, TypeOK
<1>3. ASSUME pc' \in {next, "exit1"}, broken' = TRUE, Rest, UNCHANGED fs PROVE PrepInv'
  BY <1>3, EmptyStays DEF Stopped
<1> QED BY <1>1, <1>2, <1>3 DEF Extractor

LEMMA UnpackKeeps ==
  ASSUME PrepInv, KnownRoot \/ FirmaeExtractor \/ FactExtractor \/ Binwalk PROVE PrepInv'
<1>1. fs = << >> BY DEF PrepInv, Kinds, KnownRoot, FirmaeExtractor, FactExtractor, Binwalk
<1>2. CASE KnownRoot BY <1>1, <1>2, RootsAreFinite, TakeKeeps DEF KnownRoot
<1>3. CASE FirmaeExtractor \/ FactExtractor
  BY <1>1, <1>3, ExtractorKeeps DEF FirmaeExtractor, FactExtractor, Stopped
<1>4. CASE Binwalk
  <2>1. CASE GiveUp
    <3>1. Rest /\ UNCHANGED fs /\ pc' \in Stopped /\ broken' = broken BY <2>1 DEF GiveUp, Leave, Stopped
    <3> QED BY <1>1, <3>1, EmptyStays DEF PrepInv, TypeOK
  <2>2. CASE RootFound # {} /\ LET r == First(RootFound) IN Take(IF given.enhanced THEN Filled(r) ELSE image[r].files)
    <3> DEFINE r == First(RootFound)
    <3>1. r \in DOMAIN image
      <4>1. RootFound \subseteq DOMAIN image BY DEF RootFound, Servers, Plain, Anywhere
      <4>2. RootFound \in SUBSET Nat BY <4>1, ImageIsSeq DEF PrepInv
      <4>3. \E n \in RootFound : \A m \in RootFound : n <= m BY <2>2, <4>2, Least
      <4> QED BY <4>1, <4>3 DEF First
    <3> HIDE DEF r
    <3>2. Take(Filled(r)) \/ Take(image[r].files) BY <2>2 DEF r
    <3> QED BY <1>1, <3>1, <3>2, RootsAreFinite, TakeKeeps
  <2> QED BY <1>4, <2>1, <2>2 DEF Binwalk
<1> QED BY <1>2, <1>3, <1>4

LEMMA PrepStep ==
  ASSUME PrepInv, [Next \/ Terminated]_vars PROVE PrepInv'
<1>1. CASE Next
  BY <1>1, UnpackKeeps, ChooseKeeps, CleanKeeps, RecogniseKeeps, RebootsKeeps, LibrariesKeep, DefaultsKeep,
     IdentifyKeeps, FilesystemKeeps, PreprocessKeeps, BusyKeeps, ScriptsKeep DEF Next
<1>2. CASE Terminated \/ UNCHANGED vars
  <2>1. UNCHANGED vars BY <1>2 DEF Terminated
  <2>2. UNCHANGED <<pc, given, outside, fs, target, start, machine, broken>> BY <2>1 DEF vars
  <2>3. Files' = Files BY <2>2 DEF Files
  <2>4. /\ Candidates' = Candidates /\ Runnable' = Runnable /\ service' = service
        /\ \A f : (OutOfReach(f)' <=> OutOfReach(f)) /\ (InTheWay(f)' <=> InTheWay(f))
    BY <2>2, <2>3, SameFiles
  <2>5. TypeOK' BY <2>2, <2>3 DEF PrepInv, TypeOK
  <2>6. Kinds' /\ Dummies' BY <2>2, <2>3 DEF PrepInv, Kinds, Dummies
  <2>7. Kept' BY <2>2, <2>4 DEF PrepInv, Kept
  <2>8. Best' BY <2>2, <2>4 DEF PrepInv, Best
  <2>9. Stilled' BY <2>2, <2>3, <2>4 DEF PrepInv, Stilled, Standing
  <2>10. Unexpected' = Unexpected /\ Here' = Here
    <3>1. Here' = Here BY <2>2, <2>3 DEF Here, Exists, Standing
    <3> QED BY <2>2, <2>3, <3>1 DEF Unexpected, Shutdowns, Reboots, Reached, Unpacker, InBin, Exists, Standing
  <2>11. GivenUpForCause' BY <2>2, <2>4, <2>10 DEF PrepInv, GivenUpForCause
  <2>12. StartFound'
    <3>1. StartFound BY DEF PrepInv
    <3>2. Here' = Here /\ Files' = Files /\ fs' = fs /\ start' = start /\ pc' = pc BY <2>2, <2>3, <2>10
    <3> QED BY <3>1, <3>2 DEF StartFound
  <2> QED BY <2>5, <2>6, <2>7, <2>8, <2>9, <2>11, <2>12 DEF PrepInv
<1> QED BY <1>1, <1>2

(* TypeOK: every file of the copy has one of the fates that the passes     *)
(* give, and the target is one of the files.                               *)
THEOREM PreparationTyped == Spec => []TypeOK
<1>1. PrepInv => TypeOK BY DEF PrepInv
<1> QED BY <1>1, PrepStarts, PrepStep, PTL DEF Spec

(* TargetIntact: whatever the firmware holds, the passes that remove,      *)
(* rename and replace files hand the target over as it was chosen, on a    *)
(* machine of its own.                                                     *)
THEOREM TargetStaysIntact == Spec => []TargetIntact
<1>1. PrepInv => TargetIntact
  BY DEF PrepInv, Kept, TargetIntact, Suits, Arch, AfterChoice, AfterClean, AfterSetup, AfterReboots, AfterEntry, AfterBusy,
         AfterScripts
<1> QED BY <1>1, PrepStarts, PrepStep, PTL DEF Spec

(* Quiet: what restarts the machine, keeps it busy or is not a plain file  *)
(* is gone at the end, but for what the walks do not reach: the root       *)
(* folder, pages, dead links and what comes after a netconf.               *)
THEOREM NothingUnwanted == Spec => []Quiet
<1>1. PrepInv => Quiet
  BY DEF PrepInv, Stilled, Quiet, Unwanted, AfterClean, AfterSetup, AfterReboots, AfterEntry, AfterBusy, AfterScripts
<1> QED BY <1>1, PrepStarts, PrepStep, PTL DEF Spec

(* GivenUpForCause: a firmware that has a program to rehost is given up    *)
(* only if a tool failed, another candidate came in its way or a pass met  *)
(* what it does not expect.                                                *)
THEOREM GivenUpWithReason == Spec => []GivenUpForCause
<1>1. PrepInv => GivenUpForCause BY DEF PrepInv
<1> QED BY <1>1, PrepStarts, PrepStep, PTL DEF Spec

(* StartFound: the answer of EntryPoint starts every firmware with an init *)
(* that libmagic calls executable or an rc of its own, and with the script *)
(* and the arguments of the inittab whenever that was taken and edited.    *)
THEOREM StartIsRight == Spec => []StartFound
<1>1. PrepInv => StartFound BY DEF PrepInv
<1> QED BY <1>1, PrepStarts, PrepStep, PTL DEF Spec
-----------------------------------------------------------------------------
(* Greenhouse.                                                             *)

(* The target could get beyond i by a file, a key, a directory or an       *)
(* address only if an address before i has been settled.                   *)
AfterAnAddress(i) == \E j \in set : j < i /\ KindAt(j) = "address"
OnlyPatches(i) == KindAt(i) \in Provided \cup {"address"} => AfterAnAddress(i)
Copies(S) == \A i \in S : KindAt(i) \in Copied => i \in Gone \/ AfterAnAddress(i)

StopsThere == ghPc \in {"wait", "judge", "arrange"} => at = Stop
Ordered ==
  ~ patchOnly /\ ~ slipped =>
    /\ ghPc = "run" /\ mode = "patch" => OnlyPatches(Stop)
    /\ ghPc \in {"wait", "judge", "arrange", "patch"} /\ mode = "patch" => OnlyPatches(at)
    /\ ghPc \in {"run", "wait", "judge"} => Copies(seen)
    /\ ghPc = "arrange" => Copies(last)
    /\ ghPc \in {"arrange", "patch"} /\ mode = "patch" => Copies(seen)
    /\ ghPc = "arrange" /\ mode = "greenhouse" /\ KindAt(at) \in Seen => at \in seen
Modes ==
  /\ ghPc = "arrange" => ~ patchOnly
  /\ ghPc = "patch" /\ ~ patchOnly => mode = "patch"
Symptoms ==
  /\ ghPc \in {"wait", "judge", "arrange", "patch"} =>
       /\ KindAt(at) # "daemon"
       /\ KindAt(at) \in {"crash", "exit"} => exit # "none"
       /\ KindAt(at) = "loop" => Loops
  /\ ghPc \in {"judge", "arrange", "patch"} /\ Loops => timed \/ failed \/ heard
ServedOnce == good \/ success => KindAt(Stop) = "none"
Carried == running \subseteq patched
GhInv == GhTypeOK /\ Carried /\ StopsThere /\ Ordered /\ Modes /\ Symptoms /\ ServedOnce /\ GivesUpForCause


(* The target stops somewhere, and at an earlier place once more is gone   *)
(* it does not stop; where it stops as long as that is not gone it stays.  *)
LEMMA LeastOfPlaces ==
  ASSUME NEW n \in Nat, NEW B, n \in B, n > 0
  PROVE  \E i \in 1 .. n : i \in B /\ \A j \in 1 .. i - 1 : j \notin B
<1>1. PICK i \in B \cap (1 .. n) : \A m \in B \cap (1 .. n) : i <= m
  <2>1. B \cap (1 .. n) \in SUBSET Nat /\ n \in B \cap (1 .. n) OBVIOUS
  <2> QED BY <2>1, Least
<1>2. ASSUME NEW j \in 1 .. i - 1 PROVE j \notin B
  <2>1. j \in 1 .. n /\ ~ (i <= j) OBVIOUS
  <2> QED BY <1>1, <2>1
<1> QED BY <1>2

LEMMA StopIsFirst ==
  ASSUME firmware \in Seq(Obstacle)
  PROVE  Stop \in 1 .. Len(firmware) + 1 /\ Stops(Stop) /\ \A j \in 1 .. Stop - 1 : ~ Stops(j)
<1> DEFINE n == Len(firmware) + 1
           B == {i \in 1 .. n : Stops(i)}
<1>1. n \in Nat /\ n > 0 /\ n \in 1 .. n /\ n \notin Place BY DEF Place
<1>2. n \in B BY <1>1 DEF Stops
<1>3. \E i \in 1 .. n : i \in B /\ \A j \in 1 .. i - 1 : j \notin B
  <2> HIDE DEF B
  <2> QED BY <1>1, <1>2, LeastOfPlaces
<1>4. \E i \in 1 .. Len(firmware) + 1 : Stops(i) /\ \A j \in 1 .. i - 1 : ~ Stops(j)
  <2>1. ASSUME NEW i \in 1 .. n, NEW j \in 1 .. i - 1 PROVE j \in 1 .. n BY <1>1
  <2> QED BY <1>3, <2>1
<1> QED BY <1>4 DEF Stop

LEMMA StopMoves ==
  ASSUME firmware \in Seq(Obstacle), firmware' = firmware, Gone \subseteq Gone'
  PROVE  /\ Stop' \in 1 .. Len(firmware) + 1 /\ Stop \in 1 .. Len(firmware) + 1
         /\ Stop <= Stop'
         /\ Stop \notin Gone' \/ Stop \notin Place => Stop' = Stop
         /\ Stop' \in Place => Stop' \notin Gone'
<1>1. Stop \in 1 .. Len(firmware) + 1 /\ Stops(Stop) /\ \A j \in 1 .. Stop - 1 : ~ Stops(j) BY StopIsFirst
<1>2. Stop' \in 1 .. Len(firmware) + 1 /\ Stops(Stop)' /\ \A j \in 1 .. Stop' - 1 : ~ Stops(j)'
  <2> DEFINE n == Len(firmware) + 1
             B == {i \in 1 .. n : Stops(i)'}
  <2>1. n \in Nat /\ n > 0 /\ n \in 1 .. n /\ n \notin Place /\ Place' = Place BY DEF Place
  <2>2. n \in B BY <2>1 DEF Stops
  <2>3. \E i \in 1 .. n : i \in B /\ \A j \in 1 .. i - 1 : j \notin B
    <3> HIDE DEF B
    <3> QED BY <2>1, <2>2, LeastOfPlaces
  <2>4. \E i \in 1 .. Len(firmware) + 1 : Stops(i)' /\ \A j \in 1 .. i - 1 : ~ Stops(j)'
    <3>1. ASSUME NEW i \in 1 .. n, NEW j \in 1 .. i - 1 PROVE j \in 1 .. n BY <2>1
    <3> QED BY <2>3, <3>1
  <2> QED BY <2>4 DEF Stop
<1>3. Place' = Place BY DEF Place
<1>4. \A i \in 1 .. Len(firmware) + 1 : ~ Stops(i) => ~ Stops(i)' BY <1>3 DEF Stops
<1>5. Stop <= Stop'
  <2> SUFFICES ASSUME Stop' < Stop PROVE FALSE BY <1>1, <1>2
  <2>1. Stop' \in 1 .. Stop - 1 BY <1>1, <1>2
  <2>2. ~ Stops(Stop') BY <1>1, <2>1
  <2>3. ~ (Stop' \in Place => Stop' \notin Gone /\ firmware[Stop'] # "daemon") BY <2>2 DEF Stops
  <2>4. Stop' \in Place' => Stop' \notin Gone' /\ firmware'[Stop'] # "daemon" BY <1>2 DEF Stops
  <2> QED BY <1>3, <2>3, <2>4
<1>6. ASSUME Stop \notin Gone' \/ Stop \notin Place PROVE Stop' = Stop
  <2> SUFFICES ASSUME Stop < Stop' PROVE FALSE BY <1>1, <1>2, <1>5
  <2>0. Len(firmware) \in Nat /\ Stop \in 1 .. Len(firmware) + 1 /\ Stop' \in 1 .. Len(firmware) + 1
    BY <1>1, <1>2
  <2>1. Stop \in 1 .. Stop' - 1
    <3>1. \A m \in Nat : \A a, b \in 1 .. m + 1 : a < b => a \in 1 .. b - 1 OBVIOUS
    <3> QED BY <2>0, <3>1
  <2>2. ~ (Stop \in Place' => Stop \notin Gone' /\ firmware'[Stop] # "daemon") BY <1>2, <2>1 DEF Stops
  <2>3. Stop \in Place => firmware[Stop] # "daemon" BY <1>1 DEF Stops
  <2> QED BY <1>3, <1>6, <2>2, <2>3
<1>7. Stop' \in Place => Stop' \notin Gone' BY <1>2, <1>3 DEF Stops
<1> QED BY <1>1, <1>2, <1>5, <1>6, <1>7

LEMMA FirmwareIsSeq == GhTypeOK => firmware \in Seq(Obstacle) /\ Len(firmware) \in Nat
BY FirmwareAssumption DEF GhTypeOK

(* A step settles and copies, and takes nothing back.                      *)
LEMMA Grows ==
  ASSUME GhTypeOK, Carried, [GhNext \/ GhTerminated]_ghVars
  PROVE  /\ firmware' = firmware /\ patchOnly' = patchOnly /\ Place' = Place
         /\ set \subseteq set' /\ Gone \subseteq Gone' /\ Carried'
<1>1. firmware' = firmware /\ patchOnly' = patchOnly
  BY DEF GhNext, GhTerminated, ghVars, program, StartRound, OldEnds, WaitEnds, Answered, Stable, TimedOut, Interrupted,
         NoTrace, Wellformed, Malformed, Transplant, StopTrying, GoPatching, Patch, NoPatch
<1>2. set \subseteq set'
  BY DEF GhNext, GhTerminated, ghVars, StartRound, OldEnds, WaitEnds, Answered, Stable, TimedOut, Interrupted,
         NoTrace, Wellformed, Malformed, Transplant, StopTrying, GoPatching, Patch, NoPatch, Arranged
<1>3. there \subseteq there' /\ running \subseteq running' /\ Carried'
  <2>1. CASE Transplant
    <3>1. there \subseteq there' BY <2>1 DEF Transplant, Copy
    <3> QED BY <2>1, <3>1 DEF Transplant, Carried
  <2>2. CASE Patch
    <3>1. there' = there BY <2>2 DEF Patch
    <3>2. patched \subseteq patched' BY <2>2 DEF Patch, DaemonFork, OtherPatch
    <3>3. running' = patched' \/ running' = running BY <2>2 DEF Patch, CopyBinary
    <3> QED BY <3>1, <3>2, <3>3 DEF Carried
  <2>3. CASE ~ Transplant /\ ~ Patch
    <3>1. UNCHANGED copies
      BY <2>3 DEF GhNext, GhTerminated, ghVars, StartRound, OldEnds, WaitEnds, Answered, Stable, TimedOut, Interrupted,
         NoTrace, Wellformed, Malformed, StopTrying, GoPatching, NoPatch
    <3> QED BY <3>1 DEF copies, Carried
  <2> QED BY <2>1, <2>2, <2>3
<1> QED BY <1>1, <1>2, <1>3 DEF Gone, Place

LEMMA GhTypeKeeps ==
  ASSUME GhTypeOK, [GhNext \/ GhTerminated]_ghVars
  PROVE  GhTypeOK'
<1>1. Len(firmware) \in Nat /\ Stop \in 1 .. Len(firmware) + 1 BY FirmwareIsSeq, StopIsFirst
<1>2. Daemons(at) \subseteq Place BY DEF Daemons
<1>3. DOMAIN Code = {"crashes", "exits", "loops", "jams", "hangs", "listens", "serves"} /\ \A o \in DOMAIN Code : Code[o] \in {"none", "code", "error"}
  BY DEF Code
<1>4. CASE StartRound
  <2>1. Fate(Stop) \subseteq DOMAIN Code BY <1>3 DEF Fate
  <2>2. own' \in DOMAIN Code BY <1>4, <2>1 DEF StartRound
  <2>3. exit' \in {"none", "code", "error"} BY <1>4, <2>2, <1>3 DEF StartRound, Codes
  <2>4. at' \in 0 .. Len(firmware) + 1 BY <1>1, <1>4 DEF StartRound
  <2>5. count' \in 0 .. MaxCycles BY <1>4, CycleAssumption DEF StartRound, GhTypeOK
  <2>6. holder' \in {"none", "old", "own"} /\ good' \in BOOLEAN BY <1>4 DEF StartRound, RunTarget, GhTypeOK
  <2>7. mode' \in {"greenhouse", "patch"} BY <1>4 DEF StartRound, ModeAsked, GhTypeOK
  <2> QED BY <1>4, <2>2, <2>3, <2>4, <2>5, <2>6, <2>7 DEF StartRound, GhTypeOK, program, copies, mishaps, Place
<1>5. CASE OldEnds
  BY <1>5, <1>3 DEF OldEnds, GhTypeOK, program, copies, mishaps, Place
<1>6. CASE Answered \/ Stable \/ TimedOut \/ Interrupted
  BY <1>6, <1>3 DEF Answered, Stable, TimedOut, Interrupted, WaitEnds, GhTypeOK, program, copies, mishaps, Place, port
<1>7. CASE NoTrace \/ Wellformed
  BY <1>7, <1>3 DEF NoTrace, Wellformed, GhTypeOK, program, copies, mishaps, Place, port, round
<1>8. CASE Malformed
  <2>1. seen' \subseteq Place BY <1>8 DEF Malformed, Parsed
  <2> QED BY <1>8, <1>3, <2>1 DEF Malformed, GhTypeOK, program, copies, mishaps, Place, port, round
<1>9. CASE StopTrying \/ GoPatching
  <2>1. set' \subseteq Place
    <3>1. Settled \subseteq Place BY DEF Settled, KindAt
    <3> QED BY <1>9, <3>1 DEF StopTrying, GoPatching, Arranged, GhTypeOK
  <2> QED BY <1>9, <1>3, <2>1 DEF StopTrying, GoPatching, GhTypeOK, program, copies, mishaps, Place, port, round
<1>10. CASE Transplant
  <2>1. set' \subseteq Place
    <3>1. Settled \subseteq Place BY DEF Settled, KindAt
    <3> QED BY <1>10, <3>1 DEF Transplant, Arranged, GhTypeOK
  <2>2. made' \subseteq Place BY <1>10 DEF Transplant, Transplanted, GhTypeOK
  <2>3. there' \subseteq Place BY <1>10, <2>2 DEF Transplant, Copy, NewFiles, GhTypeOK
  <2>4. slipped' \in BOOLEAN BY <1>10 DEF Transplant, Copy, GhTypeOK
  <2>5. holder' \in {"none", "old", "own"} /\ good' \in BOOLEAN /\ hung' \in BOOLEAN BY <1>10 DEF Transplant, LeftOver, GhTypeOK
  <2>6. mode' \in {"greenhouse", "patch"} BY <1>10 DEF Transplant, GhTypeOK
  <2> QED BY <1>10, <1>3, <2>1, <2>2, <2>3, <2>4, <2>5, <2>6 DEF Transplant, GhTypeOK, program, Place, round
<1>11. CASE Patch
  <2>1. patched' \subseteq Place /\ missed' \in BOOLEAN BY <1>11, <1>2 DEF Patch, DaemonFork, OtherPatch, GhTypeOK
  <2>2. running' \subseteq Place /\ slipped' \in BOOLEAN BY <1>11, <2>1 DEF Patch, CopyBinary, GhTypeOK
  <2>3. holder' \in {"none", "old", "own"} /\ good' \in BOOLEAN /\ hung' \in BOOLEAN BY <1>11 DEF Patch, LeftOver, GhTypeOK
  <2>4. mode' \in {"greenhouse", "patch"} BY <1>11 DEF Patch, ModeAfterPatch, GhTypeOK
  <2> QED BY <1>11, <1>3, <2>1, <2>2, <2>3, <2>4 DEF Patch, GhTypeOK, program, Place, round
<1>12. CASE NoPatch
  BY <1>12, <1>3 DEF NoPatch, NoTrunk, Unpatched, GhTypeOK, program, copies, mishaps, Place, port, round
<1>13. CASE UNCHANGED ghVars
  BY <1>13, <1>3 DEF ghVars, GhTypeOK, program, copies, mishaps, Place, port, round
<1> QED BY <1>4, <1>5, <1>6, <1>7, <1>8, <1>9, <1>10, <1>11, <1>12, <1>13 DEF GhNext, GhTerminated

LEMMA StopsKeeps ==
  ASSUME GhTypeOK, StopsThere, [GhNext \/ GhTerminated]_ghVars
  PROVE  StopsThere'
<1>1. CASE StartRound
  <2>1. Stop' = Stop BY <1>1 DEF StartRound, Stop, Stops, Gone, Place, program, copies
  <2> QED BY <1>1, <2>1 DEF StartRound, StopsThere
<1>2. CASE OldEnds \/ Answered \/ Stable \/ TimedOut \/ Interrupted \/ Malformed \/ UNCHANGED ghVars
  <2>1. UNCHANGED <<firmware, there, running, set, at>>
    BY <1>2 DEF OldEnds, Answered, Stable, TimedOut, Interrupted, WaitEnds, Malformed, ghVars, program, copies, round
  <2>2. Stop' = Stop BY <2>1 DEF Stop, Stops, Gone, Place
  <2>3. ghPc' \in {"wait", "judge", "arrange"} => ghPc \in {"wait", "judge", "arrange"}
    BY <1>2 DEF OldEnds, Answered, Stable, TimedOut, Interrupted, WaitEnds, Malformed, ghVars
  <2> QED BY <2>1, <2>2, <2>3 DEF StopsThere
<1>3. CASE NoTrace \/ Wellformed \/ Transplant \/ StopTrying \/ GoPatching \/ Patch \/ NoPatch
  BY <1>3 DEF NoTrace, Wellformed, Transplant, StopTrying, GoPatching, Patch, NoPatch, StopsThere
<1> QED BY <1>1, <1>2, <1>3 DEF GhNext, GhTerminated

LEMMA ModesKeep ==
  ASSUME GhTypeOK, Modes, [GhNext \/ GhTerminated]_ghVars
  PROVE  Modes'
<1>1. ghPc' \in {"arrange", "patch"} => Malformed \/ GoPatching \/ UNCHANGED ghVars
  BY DEF GhNext, GhTerminated, StartRound, OldEnds, WaitEnds, Answered, Stable, TimedOut, Interrupted,
         NoTrace, Wellformed, Transplant, StopTrying, Patch, NoPatch
<1>2. CASE Malformed BY <1>2 DEF Malformed, Modes, program
<1>3. CASE GoPatching BY <1>3 DEF GoPatching, Modes, program
<1>4. CASE UNCHANGED ghVars BY <1>4 DEF ghVars, Modes, program
<1> QED BY <1>1, <1>2, <1>3, <1>4 DEF Modes

(* What the target does where it stops, in the exit code and the answer.   *)
LEMMA SymptomsKeep ==
  ASSUME GhTypeOK, Symptoms, [GhNext \/ GhTerminated]_ghVars
  PROVE  Symptoms'
<1>1. firmware \in Seq(Obstacle) /\ Stop \in 1 .. Len(firmware) + 1 /\ Stops(Stop) BY FirmwareIsSeq, StopIsFirst
<1>2. CASE StartRound
  <2>1. at' = Stop /\ KindAt(at)' = KindAt(Stop) BY <1>2 DEF StartRound, KindAt, Place, program
  <2>2. KindAt(Stop) # "daemon" BY <1>1 DEF Stops, KindAt
  <2>3. own' \in Fate(Stop) /\ exit' \in Codes(Stop, own') BY <1>2 DEF StartRound
  <2>4. KindAt(Stop) = "crash" => own' = "crashes" BY <2>3 DEF Fate
  <2>5. KindAt(Stop) = "exit" => own' = "exits" BY <2>3 DEF Fate
  <2>6. KindAt(Stop) = "loop" => Loops' BY <2>3 DEF Fate, Loops
  <2>7. own' = "crashes" => exit' # "none" BY <2>3 DEF Codes, Code
  <2>8. own' = "exits" => exit' # "none" BY <2>3 DEF Codes, Code
  <2> QED BY <1>2, <2>1, <2>2, <2>4, <2>5, <2>6, <2>7, <2>8 DEF StartRound, Symptoms
<1>3. CASE OldEnds
  <2>1. UNCHANGED <<ghPc, firmware, at, own, timed, heard, failed>> /\ ghPc = "wait"
    BY <1>3 DEF OldEnds, program, mishaps
  <2>2. KindAt(at)' = KindAt(at) BY <2>1 DEF KindAt, Place
  <2>3. exit' # "none" BY <1>3 DEF OldEnds
  <2> QED BY <2>1, <2>2, <2>3 DEF Symptoms, Loops
<1>4. CASE Answered \/ Stable \/ TimedOut \/ Interrupted
  <2>1. UNCHANGED <<firmware, at, own, exit>> /\ ghPc = "wait" /\ ghPc' = "judge"
    BY <1>4 DEF Answered, Stable, TimedOut, Interrupted, WaitEnds, program
  <2>2. KindAt(at)' = KindAt(at) BY <2>1 DEF KindAt, Place
  <2>3. Loops => timed' \/ failed' \/ heard'
    BY <1>4 DEF Answered, Stable, TimedOut, Interrupted
  <2>4. Loops' <=> Loops BY <2>1 DEF Loops
  <2> QED BY <2>1, <2>2, <2>3, <2>4 DEF Symptoms
<1>5. CASE Malformed \/ GoPatching
  <2>1. UNCHANGED <<firmware, at, own, exit, timed, heard, failed>> /\ ghPc \in {"judge", "arrange"}
        /\ ghPc' \in {"arrange", "patch"}
    BY <1>5 DEF Malformed, GoPatching, program, round, mishaps
  <2>2. KindAt(at)' = KindAt(at) BY <2>1 DEF KindAt, Place
  <2> QED BY <2>1, <2>2 DEF Symptoms, Loops
<1>6. CASE Transplant \/ Patch
  <2>1. ghPc' = "run" BY <1>6 DEF Transplant, Patch
  <2> QED BY <2>1 DEF Symptoms
<1>7. CASE NoTrace \/ Wellformed \/ StopTrying \/ NoPatch
  BY <1>7 DEF NoTrace, Wellformed, StopTrying, NoPatch, Symptoms
<1>8. CASE UNCHANGED ghVars
  BY <1>8 DEF ghVars, program, round, mishaps, Symptoms, Loops, KindAt, Place
<1> QED BY <1>2, <1>3, <1>4, <1>5, <1>6, <1>7, <1>8 DEF GhNext, GhTerminated

(* Once the target has served wellformed pages nothing stops it any more.  *)
LEMMA ServedKeeps ==
  ASSUME GhTypeOK, Carried, ServedOnce, StopsThere, [GhNext \/ GhTerminated]_ghVars
  PROVE  ServedOnce'
<1>1. firmware \in Seq(Obstacle) /\ Len(firmware) \in Nat BY FirmwareIsSeq
<1>2. firmware' = firmware /\ Place' = Place /\ Gone \subseteq Gone' BY Grows
<1>3. Stop \in 1 .. Len(firmware) + 1 /\ (Stop \notin Place => Stop' = Stop) BY <1>1, <1>2, StopMoves
<1>4. \A i : KindAt(i) = "none" => i \notin Place
  <2>1. \A i \in Place : firmware[i] \in Obstacle BY <1>1 DEF Place
  <2>2. "none" \notin Obstacle BY DEF Obstacle, Seen, Made, Copied, Relative
  <2> QED BY <2>1, <2>2 DEF KindAt
<1>5. KindAt(Stop) = "none" => KindAt(Stop)' = "none" BY <1>2, <1>3, <1>4 DEF KindAt
<1>6. CASE StartRound
  <2>1. good' => good \/ own' = "serves" BY <1>6 DEF StartRound, RunTarget, GhTypeOK
  <2>2. own' = "serves" => KindAt(Stop) = "none"
    <3>1. own' \in Fate(Stop) BY <1>6 DEF StartRound
    <3> QED BY <3>1 DEF Fate
  <2>3. success' = success BY <1>6 DEF StartRound
  <2> QED BY <1>5, <2>1, <2>2, <2>3 DEF ServedOnce
<1>7. CASE Wellformed
  <2>1. good /\ good' = good BY <1>7 DEF Wellformed, Good, port
  <2> QED BY <1>5, <2>1 DEF ServedOnce
<1>8. CASE ~ StartRound /\ ~ Wellformed
  <2>1. (good' => good) /\ success' = success
    BY <1>8 DEF GhNext, GhTerminated, ghVars, OldEnds, WaitEnds, Answered, Stable, TimedOut, Interrupted, LeftOver, port,
         NoTrace, Malformed, Transplant, StopTrying, GoPatching, Patch, NoPatch, GhTypeOK
  <2> QED BY <1>5, <2>1 DEF ServedOnce
<1> QED BY <1>6, <1>7, <1>8

LEMMA OrderedKeeps ==
  ASSUME GhTypeOK, Carried, StopsThere, Modes, Ordered, [GhNext \/ GhTerminated]_ghVars
  PROVE  Ordered'
<1>1. firmware \in Seq(Obstacle) /\ Len(firmware) \in Nat BY FirmwareIsSeq
<1>2. /\ firmware' = firmware /\ patchOnly' = patchOnly /\ Place' = Place
      /\ set \subseteq set' /\ Gone \subseteq Gone'
  BY Grows
<1>3. /\ Stop \in 1 .. Len(firmware) + 1 /\ Stop' \in 1 .. Len(firmware) + 1 /\ Stop <= Stop'
      /\ Stop \notin Gone' \/ Stop \notin Place => Stop' = Stop
      /\ Stop' \in Place => Stop' \notin Gone'
  BY <1>1, <1>2, StopMoves
<1>4. Stops(Stop) /\ \A j \in 1 .. Stop - 1 : ~ Stops(j) BY <1>1, StopIsFirst
<1>5. \A i : KindAt(i)' = KindAt(i) BY <1>2 DEF KindAt
<1>6. set \subseteq Place /\ \A i \in Place : i \in Nat BY DEF GhTypeOK, Place
<1>7. ASSUME NEW i, AfterAnAddress(i) PROVE AfterAnAddress(i)' BY <1>2, <1>5, <1>7 DEF AfterAnAddress
<1>8. ASSUME NEW S, Copies(S) PROVE Copies(S)' BY <1>2, <1>5, <1>7, <1>8 DEF Copies
<1> SUFFICES ASSUME ~ patchOnly', ~ slipped' PROVE Ordered' BY DEF Ordered
<1>9. ~ patchOnly /\ ~ slipped
  <2>1. slipped => slipped'
    BY DEF GhNext, GhTerminated, ghVars, StartRound, OldEnds, WaitEnds, Answered, Stable, TimedOut, Interrupted, mishaps,
         NoTrace, Wellformed, Malformed, Transplant, StopTrying, GoPatching, Patch, NoPatch, Copy, CopyBinary, NoTrunk, Unpatched
  <2> QED BY <1>2, <2>1
<1>10. CASE StartRound
  <2>1. UNCHANGED <<Gone, set, seen, mode>> /\ ghPc = "run" /\ ghPc' = "wait" /\ at' = Stop
    BY <1>9, <1>10 DEF StartRound, Gone, copies, ModeAsked
  <2>2. mode' = "patch" => OnlyPatches(at)'
    <3>1. mode = "patch" => OnlyPatches(Stop) BY <1>9, <2>1 DEF Ordered
    <3> QED BY <2>1, <1>2, <3>1 DEF OnlyPatches, AfterAnAddress, KindAt
  <2>3. Copies(seen)'
    <3>1. Copies(seen) BY <1>9, <2>1 DEF Ordered
    <3> QED BY <2>1, <1>2, <3>1 DEF Copies, AfterAnAddress, KindAt
  <2> QED BY <2>1, <2>2, <2>3 DEF Ordered
<1>11. CASE OldEnds \/ Answered \/ Stable \/ TimedOut \/ Interrupted
  <2>1. UNCHANGED <<Gone, set, seen, mode, at>> /\ ghPc = "wait" /\ ghPc' \in {"wait", "judge"}
    BY <1>11 DEF OldEnds, WaitEnds, Answered, Stable, TimedOut, Interrupted, Gone, copies
  <2>2. mode' = "patch" => OnlyPatches(at)'
    <3>1. mode = "patch" => OnlyPatches(at) BY <1>9, <2>1 DEF Ordered
    <3> QED BY <2>1, <1>2, <3>1 DEF OnlyPatches, AfterAnAddress, KindAt
  <2>3. Copies(seen)'
    <3>1. Copies(seen) BY <1>9, <2>1 DEF Ordered
    <3> QED BY <2>1, <1>2, <3>1 DEF Copies, AfterAnAddress, KindAt
  <2> QED BY <2>1, <2>2, <2>3 DEF Ordered
<1>12. CASE Malformed
  <2>1. UNCHANGED <<Gone, set, mode, at>> /\ ghPc = "judge" /\ ghPc' = "arrange" /\ seen' = Parsed /\ last' = seen
    BY <1>9, <1>12 DEF Malformed, Gone, copies, round
  <2>2. at = Stop BY <2>1 DEF StopsThere
  <2>3. mode = "patch" => OnlyPatches(at) BY <1>9, <2>1 DEF Ordered
  <2>4. mode' = "patch" => OnlyPatches(at)'
    BY <2>1, <2>3, <1>2 DEF OnlyPatches, AfterAnAddress, KindAt
  <2>5. Copies(last)'
    <3>1. Copies(seen) BY <1>9, <2>1 DEF Ordered
    <3> QED BY <2>1, <1>2, <3>1 DEF Copies, AfterAnAddress, KindAt
  <2>6. ASSUME mode' = "patch" PROVE Copies(seen)'
    <3>1. ASSUME NEW i \in Parsed PROVE i \in Gone \/ AfterAnAddress(i)
      <4>1. i \in Place /\ i <= at /\ firmware[i] = "key" BY <2>1, <2>6 DEF Parsed
      <4>2. CASE i = at
        <5>1. KindAt(at) = "key" BY <4>1, <4>2 DEF KindAt
        <5> QED BY <4>2, <5>1, <2>1, <2>3, <2>6 DEF OnlyPatches, Provided, Copied
      <4>3. CASE i # at
        <5>1. i \in 1 .. Stop - 1 BY <1>1, <1>3, <2>2, <4>1, <4>3 DEF Place
        <5> QED BY <1>4, <4>1, <5>1 DEF Stops
      <4> QED BY <4>2, <4>3
    <3>2. \A i \in Parsed : i \in Gone \/ AfterAnAddress(i) BY <3>1
    <3> QED BY <2>1, <1>2, <3>2 DEF Copies, AfterAnAddress, KindAt
  <2>7. mode' = "greenhouse" /\ (KindAt(at) \in Seen)' => (at \in seen)'
    BY <2>1, <1>2 DEF Parsed, KindAt, Seen, Made, Copied, Relative
  <2> QED BY <2>1, <2>4, <2>5, <2>6, <2>7 DEF Ordered
<1>13. CASE GoPatching
  <2>1. UNCHANGED <<seen, mode, at>> /\ ghPc = "arrange" /\ ghPc' = "patch"
    BY <1>13 DEF GoPatching, round
  <2>2. mode = "patch" => OnlyPatches(at) /\ Copies(seen) BY <1>9, <2>1 DEF Ordered
  <2>3. mode' = "patch" => OnlyPatches(at)' BY <2>1, <2>2, <1>2 DEF OnlyPatches, AfterAnAddress, KindAt
  <2>4. mode' = "patch" => Copies(seen)' BY <2>1, <2>2, <1>2 DEF Copies, AfterAnAddress, KindAt
  <2> QED BY <2>1, <2>3, <2>4 DEF Ordered
<1>14. CASE Transplant
  <2>1. /\ ghPc = "arrange" /\ ghPc' = "run" /\ mode = "greenhouse" /\ seen' = seen /\ running' = running
        /\ set' = set \cup Settled /\ made' = made \cup {i \in seen : KindAt(i) \in Made}
        /\ mode' = "patch" => Exhausted
    BY <1>14 DEF Transplant, Arranged, Transplanted
  <2>2. NewFiles(made') \subseteq there' /\ there' \subseteq there \cup NewFiles(made')
    BY <1>9, <1>14 DEF Transplant, Copy
  <2>3. at = Stop BY <2>1 DEF StopsThere
  <2>4. Copies(seen)'
    <3>1. \A i \in seen : KindAt(i) \in Copied => i \in there' BY <2>1, <2>2 DEF NewFiles, Made
    <3> QED BY <2>1, <3>1, <1>2 DEF Copies, KindAt, Gone
  <2>5. ASSUME mode' = "patch", KindAt(Stop') \in Provided \cup {"address"}
        PROVE  \E j \in set' : j < Stop' /\ KindAt(j) = "address"
    <3>1. CASE AfterAnAddress(Stop)
      <4>1. PICK j \in set : j < Stop /\ KindAt(j) = "address" BY <3>1 DEF AfterAnAddress
      <4>2. j \in Nat BY <1>6
      <4>3. j < Stop' BY <1>1, <1>3, <4>1, <4>2
      <4> QED BY <1>2, <4>1, <4>3
    <3>2. CASE KindAt(Stop) = "address"
      <4>1. Stop \in Place BY <3>2 DEF KindAt
      <4>2. Stop \in set' BY <2>1, <2>3, <3>2 DEF Settled
      <4>3. Stop \in Gone' BY <4>2 DEF Gone
      <4>4. Stop' # Stop BY <1>3, <4>1, <4>3
      <4>5. Stop < Stop' BY <1>1, <1>3, <4>4
      <4> QED BY <3>2, <4>2, <4>5
    <3>3. CASE ~ AfterAnAddress(Stop) /\ KindAt(Stop) # "address"
      <4>1. Stop \in Place => Stop \notin Gone BY <1>4 DEF Stops
      <4>2. KindAt(Stop) \in Seen => Stop \in seen BY <1>9, <2>1, <2>3 DEF Ordered
      <4>3. ~ Changed /\ (seen = {} \/ seen = last) BY <2>1, <2>5 DEF Exhausted, Unchanged
      <4>4. KindAt(Stop) \notin Copied
        <5> SUFFICES ASSUME KindAt(Stop) \in Copied PROVE FALSE OBVIOUS
        <5>1. Stop \in last BY <4>2, <4>3 DEF Seen, Made
        <5>2. Copies(last) BY <1>9, <2>1 DEF Ordered
        <5>3. Stop \in Gone BY <3>3, <5>1, <5>2 DEF Copies
        <5>4. Stop \in Place BY DEF KindAt, Copied
        <5> QED BY <4>1, <5>3, <5>4
      <4>5. KindAt(Stop) # "cwd"
        <5> SUFFICES ASSUME KindAt(Stop) = "cwd" PROVE FALSE OBVIOUS
        <5>1. Stop \in seen BY <4>2 DEF Seen, Relative
        <5> QED BY <4>3, <5>1 DEF Changed, Relative
      <4>6. Stop \notin Gone' \/ Stop \notin Place
        <5> SUFFICES ASSUME Stop \in Place PROVE Stop \notin Gone' OBVIOUS
        <5>1. Stop \notin NewFiles(made') BY <4>4 DEF NewFiles
        <5>2. Stop \notin Settled BY <2>3, <3>3, <4>5 DEF Settled
        <5> QED BY <2>1, <2>2, <4>1, <5>1, <5>2 DEF Gone
      <4>7. Stop' = Stop BY <1>3, <4>6
      <4> QED BY <2>5, <3>3, <4>4, <4>5, <4>7 DEF Provided
    <3> QED BY <3>1, <3>2, <3>3
  <2>6. mode' = "patch" => OnlyPatches(Stop)' BY <1>2, <2>5 DEF OnlyPatches, AfterAnAddress, KindAt
  <2> QED BY <2>1, <2>4, <2>6 DEF Ordered
<1>15. CASE Patch
  <2>1. ghPc = "patch" /\ ghPc' = "run" /\ seen' = seen /\ mode' = "greenhouse"
    BY <1>9, <1>15 DEF Patch, ModeAfterPatch
  <2>2. Copies(seen) BY <1>9, <2>1 DEF Modes, Ordered
  <2>3. Copies(seen)' BY <2>1, <2>2, <1>2 DEF Copies, AfterAnAddress, KindAt
  <2> QED BY <2>1, <2>3 DEF Ordered
<1>16. CASE NoTrace \/ Wellformed \/ StopTrying \/ NoPatch
  BY <1>16 DEF NoTrace, Wellformed, StopTrying, NoPatch, Ordered
<1>17. CASE UNCHANGED ghVars
  BY <1>17 DEF ghVars, program, copies, port, round, mishaps, Ordered, OnlyPatches, AfterAnAddress, Copies, Stop, Stops,
               Gone, KindAt, Place
<1> QED BY <1>10, <1>11, <1>12, <1>13, <1>14, <1>15, <1>16, <1>17 DEF GhNext, GhTerminated

(* When the loop has ended there was a cause.                              *)
LEMMA CauseKeeps ==
  ASSUME GhTypeOK, Modes, Ordered, Symptoms, GivesUpForCause, [GhNext \/ GhTerminated]_ghVars
  PROVE  GivesUpForCause'
<1>1. firmware \in Seq(Obstacle) /\ (at \in Place => firmware[at] \in Obstacle) BY FirmwareIsSeq DEF Place
<1>2. KindAt(at) \in Obstacle \cup {"none"} BY <1>1 DEF KindAt
<1>3. CASE NoTrace BY <1>3 DEF NoTrace, GivesUpForCause, mishaps
<1>4. CASE Wellformed BY <1>4 DEF Wellformed, GivesUpForCause
<1>5. CASE StopTrying
  <2>1. count \in 0 .. MaxCycles /\ count >= MaxCycles BY <1>5 DEF StopTrying, MaxCyclesReached, GhTypeOK
  <2>2. count = MaxCycles BY <2>1, CycleAssumption
  <2> QED BY <1>5, <2>2 DEF StopTrying, GivesUpForCause, Modes, program
<1>6. CASE NoPatch /\ NoTrunk BY <1>6 DEF NoPatch, NoTrunk, GivesUpForCause
<1>7. CASE NoPatch /\ Unpatched
  <2>1. UNCHANGED <<patchOnly, firmware, set, failed, missed, slipped, heard, timed, exit, at>> /\ ghPc = "patch"
    BY <1>7 DEF NoPatch, Unpatched, mishaps, program, round
  <2>2. ~ (Diagnosed /\ KindAt(at) \in {"crash", "exit", "loop"}) BY <1>7 DEF Unpatched
  <2>3. KindAt(at)' = KindAt(at) BY <2>1 DEF KindAt, Place
  <2>4. AfterAddress' <=> AfterAddress BY <2>1 DEF AfterAddress, KindAt, Place
  <2>5. BeyondPatch' <=> BeyondPatch BY <2>1 DEF BeyondPatch, KindAt, Place
  <2>6. failed \/ missed \/ slipped \/ BeyondPatch \/ CutShort \/ KindAt(at) = "none" \/ AfterAddress
    <3>1. CASE KindAt(at) \in Seen \cup {"address"} /\ patchOnly BY <3>1 DEF BeyondPatch
    <3>2. CASE KindAt(at) \in {"place", "adrift", "stuck", "dead", "none"} BY <3>2 DEF BeyondPatch
    <3>3. CASE KindAt(at) \in Provided \cup {"address"} /\ ~ patchOnly
      <4>1. ~ slipped => OnlyPatches(at) BY <2>1, <3>3 DEF Ordered, Modes
      <4> QED BY <3>3, <4>1 DEF OnlyPatches, AfterAnAddress, AfterAddress
    <3>4. CASE KindAt(at) \in {"crash", "exit"}
      <4>1. exit # "none" BY <2>1, <3>4 DEF Symptoms
      <4> QED BY <2>2, <3>4, <4>1 DEF Diagnosed, PrematureExit, WaitLoop
    <3>5. CASE KindAt(at) = "loop"
      <4>1. timed \/ failed \/ heard BY <2>1, <3>5 DEF Symptoms
      <4>2. ~ timed /\ exit = "none" BY <2>2, <3>5 DEF Diagnosed, WaitLoop, PrematureExit
      <4> QED BY <3>5, <4>1, <4>2 DEF CutShort
    <3>6. KindAt(at) # "daemon" BY <2>1 DEF Symptoms
    <3> QED BY <1>2, <3>1, <3>2, <3>3, <3>4, <3>5, <3>6 DEF Obstacle, Seen, Made, Copied, Relative, Provided
  <2>7. CutShort' <=> CutShort BY <2>1, <2>3 DEF CutShort
  <2> QED BY <2>1, <2>3, <2>4, <2>5, <2>6, <2>7 DEF GivesUpForCause
<1>8. CASE UNCHANGED ghVars
  BY <1>8 DEF ghVars, program, copies, port, round, mishaps, GivesUpForCause, BeyondPatch, CutShort, AfterAddress, KindAt, Place
<1>9. CASE StartRound \/ OldEnds \/ Answered \/ Stable \/ TimedOut \/ Interrupted \/ Malformed \/ Transplant \/ GoPatching \/ Patch
  BY <1>9 DEF StartRound, OldEnds, WaitEnds, Answered, Stable, TimedOut, Interrupted, Malformed, Transplant, GoPatching, Patch,
              GivesUpForCause
<1> QED BY <1>3, <1>4, <1>5, <1>6, <1>7, <1>8, <1>9 DEF GhNext, GhTerminated, NoPatch

LEMMA GhStarts == GhInit => GhInv
<1> SUFFICES ASSUME GhInit PROVE GhInv OBVIOUS
<1>1. GhTypeOK
  <2>1. firmware \in Seq(Obstacle) /\ Len(firmware) \in Nat BY FirmwareAssumption DEF GhInit
  <2>2. Prepared \subseteq Place BY DEF Prepared
  <2>3. count \in 0 .. MaxCycles /\ at \in 0 .. Len(firmware) + 1 BY <2>1, CycleAssumption DEF GhInit
  <2>4. {made, patched, there, running, set, seen, last} \subseteq SUBSET Place BY <2>2 DEF GhInit
  <2>5. {patchOnly, timed, heard, good, hung, failed, slipped, missed, success} \subseteq BOOLEAN BY DEF GhInit
  <2> QED BY <2>3, <2>4, <2>5 DEF GhInit, GhTypeOK, LeftByFirmwell
<1>2. StopsThere /\ Modes /\ Carried /\ ServedOnce /\ GivesUpForCause
  BY DEF GhInit, StopsThere, Modes, Carried, ServedOnce, GivesUpForCause
<1>3. Ordered BY DEF GhInit, Ordered, Copies
<1>4. Symptoms BY DEF GhInit, Symptoms, LeftByFirmwell
<1> QED BY <1>1, <1>2, <1>3, <1>4 DEF GhInv

LEMMA GhStep == GhInv /\ [GhNext \/ GhTerminated]_ghVars => GhInv'
BY Grows, GhTypeKeeps, StopsKeeps, ModesKeep, SymptomsKeep, ServedKeeps, OrderedKeeps, CauseKeeps DEF GhInv

THEOREM GreenhouseTyped == GhSpec => []GhTypeOK
<1>1. GhInv => GhTypeOK BY DEF GhInv
<1> QED BY GhStarts, GhStep, <1>1, PTL DEF GhSpec

THEOREM PatchesComeLast == GhSpec => []PatchIsLast
<1>1. GhInv => PatchIsLast
  BY DEF GhInv, Ordered, Modes, OnlyPatches, AfterAnAddress, AfterAddress, PatchIsLast
<1> QED BY GhStarts, GhStep, <1>1, PTL DEF GhSpec

THEOREM SuccessLasts == GhSpec => []SuccessRunsAgain
<1>1. GhInv => SuccessRunsAgain BY DEF GhInv, ServedOnce, SuccessRunsAgain
<1> QED BY GhStarts, GhStep, <1>1, PTL DEF GhSpec

THEOREM GivenUpWithCause == GhSpec => []GivesUpForCause
<1>1. GhInv => GivesUpForCause BY DEF GhInv
<1> QED BY GhStarts, GhStep, <1>1, PTL DEF GhSpec
-----------------------------------------------------------------------------
(* Processes.                                                              *)

ChildOf(parents) == [name : ProcNames, parent : parents, kid : ProcNames, watch : BOOLEAN]

(* A table of processes: finite, process 1 is the init binary, and every   *)
(* other is the child of one in the table.                                 *)
IsTree(t) ==
  /\ 1 \in DOMAIN t /\ DOMAIN t \subseteq Nat \ {0} /\ IsFiniteSet(DOMAIN t)
  /\ t[1] = Proc(InitBinary, 0, None, FALSE)
  /\ \A p \in DOMAIN t :
       t[p] \in ChildOf({0} \cup (DOMAIN t \ {p}))

LEMMA NewPidIsNew ==
  ASSUME NEW t, IsTree(t)
  PROVE  NewPid(t) \in Nat /\ NewPid(t) > 1 /\ \A q \in DOMAIN t : q < NewPid(t)
<1> DEFINE S == DOMAIN t
<1>1. S \in SUBSET Nat /\ IsFiniteSet(S) /\ S # {} /\ 1 \in S BY DEF IsTree
<1> HIDE DEF S
<1>2. Max(S) \in S /\ \A m \in S : Max(S) >= m BY <1>1, Greatest DEF Max
<1>3. Max(S) \in Nat /\ \A m \in S : m \in Nat BY <1>1, <1>2
<1>4. NewPid(t) = 1 + Max(S) BY DEF NewPid, S
<1>5. Max(S) >= 1 BY <1>1, <1>2
<1>6. \A q \in S : q < 1 + Max(S) BY <1>2, <1>3
<1> QED BY <1>3, <1>4, <1>5, <1>6 DEF S

SameNames(t, k) == \A p \in DOMAIN k : k[p].name = t[p].name /\ k[p].kid = t[p].kid

(* Who survives a kill keeps everything but perhaps the parent.            *)
LEMMA KilledTree ==
  ASSUME NEW t, IsTree(t), NEW dead, NEW k, k = Killed(t, dead)
  PROVE  /\ IsTree(k) /\ DOMAIN k = DOMAIN t \ (dead \ {1})
         /\ SameNames(t, k)
<1> DEFINE left == DOMAIN t \ (dead \ {1})
<1>1. k = [p \in left |-> IF t[p].parent \in left \cup {0} THEN t[p] ELSE [t[p] EXCEPT !.parent = 1]]
  BY DEF Killed
<1>2. DOMAIN k = left /\ 1 \in left /\ left \subseteq DOMAIN t /\ left \subseteq Nat BY <1>1 DEF IsTree
<1>3. IsFiniteSet(left) BY <1>2, FS_Subset DEF IsTree
<1>4. \A p \in left : t[p] \in ChildOf({0} \cup (DOMAIN t \ {p}))
  BY DEF IsTree
<1>5. t[1].parent = 0 BY DEF IsTree, Proc
<1>6. k[1] = t[1] BY <1>1, <1>2, <1>5
<1>7. ASSUME NEW p \in left
      PROVE  /\ k[p] \in ChildOf({0} \cup (left \ {p}))
             /\ k[p].name = t[p].name /\ k[p].kid = t[p].kid
  <2>1. CASE t[p].parent \in left \cup {0}
    <3>1. k[p] = t[p] BY <1>1, <2>1
    <3> QED BY <1>4, <2>1, <3>1 DEF ChildOf
  <2>2. CASE t[p].parent \notin left \cup {0}
    <3>1. k[p] = [t[p] EXCEPT !.parent = 1] BY <1>1, <2>2
    <3>2. p # 1 BY <1>5, <2>2
    <3> QED BY <1>2, <1>4, <3>1, <3>2 DEF ChildOf
  <2> QED BY <2>1, <2>2
<1> HIDE DEF left
<1>8. IsTree(k) BY <1>2, <1>3, <1>6, <1>7 DEF IsTree
<1> QED BY <1>2, <1>7, <1>8 DEF left, SameNames

(* A process that is started, and one that is started with a child.        *)
LEMMA StartedTree ==
  ASSUME NEW t, IsTree(t), NEW proc \in ChildOf(DOMAIN t), NEW u, u = Started(t, proc)
  PROVE  /\ IsTree(u) /\ DOMAIN t \subseteq DOMAIN u /\ NewPid(t) \in DOMAIN u \ DOMAIN t
         /\ u[NewPid(t)] = proc /\ \A q \in DOMAIN t : u[q] = t[q]
         /\ \A q \in DOMAIN u \ DOMAIN t : u[q] = proc
<1> DEFINE p == NewPid(t)
<1>1. p \in Nat \ {0} /\ p \notin DOMAIN t
  <2>1. \A q \in DOMAIN t : q \in Nat BY DEF IsTree
  <2>2. p \in Nat /\ p > 1 /\ \A q \in DOMAIN t : q < p BY NewPidIsNew
  <2> HIDE DEF p
  <2> QED BY <2>1, <2>2
<1>2. u = [q \in DOMAIN t \cup {p} |-> IF q \in DOMAIN t THEN t[q] ELSE proc] BY DEF Started
<1> HIDE DEF p
<1>3. DOMAIN u = DOMAIN t \cup {p} /\ u[p] = proc /\ \A q \in DOMAIN t : u[q] = t[q] BY <1>1, <1>2
<1>4. IsFiniteSet(DOMAIN u) BY <1>3, FS_AddElement DEF IsTree
<1>5. \A q \in DOMAIN u : u[q] \in ChildOf({0} \cup (DOMAIN u \ {q}))
  BY <1>1, <1>3 DEF IsTree, ChildOf
<1>6. IsTree(u) BY <1>1, <1>3, <1>4, <1>5 DEF IsTree
<1> QED BY <1>1, <1>3, <1>6 DEF p

LEMMA StartedWithTree ==
  ASSUME NEW t, IsTree(t), NEW proc \in ChildOf(DOMAIN t), NEW child \in ProcNames,
         NEW u, u = StartedWith(t, proc, child)
  PROVE  /\ IsTree(u) /\ DOMAIN t \subseteq DOMAIN u /\ \A q \in DOMAIN t : u[q] = t[q]
         /\ \A q \in DOMAIN u \ DOMAIN t : u[q] = proc \/ (u[q].name = child /\ u[q].kid = None)
<1> DEFINE v == Started(t, proc)
           sub == Proc(child, NewPid(t), None, FALSE)
<1>1. u = Started(v, sub) BY DEF StartedWith
<1>2. sub.name = child /\ sub.kid = None BY DEF Proc
<1>3. None \in ProcNames BY DEF IsTree, Proc, ChildOf
<1>4. \A ps : NewPid(t) \in ps => sub \in ChildOf(ps) BY <1>3 DEF Proc, ChildOf
<1> HIDE DEF v, sub
<1>5. /\ IsTree(v) /\ DOMAIN t \subseteq DOMAIN v /\ NewPid(t) \in DOMAIN v
      /\ (\A q \in DOMAIN t : v[q] = t[q]) /\ \A q \in DOMAIN v \ DOMAIN t : v[q] = proc
  BY StartedTree DEF v
<1>6. sub \in ChildOf(DOMAIN v) BY <1>4, <1>5
<1>7. /\ IsTree(u) /\ DOMAIN v \subseteq DOMAIN u
      /\ (\A q \in DOMAIN v : u[q] = v[q]) /\ \A q \in DOMAIN u \ DOMAIN v : u[q] = sub
  BY <1>1, <1>5, <1>6, StartedTree
<1> QED BY <1>2, <1>5, <1>7

(* The script has one command that has the target, its last; it is the     *)
(* only process of its name, and gone when it has passed that command.     *)
BootRight ==
  /\ Len(boot) \in 1 .. MaxCommands + 1 /\ DOMAIN boot = 1 .. Len(boot)
  /\ \A i \in 1 .. Len(boot) - 1 : boot[i] \in Blocker
  /\ boot[Len(boot)] \in LastCommand
HasTarget(proc) == proc.name = Target \/ proc.kid = Target
Scripted ==
  /\ \A p \in DOMAIN procs : (procs[p].name = Script => p = 2) /\ procs[p].kid # Script
  /\ step \in 0 .. Len(boot) + 1 /\ (Alive(procs, Script) => step <= Len(boot))
  /\ procPc # "end" => \A p \in DOMAIN procs : HasTarget(procs[p]) => step >= Len(boot)
PInv == ProcTypeOK /\ IsTree(procs) /\ BootRight /\ Scripted /\ (procPc = "wait" => rounds < Rounds)

(* What a command of the script starts has the target only if it is the    *)
(* last.                                                                   *)
LEMMA CommandTree ==
  ASSUME IsTree(procs), NEW i \in 1 .. MaxCommands + 1, ScriptPid \in DOMAIN procs,
         NEW kind \in Blocker \cup {"target", "watched"}, NEW u, u = Command(i, kind)
  PROVE  /\ IsTree(u) /\ DOMAIN procs \subseteq DOMAIN u
         /\ \A q \in DOMAIN procs : u[q] = procs[q]
         /\ \A q \in DOMAIN u \ DOMAIN procs :
              /\ u[q].name # Script /\ u[q].kid # Script
              /\ kind \in Blocker => ~HasTarget(u[q])
<1> DEFINE top == Proc(<<i, "command">>, ScriptPid,
                         IF kind = "alone" THEN None ELSE Kid(i, kind), kind = "watches")
           dog == Proc(<<i, "kid">>, ScriptPid, Target, TRUE)
           it == Proc(Target, ScriptPid, None, FALSE)
<1>1. i \in 0 .. MaxCommands + 1 /\ 0 \in 0 .. MaxCommands + 1 BY BootAssumption
<1>2. /\ Kid(i, kind) \in ProcNames /\ None \in ProcNames /\ Target \in ProcNames
      /\ <<i, "command">> \in ProcNames /\ <<i, "kid">> \in ProcNames
  BY <1>1 DEF Kid, None, Target, ProcNames
<1>3. Kid(i, kind) # Script /\ Kid(i, kind) # Target
  BY DEF Kid, Script, Target
<1>4. /\ None # Script /\ None # Target /\ Target # Script
      /\ <<i, "command">> # Script /\ <<i, "command">> # Target
      /\ <<i, "kid">> # Script /\ <<i, "kid">> # Target
  BY DEF Script, Target, None
<1>5. top \in ChildOf(DOMAIN procs) /\ dog \in ChildOf(DOMAIN procs) /\ it \in ChildOf(DOMAIN procs)
  BY <1>2 DEF Proc, ChildOf
<1>6. /\ top.name = <<i, "command">> /\ top.kid = IF kind = "alone" THEN None ELSE Kid(i, kind)
      /\ dog.name = <<i, "kid">> /\ dog.kid = Target
      /\ it.name = Target /\ it.kid = None
  BY DEF Proc
<1>7. "target" \notin Blocker /\ "watched" \notin Blocker /\ "alone" \in Blocker BY DEF Blocker
<1>8. u = IF kind \in Blocker
          THEN IF kind = "alone" THEN Started(procs, top) ELSE StartedWith(procs, top, Kid(i, kind))
          ELSE IF kind = "target" THEN Started(procs, it) ELSE StartedWith(procs, dog, Target)
  BY DEF Command
<1> HIDE DEF top, dog, it
<1>9. CASE kind = "alone"
  <2>1. u = Started(procs, top) BY <1>7, <1>8, <1>9
  <2>2. /\ IsTree(u) /\ DOMAIN procs \subseteq DOMAIN u /\ \A q \in DOMAIN procs : u[q] = procs[q]
        /\ \A q \in DOMAIN u \ DOMAIN procs : u[q] = top
    BY <1>5, <2>1, StartedTree
  <2> QED BY <1>4, <1>6, <1>9, <2>2 DEF HasTarget
<1>10. CASE kind \in Blocker /\ kind # "alone"
  <2>1. u = StartedWith(procs, top, Kid(i, kind)) BY <1>8, <1>10
  <2>2. /\ IsTree(u) /\ DOMAIN procs \subseteq DOMAIN u /\ \A q \in DOMAIN procs : u[q] = procs[q]
        /\ \A q \in DOMAIN u \ DOMAIN procs : u[q] = top \/ (u[q].name = Kid(i, kind) /\ u[q].kid = None)
    BY <1>2, <1>5, <2>1, StartedWithTree
  <2> QED BY <1>3, <1>4, <1>6, <1>10, <2>2 DEF HasTarget
<1>11. CASE kind = "target"
  <2>1. u = Started(procs, it) BY <1>7, <1>8, <1>11
  <2>2. /\ IsTree(u) /\ DOMAIN procs \subseteq DOMAIN u /\ \A q \in DOMAIN procs : u[q] = procs[q]
        /\ \A q \in DOMAIN u \ DOMAIN procs : u[q] = it
    BY <1>5, <2>1, StartedTree
  <2> QED BY <1>4, <1>6, <1>7, <1>11, <2>2
<1>12. CASE kind = "watched"
  <2>1. u = StartedWith(procs, dog, Target) BY <1>7, <1>8, <1>12
  <2>2. /\ IsTree(u) /\ DOMAIN procs \subseteq DOMAIN u /\ \A q \in DOMAIN procs : u[q] = procs[q]
        /\ \A q \in DOMAIN u \ DOMAIN procs : u[q] = dog \/ (u[q].name = Target /\ u[q].kid = None)
    BY <1>2, <1>5, <2>1, StartedWithTree
  <2> QED BY <1>4, <1>6, <1>7, <1>12, <2>2
<1> QED BY <1>9, <1>10, <1>11, <1>12

LEMMA PInit == ProcInit => PInv
<1> SUFFICES ASSUME ProcInit PROVE PInv OBVIOUS
<1>1. 0 \in 0 .. MaxCommands + 1 BY BootAssumption
<1>2. InitBinary \in ProcNames /\ Script \in ProcNames /\ None \in ProcNames
  BY <1>1 DEF InitBinary, Script, None, ProcNames
<1>3. IsTree(procs) /\ DOMAIN procs = {1, 2} /\ procs[2] = Proc(Script, 1, None, FALSE)
  <2>1. procs = [p \in 1 .. 2 |-> IF p = 1 THEN Proc(InitBinary, 0, None, FALSE)
                                             ELSE Proc(Script, 1, None, FALSE)]
    BY DEF ProcInit
  <2>2. 1 .. 2 = {1, 2} OBVIOUS
  <2>3. /\ DOMAIN procs = {1, 2} /\ procs[1] = Proc(InitBinary, 0, None, FALSE)
        /\ procs[2] = Proc(Script, 1, None, FALSE)
    BY <2>1, <2>2
  <2>4. IsFiniteSet({1, 2})
    <3>1. IsFiniteSet({1}) /\ {1, 2} = {1} \cup {2} BY FS_Singleton
    <3> QED BY <3>1, FS_AddElement
  <2>5. procs[1] \in ChildOf({0} \cup (DOMAIN procs \ {1})) BY <1>2, <2>3 DEF ChildOf, Proc
  <2>6. procs[2] \in ChildOf({0} \cup (DOMAIN procs \ {2})) BY <1>2, <2>3 DEF ChildOf, Proc
  <2>7. {1, 2} \subseteq Nat OBVIOUS
  <2>8. \A p \in {1, 2} : procs[p] \in ChildOf({0} \cup (DOMAIN procs \ {p})) BY <2>5, <2>6
  <2> QED BY <2>3, <2>4, <2>7, <2>8 DEF IsTree
<1>4. BootRight
  <2>1. PICK n \in 0 .. MaxCommands : \E b \in [1 .. n -> Blocker], c \in LastCommand : boot = Append(b, c)
    <3>1. \A n : n \in 0 .. MaxSlow => n \in 0 .. MaxCommands BY BootAssumption
    <3> QED BY <3>1 DEF ProcInit
  <2>2. PICK b \in [1 .. n -> Blocker], c \in LastCommand : boot = Append(b, c) BY <2>1
  <2>3. n \in Nat /\ n + 1 \in 1 .. MaxCommands + 1 BY <2>1, BootAssumption
  <2>4. b \in Seq(Blocker) /\ Len(b) = n BY <2>2, <2>3
  <2>5. Len(boot) = n + 1 /\ DOMAIN boot = 1 .. n + 1 /\ boot[n + 1] = c /\ \A i \in 1 .. n : boot[i] = b[i]
    BY <2>2, <2>3, <2>4
  <2>6. (n + 1) - 1 = n BY <2>3
  <2> QED BY <2>2, <2>3, <2>5, <2>6 DEF BootRight
<1>5. \A p \in DOMAIN procs : procs[p].kid = None /\ procs[p].name \in {InitBinary, Script}
                              /\ (procs[p].name = Script => p = 2)
  <2>1. InitBinary # Script BY DEF InitBinary, Script
  <2> QED BY <1>3, <2>1 DEF IsTree, Proc
<1>6. None # Script /\ None # Target /\ InitBinary # Target /\ Script # Target
  BY DEF None, Script, Target, InitBinary
<1>7. Scripted
  <2>1. step = 0 /\ Len(boot) \in Nat BY <1>4 DEF ProcInit, BootRight
  <2> QED BY <1>5, <1>6, <2>1 DEF Scripted, HasTarget
<1>8. ProcTypeOK
  <2>1. step \in 0 .. MaxCommands + 2 /\ rounds \in 0 .. Rounds /\ tries \in 0 .. Tries
    BY BootAssumption DEF ProcInit
  <2> QED BY <1>2, <1>3, <2>1 DEF ProcInit, ProcTypeOK, IsTree, ChildOf
<1>9. rounds < Rounds BY BootAssumption DEF ProcInit
<1> QED BY <1>3, <1>4, <1>7, <1>8, <1>9 DEF PInv

(* The processes of the firmware start and end as the script says, and a   *)
(* process without a target or a script that brings one does not get one.  *)
Targetless == \A p \in DOMAIN procs : ~HasTarget(procs[p])

LEMMA NextCommandKeeps ==
  ASSUME PInv, NextCommand, procPc' = procPc, procPc # "end", boot' = boot
  PROVE  IsTree(procs') /\ Scripted' /\ (step >= Len(boot) /\ Targetless => Targetless')
<1> DEFINE n == Len(boot)
<1>1. IsTree(procs) /\ step' = step + 1 /\ Alive(procs, Script) BY DEF PInv, NextCommand
<1>2. n \in 1 .. MaxCommands + 1 /\ MaxCommands \in Nat /\ step \in 0 .. n
  <2>1. n \in 1 .. MaxCommands + 1 /\ MaxCommands \in Nat BY BootAssumption DEF PInv, BootRight
  <2>2. step \in 0 .. n + 1 /\ step <= n BY <1>1 DEF PInv, Scripted
  <2> HIDE DEF n
  <2> QED BY <2>1, <2>2
<1>3. ScriptPid \in DOMAIN procs /\ procs[ScriptPid].name = Script /\ ScriptPid = 2
  <2>1. \E p \in DOMAIN procs : procs[p].name = Script BY <1>1 DEF Alive
  <2>2. ScriptPid \in DOMAIN procs /\ procs[ScriptPid].name = Script BY <2>1 DEF ScriptPid
  <2> QED BY <2>2 DEF PInv, Scripted
<1>4. \A p \in DOMAIN procs : /\ (procs[p].name = Script => p = 2) /\ procs[p].kid # Script
                              /\ HasTarget(procs[p]) => step >= n
  BY DEF PInv, Scripted
<1>5. Len(boot)' = n BY DEF BootRight
<1>6. CASE step' > n \/ boot[step'] = "none"
  <2>1. procs' = Killed(procs, {2}) BY <1>3, <1>6 DEF NextCommand
  <2>2. /\ IsTree(procs') /\ DOMAIN procs' = DOMAIN procs \ {2}
        /\ \A p \in DOMAIN procs' : procs'[p].name = procs[p].name /\ procs'[p].kid = procs[p].kid
    <3> DEFINE dead == {2}
    <3>1. procs' = Killed(procs, dead) /\ dead \ {1} = {2} BY <2>1
    <3> HIDE DEF dead
    <3>2. DOMAIN procs' = DOMAIN procs \ (dead \ {1}) BY <1>1, <3>1, KilledTree
    <3>3. IsTree(procs') BY <1>1, <3>1, KilledTree
    <3>4. SameNames(procs, procs') BY <1>1, <3>1, KilledTree
    <3> QED BY <3>1, <3>2, <3>3, <3>4 DEF SameNames
  <2>3. ~Alive(procs, Script)' BY <1>4, <2>2 DEF Alive
  <2>4. \A p \in DOMAIN procs' : HasTarget(procs'[p]) = HasTarget(procs[p]) BY <2>2 DEF HasTarget
  <2>5. step' \in 0 .. n + 1 /\ (step >= n => step' >= n) BY <1>1, <1>2
  <2>6. Scripted' BY <1>4, <1>5, <2>2, <2>3, <2>4, <2>5 DEF Scripted
  <2> QED BY <2>2, <2>4, <2>6 DEF Targetless
<1>7. CASE ~(step' > n) /\ boot[step'] # "none"
  <2> DEFINE kind == boot[step']
  <2>1. procs' = Command(step', kind) BY <1>7 DEF NextCommand
  <2>2. step' \in 1 .. n /\ step' \in 1 .. MaxCommands + 1 /\ step < n BY <1>1, <1>2, <1>7
  <2>3. kind \in Blocker \cup {"target", "watched"} /\ (step' < n => kind \in Blocker)
    <3>1. ASSUME step' < n PROVE kind \in Blocker
      <4>1. step' \in 1 .. n - 1 BY <1>2, <2>2, <3>1
      <4> QED BY <4>1 DEF PInv, BootRight
    <3>2. ASSUME step' = n PROVE kind \in {"target", "watched"}
      <4>1. kind \in LastCommand BY <3>2 DEF PInv, BootRight
      <4> QED BY <1>7, <4>1 DEF LastCommand
    <3>3. step' < n \/ step' = n BY <1>2, <2>2
    <3> QED BY <3>1, <3>2, <3>3
  <2> HIDE DEF kind
  <2>4. /\ IsTree(procs') /\ DOMAIN procs \subseteq DOMAIN procs'
        /\ \A q \in DOMAIN procs : procs'[q] = procs[q]
        /\ \A q \in DOMAIN procs' \ DOMAIN procs :
             /\ procs'[q].name # Script /\ procs'[q].kid # Script
             /\ kind \in Blocker => ~HasTarget(procs'[q])
    BY <1>1, <1>3, <2>1, <2>2, <2>3, CommandTree
  <2>5. \A q \in DOMAIN procs' : HasTarget(procs'[q]) => step' >= n
    <3>1. \A q \in DOMAIN procs : HasTarget(procs'[q]) => step' >= n
      <4>1. step >= n => step' >= n BY <1>1, <1>2
      <4> QED BY <1>4, <2>4, <4>1
    <3>2. \A q \in DOMAIN procs' \ DOMAIN procs : HasTarget(procs'[q]) => ~(step' < n) BY <2>3, <2>4
    <3>3. ~(step' < n) => step' >= n BY <1>2, <2>2
    <3> QED BY <3>1, <3>2, <3>3
  <2>6. \A q \in DOMAIN procs' : (procs'[q].name = Script => q = 2) /\ procs'[q].kid # Script
    BY <1>4, <2>4
  <2>7. step' \in 0 .. n + 1 /\ step' <= n /\ ~(step >= n) BY <1>2, <2>2
  <2>8. Scripted' BY <1>5, <2>5, <2>6, <2>7 DEF Scripted
  <2> QED BY <2>4, <2>7, <2>8
<1> QED BY <1>6, <1>7

LEMMA ChildDiedKeeps ==
  ASSUME PInv, NEW c \in Bereaved, ChildDied(c), procPc' = procPc, procPc # "end", boot' = boot
  PROVE  IsTree(procs') /\ Scripted' /\ (step >= Len(boot) /\ Targetless => Targetless')
<1>1. IsTree(procs) /\ step' = step /\ c \in DOMAIN procs BY DEF PInv, ChildDied, Bereaved
<1>2. \A p \in DOMAIN procs : /\ (procs[p].name = Script => p = 2) /\ procs[p].kid # Script
                              /\ HasTarget(procs[p]) => step >= Len(boot)
  BY DEF PInv, Scripted
<1>3. step \in 0 .. Len(boot) + 1 /\ (Alive(procs, Script) => step <= Len(boot)) BY DEF PInv, Scripted
<1>4. CASE procs[c].watch
  <2> DEFINE proc == Proc(procs[c].kid, c, None, FALSE)
  <2>1. procs' = Started(procs, proc) BY <1>4 DEF ChildDied
  <2>2. proc \in ChildOf(DOMAIN procs) /\ proc.name = procs[c].kid /\ proc.kid = None
    BY <1>1 DEF IsTree, ChildOf, Proc
  <2> HIDE DEF proc
  <2>3. /\ IsTree(procs') /\ DOMAIN procs \subseteq DOMAIN procs'
        /\ \A q \in DOMAIN procs : procs'[q] = procs[q]
        /\ \A q \in DOMAIN procs' \ DOMAIN procs : procs'[q] = proc
    BY <1>1, <2>1, <2>2, StartedTree
  <2>4. None # Script /\ None # Target BY DEF None, Script, Target
  <2>5. HasTarget(proc) => HasTarget(procs[c]) BY <2>2, <2>4 DEF HasTarget
  <2>6. proc.name # Script /\ proc.kid # Script BY <1>1, <1>2, <2>2, <2>4
  <2>7. Alive(procs, Script)' => Alive(procs, Script) BY <2>3, <2>6 DEF Alive
  <2>8. Scripted' BY <1>1, <1>2, <1>3, <2>3, <2>5, <2>6, <2>7 DEF Scripted
  <2> QED BY <1>1, <2>3, <2>5, <2>8 DEF Targetless
<1>5. CASE ~procs[c].watch
  <2>1. procs' = Killed(procs, {c}) BY <1>5 DEF ChildDied
  <2>2. /\ IsTree(procs') /\ DOMAIN procs' \subseteq DOMAIN procs
        /\ \A p \in DOMAIN procs' : procs'[p].name = procs[p].name /\ procs'[p].kid = procs[p].kid
    <3> DEFINE dead == {c}
    <3>1. procs' = Killed(procs, dead) BY <2>1
    <3> HIDE DEF dead
    <3>2. DOMAIN procs' = DOMAIN procs \ (dead \ {1}) BY <1>1, <3>1, KilledTree
    <3>3. IsTree(procs') BY <1>1, <3>1, KilledTree
    <3>4. SameNames(procs, procs') BY <1>1, <3>1, KilledTree
    <3> QED BY <3>1, <3>2, <3>3, <3>4 DEF SameNames
  <2>3. \A p \in DOMAIN procs' : HasTarget(procs'[p]) = HasTarget(procs[p]) BY <2>2 DEF HasTarget
  <2>4. Alive(procs, Script)' => Alive(procs, Script) BY <2>2 DEF Alive
  <2>5. Scripted' BY <1>1, <1>2, <1>3, <2>2, <2>3, <2>4 DEF Scripted
  <2> QED BY <2>2, <2>3, <2>5 DEF Targetless
<1> QED BY <1>4, <1>5

(* The tree gives the types of the table.                                  *)
LEMMA TreeTypes ==
  ASSUME NEW t, IsTree(t)
  PROVE  /\ 1 \in DOMAIN t /\ DOMAIN t \subseteq Nat
         /\ \A p \in DOMAIN t : t[p] \in ChildOf({0} \cup (DOMAIN t \ {p}))
         /\ {t[p].name : p \in DOMAIN t} \subseteq ProcNames
<1>1. \A p \in DOMAIN t : t[p] \in ChildOf({0} \cup (DOMAIN t \ {p})) BY DEF IsTree
<1>2. \A p \in DOMAIN t : t[p].name \in ProcNames BY <1>1 DEF ChildOf
<1> QED BY <1>1, <1>2 DEF IsTree

LEMMA FirmwareKeeps ==
  ASSUME PInv, FirmwareRuns
  PROVE  PInv' /\ (step >= Len(boot) /\ Targetless => Targetless')
<1>1. /\ procPc' = procPc /\ procPc # "end" /\ boot' = boot
      /\ UNCHANGED <<rounds, showed, tries, lastNode, killed, killIndex, answer, toKill, spared>>
      /\ executed' = executed \cup {procs'[p].name : p \in DOMAIN procs'}
      /\ fresh' \in BOOLEAN
  BY DEF FirmwareRuns, booted, waiting
<1>2. IsTree(procs') /\ Scripted' /\ (step >= Len(boot) /\ Targetless => Targetless')
  <2>1. CASE NextCommand BY <1>1, <2>1, NextCommandKeeps
  <2>2. CASE \E p \in Bereaved : ChildDied(p)
    <3>1. PICK c \in Bereaved : ChildDied(c) BY <2>2
    <3> QED BY <1>1, <3>1, ChildDiedKeeps
  <2> QED BY <2>1, <2>2 DEF FirmwareRuns
<1>3. BootRight' BY <1>1 DEF PInv, BootRight
<1>4. step' \in 0 .. MaxCommands + 2
  <2>1. step' \in 0 .. Len(boot) + 1 BY <1>1, <1>2 DEF Scripted
  <2>2. Len(boot) \in 1 .. MaxCommands + 1 BY DEF PInv, BootRight
  <2> QED BY <2>1, <2>2, BootAssumption
<1>5. executed' \subseteq ProcNames
  <2>1. {procs'[p].name : p \in DOMAIN procs'} \subseteq ProcNames BY <1>2, TreeTypes
  <2>2. executed \subseteq ProcNames BY DEF PInv, ProcTypeOK
  <2> QED BY <1>1, <2>1, <2>2
<1>6. ProcTypeOK'
  <2>1. /\ (1 \in DOMAIN procs)' /\ (DOMAIN procs \subseteq Nat)'
        /\ \A p \in DOMAIN procs' : procs'[p] \in ChildOf({0} \cup (DOMAIN procs' \ {p}))
    BY <1>2, TreeTypes
  <2>2. ProcTypeOK BY DEF PInv
  <2> QED BY <1>1, <1>4, <1>5, <2>1, <2>2 DEF ProcTypeOK, ChildOf
<1> QED BY <1>1, <1>2, <1>3, <1>6 DEF PInv

(* A kill, whoever dies, keeps the invariant; so does a step that leaves   *)
(* the processes as they are.                                              *)
LEMMA SameKeeps ==
  ASSUME PInv, UNCHANGED <<boot, procs, step>>, procPc' # "end" => procPc # "end"
  PROVE  IsTree(procs)' /\ BootRight' /\ Scripted'
<1>1. IsTree(procs)' BY DEF PInv
<1>2. BootRight' BY DEF PInv, BootRight
<1>3. Scripted' BY DEF PInv, Scripted, Alive
<1> QED BY <1>1, <1>2, <1>3

LEMMA KillKeeps ==
  ASSUME PInv, UNCHANGED <<boot, step>>, procPc' # "end" => procPc # "end", NEW dead, procs' = Killed(procs, dead)
  PROVE  IsTree(procs)' /\ BootRight' /\ Scripted'
<1>1. IsTree(procs') /\ DOMAIN procs' = DOMAIN procs \ (dead \ {1}) /\ SameNames(procs, procs')
  BY KilledTree DEF PInv
<1>2. BootRight' BY DEF PInv, BootRight
<1>3. DOMAIN procs' \subseteq DOMAIN procs BY <1>1
<1>4. \A p \in DOMAIN procs' : HasTarget(procs'[p]) = HasTarget(procs[p]) BY <1>1 DEF SameNames, HasTarget
<1>5. Alive(procs, Script)' => Alive(procs, Script) BY <1>1, <1>3 DEF Alive, SameNames
<1>6. Scripted' BY <1>1, <1>3, <1>4, <1>5 DEF PInv, Scripted, SameNames
<1> QED BY <1>1, <1>2, <1>6

LEMMA TargetIsName == {Target, Script, None} \subseteq ProcNames
<1>1. 0 \in 0 .. MaxCommands + 1 BY BootAssumption
<1> QED BY <1>1 DEF Target, Script, None, ProcNames

LEMMA WaitKeeps == PInv /\ Wait => PInv'
<1> SUFFICES ASSUME PInv, Wait PROVE PInv' OBVIOUS
<1>1. /\ procPc = "wait" /\ rounds' = rounds + 1 /\ showed' = Showing
      /\ procPc' = IF HasCmdline(Target) \/ Showing \subseteq showed \/ rounds' = Rounds THEN "look" ELSE "wait"
      /\ UNCHANGED <<boot, procs, step, executed, tries, lastNode, fresh, killed, killIndex, answer, spared, toKill>>
  BY DEF Wait, booted, walk
<1>2. Showing \subseteq ProcNames
  <2>1. {procs[p].name : p \in DOMAIN procs} \subseteq ProcNames BY TreeTypes DEF PInv
  <2> QED BY <2>1 DEF Showing
<1>3. IsTree(procs)' /\ BootRight' /\ Scripted' BY <1>1, SameKeeps
<1>4. ProcTypeOK /\ rounds < Rounds BY <1>1 DEF PInv
<1>5. rounds' \in 0 .. Rounds /\ (procPc' = "wait" => rounds' < Rounds)
  BY <1>1, <1>4, BootAssumption DEF ProcTypeOK
<1>6. ProcTypeOK' BY <1>1, <1>2, <1>4, <1>5 DEF ProcTypeOK
<1> QED BY <1>3, <1>5, <1>6 DEF PInv

LEMMA LookKeeps == PInv /\ Look => PInv'
<1> SUFFICES ASSUME PInv, Look PROVE PInv' OBVIOUS
<1>1. /\ procPc = "look" /\ lastNode' = LastExecuted /\ fresh' = FALSE
      /\ UNCHANGED <<boot, procs, step, executed, rounds, showed, killed, killIndex, toKill, spared>>
  BY DEF Look, booted, waiting
<1>2. ProcTypeOK BY DEF PInv
<1>3. {Target, Script, None} \subseteq ProcNames BY TargetIsName
<1>4. lastNode' \in {Target, Script} BY <1>1 DEF LastExecuted
<1>5. /\ procPc' \in {"end", "collect", "tree"} /\ tries' \in 0 .. Tries
      /\ answer' = answer \/ answer' \in {None, Target, lastNode'}
  <2>1. CASE tries = Tries BY <1>2, <2>1 DEF Look, Found, ProcTypeOK
  <2>2. CASE tries # Tries
    <3>1. tries + 1 \in 0 .. Tries BY <1>2, <2>2, BootAssumption DEF ProcTypeOK
    <3> QED BY <1>2, <2>2, <3>1 DEF Look, Found, ProcTypeOK
  <2> QED BY <2>1, <2>2
<1>6. IsTree(procs)' /\ BootRight' /\ Scripted' BY <1>1, SameKeeps
<1>7. ProcTypeOK'
  <2>1. answer' \in ProcNames /\ lastNode' \in ProcNames BY <1>2, <1>3, <1>4, <1>5 DEF ProcTypeOK
  <2> QED BY <1>1, <1>2, <1>5, <2>1 DEF ProcTypeOK
<1> QED BY <1>5, <1>6, <1>7 DEF PInv

LEMMA WalkKills ==
  ASSUME PInv, Tree
  PROVE  \/ UNCHANGED <<procs, killed, spared>>
         \/ \E pid : /\ procs' = Killed(procs, Victims(pid))
                     /\ killed' = killed \cup KilledNames(pid)
                     /\ spared' = (spared /\ (Target \in KilledNames(pid) => fresh))
<1>1. PICK path : NothingToKill \/ Walk(path) BY DEF Tree
<1>2. CASE NothingToKill BY <1>2 DEF NothingToKill
<1>3. CASE Walk(path)
  <2>1. \/ NothingToKill \/ Restart(path) \/ KillAt(path, Max(Eligible(path)))
    BY <1>3 DEF Walk
  <2> QED BY <2>1 DEF NothingToKill, Restart, KillAt
<1> QED BY <1>1, <1>2, <1>3

LEMMA TreeKeeps == PInv /\ Tree => PInv'
<1> SUFFICES ASSUME PInv, Tree PROVE PInv' OBVIOUS
<1>1. /\ procPc = "tree" /\ procPc' = "look"
      /\ UNCHANGED <<boot, step, executed, rounds, showed, tries, lastNode, fresh, answer, toKill>>
  BY DEF Tree, booted, waiting
<1>2. ProcTypeOK BY DEF PInv
<1>3. killed' \subseteq ProcNames
  <2>1. \A pid : KilledNames(pid) \subseteq ProcNames
    <3>1. {procs[p].name : p \in DOMAIN procs} \subseteq ProcNames BY TreeTypes DEF PInv
    <3> QED BY <3>1 DEF KilledNames, Victims
  <2>2. killed' = killed \/ \E pid : killed' = killed \cup KilledNames(pid) BY WalkKills
  <2> QED BY <1>2, <2>1, <2>2 DEF ProcTypeOK
<1>4. spared' \in BOOLEAN BY <1>2, WalkKills DEF ProcTypeOK
<1>5. IsTree(procs)' /\ BootRight' /\ Scripted'
  <2>1. procs' = procs \/ \E pid : procs' = Killed(procs, Victims(pid)) BY WalkKills
  <2>2. CASE procs' = procs BY <1>1, <2>2, SameKeeps
  <2>3. CASE \E pid : procs' = Killed(procs, Victims(pid))
    <3>1. PICK dead : procs' = Killed(procs, dead) BY <2>3
    <3> QED BY <1>1, <3>1, KillKeeps
  <2> QED BY <2>1, <2>2, <2>3
<1>6. ProcTypeOK'
  <2>1. /\ (1 \in DOMAIN procs)' /\ (DOMAIN procs \subseteq Nat)'
        /\ \A p \in DOMAIN procs' : procs'[p] \in ChildOf({0} \cup (DOMAIN procs' \ {p}))
    BY <1>5, TreeTypes
  <2> QED BY <1>1, <1>2, <1>3, <1>4, <2>1 DEF ProcTypeOK, ChildOf
<1> QED BY <1>1, <1>5, <1>6 DEF PInv

LEMMA CollectKeeps == PInv /\ Collect => PInv'
<1> SUFFICES ASSUME PInv, Collect PROVE PInv' OBVIOUS
<1>1. /\ procPc = "collect" /\ toKill' = {p \in DOMAIN procs : procs[p].name = Target} /\ procPc' = "parents"
      /\ UNCHANGED <<boot, procs, step, executed, rounds, showed, tries, lastNode, fresh, killed, killIndex, answer, spared>>
  BY DEF Collect, booted, waiting, walk
<1>2. ProcTypeOK BY DEF PInv
<1>3. IsTree(procs)' /\ BootRight' /\ Scripted' BY <1>1, SameKeeps
<1>4. toKill' \subseteq Nat BY <1>1, <1>2 DEF ProcTypeOK
<1>5. ProcTypeOK' BY <1>1, <1>2, <1>4 DEF ProcTypeOK
<1> QED BY <1>1, <1>3, <1>5 DEF PInv

LEMMA KillByNameKeeps == PInv /\ KillByName => PInv'
<1> SUFFICES ASSUME PInv, KillByName PROVE PInv' OBVIOUS
<1>1. /\ procPc = "parents" /\ procs' = Killed(procs, toKill \cup Watchdogs(toKill)) /\ procPc' = "start"
      /\ UNCHANGED <<boot, step, executed, rounds, showed, tries, lastNode, fresh, killed, killIndex, answer, spared, toKill>>
  BY DEF KillByName, booted, waiting, walk
<1>2. ProcTypeOK BY DEF PInv
<1>3. IsTree(procs)' /\ BootRight' /\ Scripted'
  <2>1. PICK dead : procs' = Killed(procs, dead) BY <1>1
  <2> QED BY <1>1, <2>1, KillKeeps
<1>4. ProcTypeOK'
  <2>1. /\ (1 \in DOMAIN procs)' /\ (DOMAIN procs \subseteq Nat)'
        /\ \A p \in DOMAIN procs' : procs'[p] \in ChildOf({0} \cup (DOMAIN procs' \ {p}))
    BY <1>3, TreeTypes
  <2> QED BY <1>1, <1>2, <2>1 DEF ProcTypeOK, ChildOf
<1> QED BY <1>1, <1>3, <1>4 DEF PInv

LEMMA RunBinaryKeeps ==
  ASSUME PInv, RunBinary
  PROVE  /\ PInv' /\ NewPid(procs) \in DOMAIN procs' \ DOMAIN procs /\ DOMAIN procs \subseteq DOMAIN procs'
         /\ \A q \in DOMAIN procs : procs'[q] = procs[q]
         /\ \A q \in DOMAIN procs' \ DOMAIN procs : q = NewPid(procs) /\ procs'[q].name = Target
<1> DEFINE mine == Proc(Target, 1, None, FALSE)
<1>1. /\ procPc = "start" /\ procPc' = "end" /\ procs' = Started(procs, mine)
      /\ UNCHANGED <<boot, step, executed, rounds, showed, tries, lastNode, fresh, killed, killIndex, answer, spared, toKill>>
  BY DEF RunBinary, booted, waiting, walk
<1>2. ProcTypeOK /\ IsTree(procs) BY DEF PInv
<1>3. mine \in ChildOf(DOMAIN procs) /\ mine.name = Target /\ mine.kid = None
  BY <1>2, TargetIsName DEF IsTree, ChildOf, Proc
<1> HIDE DEF mine
<1>4. /\ IsTree(procs') /\ DOMAIN procs \subseteq DOMAIN procs' /\ NewPid(procs) \in DOMAIN procs' \ DOMAIN procs
      /\ \A q \in DOMAIN procs : procs'[q] = procs[q]
      /\ \A q \in DOMAIN procs' \ DOMAIN procs : procs'[q] = mine
  BY <1>1, <1>2, <1>3, StartedTree
<1>5. \A q \in DOMAIN procs' \ DOMAIN procs : q = NewPid(procs) BY <1>1 DEF Started
<1>6. mine.name # Script /\ mine.kid # Script BY <1>3 DEF Target, Script, None
<1>7. Scripted'
  <2>1. Alive(procs, Script)' => Alive(procs, Script) BY <1>4, <1>6 DEF Alive
  <2> QED BY <1>1, <1>4, <1>6, <2>1 DEF PInv, Scripted
<1>8. BootRight' BY <1>1 DEF PInv, BootRight
<1>9. ProcTypeOK'
  <2>1. /\ (1 \in DOMAIN procs)' /\ (DOMAIN procs \subseteq Nat)'
        /\ \A p \in DOMAIN procs' : procs'[p] \in ChildOf({0} \cup (DOMAIN procs' \ {p}))
    BY <1>4, TreeTypes
  <2> QED BY <1>1, <1>2, <2>1 DEF ProcTypeOK, ChildOf
<1> QED BY <1>1, <1>3, <1>4, <1>5, <1>7, <1>8, <1>9 DEF PInv

LEMMA PStep == PInv /\ [ProcNext \/ ProcTerminated]_procVars => PInv'
<1> SUFFICES ASSUME PInv, [ProcNext \/ ProcTerminated]_procVars PROVE PInv' OBVIOUS
<1>1. CASE FirmwareRuns BY <1>1, FirmwareKeeps
<1>2. CASE Wait BY <1>2, WaitKeeps
<1>3. CASE Look BY <1>3, LookKeeps
<1>4. CASE Tree BY <1>4, TreeKeeps
<1>5. CASE Collect BY <1>5, CollectKeeps
<1>6. CASE KillByName BY <1>6, KillByNameKeeps
<1>7. CASE RunBinary BY <1>7, RunBinaryKeeps
<1>8. CASE UNCHANGED procVars
  <2>1. IsTree(procs)' /\ BootRight' /\ Scripted' BY <1>8, SameKeeps DEF procVars
  <2>2. ProcTypeOK' /\ (procPc' = "wait" => rounds' < Rounds) BY <1>8 DEF PInv, ProcTypeOK, procVars
  <2> QED BY <2>1, <2>2 DEF PInv
<1> QED BY <1>1, <1>2, <1>3, <1>4, <1>5, <1>6, <1>7, <1>8 DEF ProcNext, ProcTerminated

(* Every process but the first stays the child of a living one, whichever  *)
(* processes are killed between a list and the next, and the counters stay *)
(* in their bounds.                                                        *)
THEOREM ProcessesTyped == ProcSpec => []ProcTypeOK
<1>1. PInv => ProcTypeOK BY DEF PInv
<1> QED BY <1>1, PInit, PStep, PTL DEF ProcSpec

(* The walk never kills a target that ran when the call chain was looked   *)
(* at, however far the firmware gets between that look and the process     *)
(* tree: the tree is only looked at when the target was not there, and     *)
(* whatever it kills afterwards was started since.                         *)
SparedInv == spared /\ (procPc = "tree" /\ Alive(procs, Target) => fresh)

LEMMA SparedStep == PInv /\ SparedInv /\ [ProcNext \/ ProcTerminated]_procVars => SparedInv'
<1> SUFFICES ASSUME PInv, SparedInv, [ProcNext \/ ProcTerminated]_procVars PROVE SparedInv' OBVIOUS
<1>1. CASE FirmwareRuns
  <2>1. /\ procPc' = procPc /\ spared' = spared
        /\ fresh' = (fresh \/ (Alive(procs', Target) /\ ~Alive(procs, Target)))
    BY <1>1 DEF FirmwareRuns
  <2>2. (Alive(procs, Target))' = Alive(procs', Target) BY DEF Alive
  <2> QED BY <2>1, <2>2 DEF SparedInv
<1>2. CASE Look
  <2>1. spared' = spared /\ procs' = procs /\ executed' = executed BY <1>2 DEF Look
  <2>2. procPc' = "tree" => lastNode' = LastExecuted /\ lastNode' # Target BY <1>2 DEF Look, Found
  <2>3. procPc' = "tree" => ~Alive(procs, Target) BY <2>2 DEF LastExecuted, HasCmdline
  <2>4. (Alive(procs, Target))' = Alive(procs, Target) BY <2>1 DEF Alive
  <2> QED BY <2>1, <2>3, <2>4 DEF SparedInv
<1>3. CASE Tree
  <2>1. procPc = "tree" /\ procPc' = "look" BY <1>3 DEF Tree
  <2>2. \A pid : Target \in KilledNames(pid) => Alive(procs, Target)
    BY DEF KilledNames, Victims, Alive
  <2>3. spared' = spared \/ \E pid : spared' = (spared /\ (Target \in KilledNames(pid) => fresh))
    BY <1>3, WalkKills
  <2> QED BY <2>1, <2>2, <2>3 DEF SparedInv
<1>4. CASE Wait \/ Collect \/ KillByName \/ RunBinary
  <2>1. procPc' # "tree" /\ spared' = spared BY <1>4 DEF Wait, Collect, KillByName, RunBinary, walk
  <2> QED BY <2>1 DEF SparedInv
<1>5. CASE UNCHANGED procVars BY <1>5 DEF SparedInv, procVars, Alive
<1> QED BY <1>1, <1>2, <1>3, <1>4, <1>5 DEF ProcNext, ProcTerminated

THEOREM TargetIsSpared == ProcSpec => []TargetSpared
<1>1. ProcInit => SparedInv BY DEF ProcInit, SparedInv
<1>2. SparedInv => TargetSpared BY DEF SparedInv, TargetSpared
<1> QED BY <1>1, <1>2, PInit, PStep, SparedStep, PTL DEF ProcSpec

(* run_binary of a firmware that reacts in time: it stands still from the  *)
(* look at the call chain until the target and those that would start it   *)
(* again are dead, and none of what is left can bring the target back.     *)
Cornered ==
  /\ Target \in executed => step >= Len(boot)
  /\ procPc \in {"collect", "parents"} => Calm
  /\ procPc \in {"collect", "parents", "start"} /\ answer = Target => step >= Len(boot)
  /\ procPc = "parents" => toKill = {p \in DOMAIN procs : procs[p].name = Target}
  /\ procPc = "start" /\ answer = Target => Targetless
  /\ procPc = "end" /\ answer = Target => \E mine \in DOMAIN procs :
       {p \in DOMAIN procs : procs[p].name = Target} = {mine}
CInv == prompt => Cornered

LEMMA StandsStill == Calm => ~FirmwareRuns
<1> SUFFICES ASSUME Calm, FirmwareRuns PROVE FALSE OBVIOUS
<1>1. NextCommand \/ \E p \in Bereaved : ChildDied(p) BY DEF FirmwareRuns
<1>2. ~NextCommand BY DEF Calm, NextCommand
<1>3. Bereaved = {} BY DEF Calm
<1> QED BY <1>1, <1>2, <1>3

(* When nothing is left to do for the firmware, who would start the target *)
(* again is the parent of one, and is killed with it.                      *)
LEMMA WatchdogsDie ==
  ASSUME PInv, KillByName, Calm, toKill = {p \in DOMAIN procs : procs[p].name = Target}
  PROVE  Targetless'
<1> DEFINE dead == toKill \cup Watchdogs(toKill)
<1>1. procs' = Killed(procs, dead) BY DEF KillByName
<1>2. IsTree(procs) BY DEF PInv
<1>3. procs[1].name # Target /\ procs[1].kid # Target
  BY <1>2 DEF IsTree, Proc, InitBinary, Target, None
<1>4. \A p \in DOMAIN procs : procs[p].name = Target => p \in dead /\ p # 1 BY <1>3
<1>5. ASSUME NEW p \in DOMAIN procs, procs[p].kid = Target PROVE p \in dead /\ p # 1
  <2>1. p \notin Bereaved BY DEF Calm
  <2>2. Target # None BY DEF Target, None
  <2>3. PICK q \in DOMAIN procs : procs[q].parent = p /\ procs[q].name = Target
    BY <1>5, <2>1, <2>2 DEF Bereaved
  <2>4. q \in toKill \cap DOMAIN procs BY <2>3
  <2>5. procs[q].parent # 0
    <3>1. p # 0 BY <1>2 DEF IsTree
    <3> QED BY <2>3, <3>1
  <2>6. p # 1 BY <1>3, <1>5
  <2>7. p \in Watchdogs(toKill) BY <2>3, <2>4, <2>5, <2>6 DEF Watchdogs
  <2> QED BY <2>6, <2>7
<1> HIDE DEF dead
<1>6. DOMAIN procs' = DOMAIN procs \ (dead \ {1}) BY <1>1, <1>2, KilledTree
<1>7. SameNames(procs, procs') BY <1>1, <1>2, KilledTree
<1> QED BY <1>4, <1>5, <1>6, <1>7 DEF Targetless, HasTarget, SameNames

LEMMA CStep == PInv /\ CInv /\ [ProcNext \/ ProcTerminated]_procVars => CInv'
<1> SUFFICES ASSUME PInv, CInv, [ProcNext \/ ProcTerminated]_procVars, prompt' PROVE Cornered'
  BY DEF CInv
<1>1. prompt' = prompt /\ boot' = boot
  BY DEF ProcNext, ProcTerminated, procVars, FirmwareRuns, Wait, Look, Tree, Collect, KillByName, RunBinary, booted
<1>2. Cornered BY <1>1 DEF CInv
<1>3. procs' = procs /\ step' = step => Calm' = Calm
  BY <1>1 DEF Calm, Bereaved, Alive, Hangs
<1>4. step \in Nat /\ Len(boot) \in Nat /\ Len(boot)' = Len(boot)
  <2>1. step \in 0 .. MaxCommands + 2 /\ Len(boot) \in 1 .. MaxCommands + 1
    BY DEF PInv, ProcTypeOK, BootRight
  <2> QED BY <1>1, <2>1, BootAssumption
<1>5. CASE FirmwareRuns
  <2>1. procPc' = procPc /\ procPc # "end" /\ answer' = answer BY <1>5 DEF FirmwareRuns
  <2>2. ~Calm BY <1>5, StandsStill
  <2>3. procPc \notin {"collect", "parents", "end"} BY <1>2, <2>1, <2>2 DEF Cornered
  <2>4. step' = step \/ step' = step + 1 BY <1>5 DEF FirmwareRuns, NextCommand, ChildDied
  <2>5. step >= Len(boot) => step' >= Len(boot)' BY <1>4, <2>4
  <2>6. PInv' /\ (step >= Len(boot) /\ Targetless => Targetless') BY <1>5, FirmwareKeeps
  <2>7. Target \in executed' => step' >= Len(boot)'
    <3>1. executed' = executed \cup {procs'[p].name : p \in DOMAIN procs'} BY <1>5 DEF FirmwareRuns
    <3>2. \A p \in DOMAIN procs' : procs'[p].name = Target => step' >= Len(boot)'
      BY <2>1, <2>6 DEF PInv, Scripted, HasTarget
    <3> QED BY <1>2, <2>5, <3>1, <3>2 DEF Cornered
  <2>8. procPc' = "start" /\ answer' = Target => Targetless' /\ step' >= Len(boot)'
    BY <1>2, <2>1, <2>5, <2>6 DEF Cornered
  <2>9. procPc' \notin {"collect", "parents", "end"} BY <2>1, <2>3
  <2> QED BY <2>7, <2>8, <2>9 DEF Cornered
<1>6. CASE Wait \/ Tree
  <2>1. executed' = executed /\ step' = step BY <1>6 DEF Wait, Tree
  <2>2. procPc' \in {"wait", "look"} BY <1>6 DEF Wait, Tree
  <2> QED BY <1>2, <1>4, <2>1, <2>2 DEF Cornered
<1>7. CASE Look
  <2>1. procPc = "look" /\ procs' = procs /\ step' = step /\ executed' = executed /\ Calm
    BY <1>1, <1>7 DEF Look, InTime
  <2>2. Calm' BY <1>3, <2>1
  <2>3. Script # Target /\ None # Target BY DEF Script, None, Target
  <2>4. procPc' \in {"end", "collect", "tree"} /\ (procPc' = "end" => answer' = Script)
    BY <1>7 DEF Look, Found
  <2>5. ASSUME procPc' = "collect", answer' = Target PROVE step' >= Len(boot)'
    <3>1. LastExecuted = Target BY <1>7, <2>3, <2>5 DEF Look, Found
    <3>2. Alive(procs, Target) \/ Target \in executed
      BY <2>3, <3>1 DEF LastExecuted, HasCmdline
    <3>3. Alive(procs, Target) => step >= Len(boot)
      BY <2>1 DEF PInv, Scripted, HasTarget, Alive
    <3> QED BY <1>2, <1>4, <2>1, <3>2, <3>3 DEF Cornered
  <2> QED BY <1>2, <1>4, <2>1, <2>2, <2>3, <2>4, <2>5 DEF Cornered
<1>8. CASE Collect
  <2>1. /\ procPc = "collect" /\ procPc' = "parents" /\ answer' = answer /\ step' = step /\ executed' = executed
        /\ procs' = procs /\ toKill' = {p \in DOMAIN procs : procs[p].name = Target}
    BY <1>8 DEF Collect, walk
  <2>2. Calm' BY <1>2, <1>3, <2>1 DEF Cornered
  <2> QED BY <1>2, <1>4, <2>1, <2>2 DEF Cornered
<1>9. CASE KillByName
  <2>1. procPc = "parents" /\ procPc' = "start" /\ answer' = answer /\ step' = step /\ executed' = executed
    BY <1>9 DEF KillByName, walk
  <2>2. Targetless' BY <1>2, <1>9, <2>1, WatchdogsDie DEF Cornered
  <2> QED BY <1>2, <1>4, <2>1, <2>2 DEF Cornered
<1>10. CASE RunBinary
  <2>1. procPc = "start" /\ procPc' = "end" /\ answer' = answer /\ step' = step /\ executed' = executed
    BY <1>10 DEF RunBinary, walk
  <2>2. ASSUME answer = Target
        PROVE  \E mine \in DOMAIN procs' : {p \in DOMAIN procs' : procs'[p].name = Target} = {mine}
    <3>1. \A p \in DOMAIN procs : procs[p].name # Target
      BY <1>2, <2>1, <2>2 DEF Cornered, Targetless, HasTarget
    <3>2. /\ NewPid(procs) \in DOMAIN procs' \ DOMAIN procs
          /\ \A q \in DOMAIN procs : procs'[q] = procs[q]
          /\ \A q \in DOMAIN procs' \ DOMAIN procs : q = NewPid(procs) /\ procs'[q].name = Target
      BY <1>10, RunBinaryKeeps
    <3> QED BY <3>1, <3>2
  <2> QED BY <1>2, <1>4, <2>1, <2>2 DEF Cornered
<1>11. CASE UNCHANGED procVars
  <2>1. Calm' = Calm /\ Targetless' = Targetless BY <1>3, <1>11 DEF procVars, Targetless
  <2> QED BY <1>2, <1>4, <1>11, <2>1 DEF Cornered, procVars
<1> QED BY <1>5, <1>6, <1>7, <1>8, <1>9, <1>10, <1>11 DEF ProcNext, ProcTerminated

THEOREM OneTargetLeft == ProcSpec => []OneTarget
<1>1. ProcInit => CInv
  <2> SUFFICES ASSUME ProcInit PROVE Cornered BY DEF CInv
  <2>1. Target \notin {InitBinary, Script} BY DEF Target, InitBinary, Script
  <2> QED BY <2>1 DEF ProcInit, Cornered
<1>2. CInv => OneTarget BY DEF CInv, Cornered, OneTarget
<1> QED BY <1>1, <1>2, PInit, PStep, CStep, PTL DEF ProcSpec

(* The paths of a tree, once any function satisfies their recursion.       *)
PathEq(t, g) == g = [p \in DOMAIN t |-> IF t[p].parent = 0 THEN <<p>> ELSE Append(g[t[p].parent], p)]
LEMMA PathsAre ==
  ASSUME NEW t, NEW f, PathEq(t, f)
  PROVE  \E g : PathEq(t, g) /\ \A q : PathTo(t, q) = g[q]
<1> DEFINE g == CHOOSE h : PathEq(t, h)
<1>1. PathEq(t, g) BY Zenon
<1>2. \A q : PathTo(t, q) = g[q] BY Zenon DEF PathTo, PathEq
<1> QED BY <1>1, <1>2

LEMMA AppendOne ==
  ASSUME NEW a \in Nat, NEW b \in Nat
  PROVE  Append(<<a>>, b) = <<a, b>>
<1>1. <<a>> \in Seq(Nat) /\ <<a, b>> \in Seq(Nat) OBVIOUS
<1>2. Append(<<a>>, b) \in Seq(Nat) /\ Len(Append(<<a>>, b)) = 2 /\ Len(<<a, b>>) = 2 BY <1>1
<1>3. \A i \in 1 .. 2 : Append(<<a>>, b)[i] = <<a, b>>[i] BY <1>1
<1> QED BY <1>1, <1>2, <1>3, SeqEqual

LEMMA AppendTwo ==
  ASSUME NEW a \in Nat, NEW b \in Nat, NEW c \in Nat
  PROVE  Append(<<a, b>>, c) = <<a, b, c>>
<1>1. <<a, b>> \in Seq(Nat) /\ <<a, b, c>> \in Seq(Nat) OBVIOUS
<1>2. Append(<<a, b>>, c) \in Seq(Nat) /\ Len(Append(<<a, b>>, c)) = 3 /\ Len(<<a, b, c>>) = 3 BY <1>1
<1>3. \A i \in 1 .. 3 : Append(<<a, b>>, c)[i] = <<a, b, c>>[i] BY <1>1
<1> QED BY <1>1, <1>2, <1>3, SeqEqual

LEMMA AppendThree ==
  ASSUME NEW a \in Nat, NEW b \in Nat, NEW c \in Nat, NEW d \in Nat
  PROVE  Append(<<a, b, c>>, d) = <<a, b, c, d>>
<1>1. <<a, b, c>> \in Seq(Nat) /\ <<a, b, c, d>> \in Seq(Nat) OBVIOUS
<1>2. /\ Append(<<a, b, c>>, d) \in Seq(Nat)
      /\ Len(Append(<<a, b, c>>, d)) = 4 /\ Len(<<a, b, c, d>>) = 4
  BY <1>1
<1>3. \A i \in 1 .. 4 : Append(<<a, b, c>>, d)[i] = <<a, b, c, d>>[i] BY <1>1
<1> QED BY <1>1, <1>2, <1>3, SeqEqual

(* No process is deeper than the child of a command of the script.         *)
Shallow(t) ==
  /\ 2 \in DOMAIN t /\ t[2].parent = 1
  /\ \A p \in DOMAIN t \ {1} :
       t[p].parent \in {1, 2} \/ (t[p].parent \in DOMAIN t \ {1, 2} /\ t[t[p].parent].parent = 2)
LEMMA ShallowPaths ==
  ASSUME NEW t, IsTree(t), Shallow(t)
  PROVE  /\ PathTo(t, 1) = <<1>>
         /\ \A p \in DOMAIN t \ {1} :
              PathTo(t, p) = IF t[p].parent = 1 THEN <<1, p>>
                             ELSE IF t[p].parent = 2 THEN <<1, 2, p>> ELSE <<1, 2, t[p].parent, p>>
<1> DEFINE F(p) == IF p = 1 THEN <<1>> ELSE IF t[p].parent = 1 THEN <<1, p>>
                   ELSE IF t[p].parent = 2 THEN <<1, 2, p>> ELSE <<1, 2, t[p].parent, p>>
           f == [p \in DOMAIN t |-> F(p)]
           E(p) == IF t[p].parent = 0 THEN <<p>> ELSE Append(f[t[p].parent], p)
<1>1. t[1].parent = 0 /\ 1 \in DOMAIN t /\ \A p \in DOMAIN t : p \in Nat BY DEF IsTree, Proc
<1>2. DOMAIN f = DOMAIN t /\ \A p \in DOMAIN t : f[p] = F(p) OBVIOUS
<1>3. \A p \in DOMAIN t : F(p) = E(p)
  <2> SUFFICES ASSUME NEW p \in DOMAIN t PROVE F(p) = E(p) OBVIOUS
  <2>1. CASE p = 1 BY <1>1, <2>1
  <2> HIDE DEF f
  <2>2. CASE p # 1 /\ t[p].parent = 1
    <3>1. f[1] = <<1>> BY <1>1, <1>2
    <3> QED BY <1>1, <2>2, <3>1, AppendOne
  <2>3. CASE p # 1 /\ t[p].parent = 2
    <3>1. f[2] = <<1, 2>> BY <1>2 DEF Shallow
    <3>2. p \in Nat /\ Append(<<1, 2>>, p) = <<1, 2, p>> BY <1>1, AppendTwo
    <3> QED BY <2>3, <3>1, <3>2
  <2>4. CASE p # 1 /\ t[p].parent \notin {1, 2}
    <3>1. t[p].parent \in DOMAIN t \ {1, 2} /\ t[t[p].parent].parent = 2 BY <2>4 DEF Shallow
    <3>2. f[t[p].parent] = <<1, 2, t[p].parent>> BY <1>2, <3>1
    <3>3. t[p].parent \in Nat \ {0} BY <3>1 DEF IsTree
    <3>4. Append(<<1, 2, t[p].parent>>, p) = <<1, 2, t[p].parent, p>> BY <1>1, <3>3, AppendThree
    <3> QED BY <2>4, <3>2, <3>3, <3>4
  <2> QED BY <2>1, <2>2, <2>3, <2>4
<1>4. f = [p \in DOMAIN t |-> E(p)]
  <2>1. [p \in DOMAIN t |-> F(p)] = [p \in DOMAIN t |-> E(p)]
    <3> HIDE DEF F, E
    <3> QED BY <1>3, Zenon
  <2> QED BY <2>1
<1>5. PathEq(t, f)
  <2> HIDE DEF f
  <2> QED BY <1>4 DEF PathEq
<1>6. PICK g : PathEq(t, g) /\ \A q : PathTo(t, q) = g[q] BY <1>5, PathsAre
<1>7. \A p \in DOMAIN t : g[p] = IF t[p].parent = 0 THEN <<p>> ELSE Append(g[t[p].parent], p)
  <2> DEFINE G(p) == IF t[p].parent = 0 THEN <<p>> ELSE Append(g[t[p].parent], p)
  <2>1. g = [p \in DOMAIN t |-> G(p)] BY <1>6 DEF PathEq
  <2> HIDE DEF G
  <2>2. \A p \in DOMAIN t : g[p] = G(p) BY <2>1
  <2> QED BY <2>2 DEF G
<1>8. g[1] = <<1>> BY <1>1, <1>7
<1>9. \A p \in DOMAIN t \ {1} : t[p].parent = 1 => g[p] = <<1, p>>
  <2> SUFFICES ASSUME NEW p \in DOMAIN t \ {1}, t[p].parent = 1 PROVE g[p] = <<1, p>> OBVIOUS
  <2>1. p \in Nat /\ Append(<<1>>, p) = <<1, p>> BY <1>1, AppendOne
  <2>2. t[p].parent # 0 OBVIOUS
  <2>3. g[p] = Append(g[1], p) BY <1>7, <2>2, Zenon
  <2> QED BY <1>8, <2>1, <2>3
<1>10. g[2] = <<1, 2>> BY <1>9 DEF Shallow
<1>11. \A p \in DOMAIN t \ {1} : t[p].parent = 2 => g[p] = <<1, 2, p>>
  <2> SUFFICES ASSUME NEW p \in DOMAIN t \ {1}, t[p].parent = 2 PROVE g[p] = <<1, 2, p>> OBVIOUS
  <2>1. p \in Nat /\ Append(<<1, 2>>, p) = <<1, 2, p>> BY <1>1, AppendTwo
  <2>2. t[p].parent # 0 OBVIOUS
  <2>3. g[p] = Append(g[2], p) BY <1>7, <2>2, Zenon
  <2> QED BY <1>10, <2>1, <2>3
<1>12. ASSUME NEW p \in DOMAIN t \ {1}, t[p].parent \notin {1, 2} PROVE g[p] = <<1, 2, t[p].parent, p>>
  <2>1. t[p].parent \in DOMAIN t \ {1, 2} /\ t[t[p].parent].parent = 2 BY <1>12 DEF Shallow
  <2>2. g[t[p].parent] = <<1, 2, t[p].parent>> BY <1>11, <2>1
  <2>3. t[p].parent \in Nat \ {0} BY <2>1 DEF IsTree
  <2>4. p \in Nat /\ Append(<<1, 2, t[p].parent>>, p) = <<1, 2, t[p].parent, p>> BY <1>1, <2>3, AppendThree
  <2>5. t[p].parent # 0 BY <2>3
  <2>6. g[p] = Append(g[t[p].parent], p) BY <1>7, <2>5, Zenon
  <2> QED BY <2>2, <2>4, <2>6
<1> QED BY <1>6, <1>8, <1>9, <1>11, <1>12
(* The shapes of a boot.  Around a set of processes there are the init     *)
(* binary, the script, and what outlived the commands up to the i-th; the  *)
(* i-th itself hangs without its child, or with it.                        *)
Stray(t, p, i) == t[p].parent = 1 /\ t[p].kid = None /\ t[p].name[1] <= i /\ t[p].name[2] \in {"kid", "sleep"}
Around(t, S, i) ==
  /\ 2 \in DOMAIN t /\ t[2] = Proc(Script, 1, None, FALSE)
  /\ \A p \in DOMAIN t \ ({1, 2} \cup S) : Stray(t, p, i)
Top(i, kind) == Proc(<<i, "command">>, 2, IF kind = "alone" THEN None ELSE Kid(i, kind), kind = "watches")
Sub(c, i, kind) == Proc(Kid(i, kind), c, None, FALSE)
Hung(t, c, i, kind) == c \in DOMAIN t \ {1, 2} /\ t[c] = Top(i, kind) /\ Around(t, {c}, i - 1)
Fed(t, c, k, i, kind) ==
  /\ c \in DOMAIN t \ {1, 2} /\ t[c] = Top(i, kind) /\ k \in DOMAIN t \ {1, 2, c} /\ t[k] = Sub(c, i, kind)
  /\ kind # "alone" /\ Around(t, {c, k}, i - 1)

LEMMA NamesApart ==
  ASSUME NEW i \in Nat, NEW kind
  PROVE  /\ <<i, "command">> \notin {InitBinary, Script, Target, None}
         /\ Kid(i, kind) \notin {<<i, "command">>, InitBinary, Script, Target, None}
         /\ Kid(i, kind)[1] = i /\ Kid(i, kind)[2] = (IF kind = "sleeps" THEN "sleep" ELSE "kid")
         /\ Script \notin {InitBinary, Target, None}
BY DEF Kid, InitBinary, Script, Target, None

LEMMA AroundStill ==
  ASSUME NEW t, NEW S, NEW i, Around(t, S, i), NEW u, NEW R, 2 \in DOMAIN u, 2 \in DOMAIN t, u[2] = t[2],
         \A p \in DOMAIN u : p \in {1, 2} \cup R \/ (p \in DOMAIN t \ S /\ u[p] = t[p])
  PROVE  Around(u, R, i)
<1>1. ASSUME NEW p \in DOMAIN u \ ({1, 2} \cup R) PROVE Stray(u, p, i)
  <2>1. p \in DOMAIN t \ ({1, 2} \cup S) /\ u[p] = t[p] OBVIOUS
  <2>2. Stray(t, p, i) BY <2>1 DEF Around
  <2> QED BY <2>1, <2>2 DEF Stray
<1>2. u[2] = Proc(Script, 1, None, FALSE) BY DEF Around
<1> QED BY <1>1, <1>2 DEF Around

LEMMA LaterStray ==
  ASSUME NEW t, IsTree(t), NEW i \in Nat, NEW p \in DOMAIN t, Stray(t, p, i - 1)
  PROVE  Stray(t, p, i)
<1>1. t[p].name \in ProcNames BY DEF IsTree, ChildOf
<1>2. t[p].name[1] \in Int BY <1>1, BootAssumption DEF ProcNames
<1> QED BY <1>2 DEF Stray

LEMMA StartedDomain ==
  ASSUME NEW t, IsTree(t), NEW proc, NEW u, u = Started(t, proc)
  PROVE  NewPid(t) \notin DOMAIN t /\ DOMAIN u = DOMAIN t \cup {NewPid(t)}
<1>1. NewPid(t) \in Nat /\ NewPid(t) > 1 /\ \A q \in DOMAIN t : q < NewPid(t) BY NewPidIsNew
<1>2. \A q \in DOMAIN t : q \in Nat BY DEF IsTree
<1>3. NewPid(t) \notin DOMAIN t BY <1>1, <1>2
<1> QED BY <1>3 DEF Started

LEMMA StartedValues ==
  ASSUME NEW t, IsTree(t), NEW proc, NEW u, u = Started(t, proc)
  PROVE  u[NewPid(t)] = proc /\ \A q \in DOMAIN t : u[q] = t[q]
<1> DEFINE n == NewPid(t)
<1>1. n \notin DOMAIN t BY StartedDomain
<1>2. u = [p \in DOMAIN t \cup {n} |-> IF p \in DOMAIN t THEN t[p] ELSE proc] BY DEF Started
<1> HIDE DEF n
<1>3. u[n] = proc /\ \A q \in DOMAIN t : u[q] = t[q] BY <1>1, <1>2
<1> QED BY <1>3 DEF n

(* A command is started, alone or with its child.                          *)
LEMMA AloneHangs ==
  ASSUME NEW t, IsTree(t), NEW i \in Nat, Around(t, {}, i - 1), NEW u, u = Started(t, Top(i, "alone"))
  PROVE  Hung(u, NewPid(t), i, "alone")
<1>1. /\ NewPid(t) \notin DOMAIN t /\ DOMAIN u = DOMAIN t \cup {NewPid(t)} /\ u[NewPid(t)] = Top(i, "alone")
      /\ \A q \in DOMAIN t : u[q] = t[q]
  BY StartedDomain, StartedValues
<1>2. 1 \in DOMAIN t /\ 2 \in DOMAIN t BY DEF IsTree, Around
<1>3. Around(u, {NewPid(t)}, i - 1) BY <1>1, <1>2, AroundStill
<1> QED BY <1>1, <1>2, <1>3 DEF Hung

LEMMA CommandHangs ==
  ASSUME NEW t, IsTree(t), NEW i \in 0 .. MaxCommands + 1, Around(t, {}, i - 1), NEW kind \in Blocker \ {"alone"},
         NEW u, u = StartedWith(t, Top(i, kind), Kid(i, kind))
  PROVE  \E c, k \in DOMAIN u : Fed(u, c, k, i, kind)
<1> SUFFICES ASSUME NEW v, v = Started(t, Top(i, kind)), NEW c, c = NewPid(t), NEW k, k = NewPid(v)
             PROVE  \E d, l \in DOMAIN u : Fed(u, d, l, i, kind)
  OBVIOUS
<1>1. u = Started(v, Sub(c, i, kind)) BY DEF StartedWith, Sub
<1>2. 1 \in DOMAIN t /\ 2 \in DOMAIN t BY DEF IsTree, Around
<1>3. Top(i, kind) \in ChildOf(DOMAIN t)
  <2>1. Kid(i, kind) \in ProcNames /\ None \in ProcNames /\ <<i, "command">> \in ProcNames
    <3>1. 0 \in 0 .. MaxCommands + 1 BY BootAssumption
    <3> QED BY <3>1 DEF Kid, None, ProcNames
  <2> QED BY <1>2, <2>1 DEF Top, Proc, ChildOf
<1>4. IsTree(v) BY <1>3, StartedTree
<1>5. /\ c \notin DOMAIN t /\ DOMAIN v = DOMAIN t \cup {c} /\ v[c] = Top(i, kind)
      /\ \A q \in DOMAIN t : v[q] = t[q]
  BY StartedDomain, StartedValues
<1>6. k \notin DOMAIN v /\ DOMAIN u = DOMAIN v \cup {k} BY <1>1, <1>4, StartedDomain
<1>7. u[k] = Sub(c, i, kind) /\ \A q \in DOMAIN v : u[q] = v[q] BY <1>1, <1>4, StartedValues
<1>8. /\ c \in DOMAIN u \ {1, 2} /\ u[c] = Top(i, kind) /\ k \in DOMAIN u \ {1, 2, c} /\ kind # "alone"
      /\ \A q \in DOMAIN u \ {1, 2, c, k} : q \in DOMAIN t /\ u[q] = t[q]
      /\ 2 \in DOMAIN u /\ u[2] = t[2]
  BY <1>2, <1>5, <1>6, <1>7
<1>9. Around(u, {c, k}, i - 1) BY <1>2, <1>8, AroundStill
<1> QED BY <1>7, <1>8, <1>9 DEF Fed

LEMMA FedAgain ==
  ASSUME NEW t, IsTree(t), NEW c, NEW i \in Nat, NEW kind \in Blocker \ {"alone"}, Hung(t, c, i, kind),
         NEW u, u = Started(t, Sub(c, i, kind))
  PROVE  Fed(u, c, NewPid(t), i, kind)
<1>1. NewPid(t) \notin DOMAIN t /\ DOMAIN u = DOMAIN t \cup {NewPid(t)} BY StartedDomain
<1>2. u[NewPid(t)] = Sub(c, i, kind) /\ \A q \in DOMAIN t : u[q] = t[q] BY StartedValues
<1>3. 1 \in DOMAIN t /\ 2 \in DOMAIN t BY DEF IsTree, Hung, Around
<1>4. c \in DOMAIN t \ {1, 2} /\ t[c] = Top(i, kind) /\ Around(t, {c}, i - 1) BY DEF Hung
<1>5. Around(u, {c, NewPid(t)}, i - 1) BY <1>2, <1>1, <1>3, <1>4, AroundStill
<1>6. kind # "alone" OBVIOUS
<1> QED BY <1>2, <1>1, <1>3, <1>4, <1>5, <1>6 DEF Fed

(* A command is killed, or the child of one.                               *)
LEMMA KilledDomain ==
  ASSUME NEW t, IsTree(t), NEW x \in DOMAIN t \ {1}, NEW u, u = Killed(t, {x})
  PROVE  DOMAIN u = DOMAIN t \ {x}
BY DEF Killed

LEMMA KilledValues ==
  ASSUME NEW t, IsTree(t), NEW x \in DOMAIN t \ {1}, NEW u, u = Killed(t, {x})
  PROVE  /\ \A p \in DOMAIN t \ {x} : t[p].parent # x => u[p] = t[p]
         /\ \A p \in DOMAIN t \ {x} : t[p].parent = x =>
              u[p].name = t[p].name /\ u[p].kid = t[p].kid /\ u[p].parent = 1
<1> DEFINE left == DOMAIN t \ {x}
           F(p) == IF t[p].parent \in left \cup {0} THEN t[p] ELSE [t[p] EXCEPT !.parent = 1]
<1>1. {x} \ {1} = {x} OBVIOUS
<1>2. u = [p \in left |-> F(p)] BY <1>1 DEF Killed
<1>3. DOMAIN u = left /\ \A p \in left : u[p] = F(p)
  <2> HIDE DEF F
  <2> QED BY <1>2
<1>4. \A p \in left : t[p].parent \in DOMAIN t \cup {0} BY DEF IsTree, ChildOf
<1>5. x # 0 BY DEF IsTree
<1>6. \A p \in left : t[p] \in ChildOf(Nat) BY DEF IsTree, ChildOf
<1>7. \A p \in left : t[p].parent # x => u[p] = t[p] BY <1>3, <1>4
<1>8. ASSUME NEW p \in left, t[p].parent = x
      PROVE  u[p].name = t[p].name /\ u[p].kid = t[p].kid /\ u[p].parent = 1
  <2>1. u[p] = [t[p] EXCEPT !.parent = 1] BY <1>3, <1>5, <1>8
  <2> QED BY <1>6, <2>1 DEF ChildOf
<1> QED BY <1>7, <1>8

LEMMA TopDies ==
  ASSUME NEW t, IsTree(t), NEW c, NEW i \in Nat, NEW kind,
         Hung(t, c, i, kind) \/ \E k \in DOMAIN t : Fed(t, c, k, i, kind),
         NEW u, u = Killed(t, {c})
  PROVE  Around(u, {}, i)
<1>1. c \in DOMAIN t \ {1, 2} /\ 2 \in DOMAIN t /\ t[2] = Proc(Script, 1, None, FALSE)
  BY DEF Hung, Fed, Around
<1>2. DOMAIN u = DOMAIN t \ {c} BY <1>1, KilledDomain
<1>3. /\ \A p \in DOMAIN t \ {c} : t[p].parent # c => u[p] = t[p]
      /\ \A p \in DOMAIN t \ {c} : t[p].parent = c =>
           u[p].name = t[p].name /\ u[p].kid = t[p].kid /\ u[p].parent = 1
  BY <1>1, KilledValues
<1>4. u[2] = t[2]
  <2>1. 2 \in DOMAIN u /\ t[2].parent # c BY <1>1, <1>2 DEF Proc
  <2> QED BY <1>1, <1>3, <2>1
<1>5. ASSUME NEW p \in DOMAIN u \ {1, 2}, Stray(t, p, i - 1) PROVE Stray(u, p, i)
  <2>1. Stray(t, p, i) BY <1>2, <1>5, LaterStray
  <2>2. t[p].parent = 1 /\ c # 1 BY <1>1, <1>5 DEF Stray
  <2>3. u[p] = t[p] BY <1>2, <1>3, <2>2
  <2> QED BY <2>1, <2>3 DEF Stray
<1>6. CASE Hung(t, c, i, kind)
  <2>1. \A p \in DOMAIN u \ {1, 2} : Stray(t, p, i - 1) BY <1>2, <1>6 DEF Hung, Around
  <2> QED BY <1>1, <1>2, <1>4, <1>5, <2>1 DEF Around
<1>7. CASE \E k \in DOMAIN t : Fed(t, c, k, i, kind)
  <2>1. PICK k \in DOMAIN t : Fed(t, c, k, i, kind) BY <1>7
  <2>2. \A p \in DOMAIN u \ {1, 2, k} : Stray(t, p, i - 1) BY <1>2, <2>1 DEF Fed, Around
  <2>3. t[k] = Proc(Kid(i, kind), c, None, FALSE) /\ k \in DOMAIN u BY <1>2, <2>1 DEF Fed, Sub
  <2>4. u[k].name = Kid(i, kind) /\ u[k].kid = None /\ u[k].parent = 1
    <3>1. t[k].name = Kid(i, kind) /\ t[k].kid = None /\ t[k].parent = c BY <2>3 DEF Proc
    <3>2. k \in DOMAIN t \ {c} BY <1>2, <2>3
    <3> QED BY <1>3, <3>1, <3>2
  <2>5. Stray(u, k, i) BY <2>4, NamesApart DEF Stray
  <2> QED BY <1>1, <1>2, <1>4, <1>5, <2>2, <2>5 DEF Around
<1> QED BY <1>6, <1>7

LEMMA SubDies ==
  ASSUME NEW t, IsTree(t), NEW c, NEW k, NEW i \in Nat, NEW kind, Fed(t, c, k, i, kind), NEW u, u = Killed(t, {k})
  PROVE  Hung(u, c, i, kind)
<1>1. k \in DOMAIN t \ {1, 2, c} /\ c \in DOMAIN t \ {1, 2} BY DEF Fed
<1>2. DOMAIN u = DOMAIN t \ {k} BY <1>1, KilledDomain
<1>3. /\ \A p \in DOMAIN t \ {k} : t[p].parent # k => u[p] = t[p]
      /\ \A p \in DOMAIN t \ {k} : t[p].parent = k =>
           u[p].name = t[p].name /\ u[p].kid = t[p].kid /\ u[p].parent = 1
  BY <1>1, KilledValues
<1>4. t[c].parent = 2 /\ t[2].parent = 1 /\ \A p \in DOMAIN t \ {1, 2, c, k} : t[p].parent = 1
  BY DEF Fed, Around, Top, Proc, Stray
<1>5. 2 \in DOMAIN u /\ \A p \in DOMAIN u \ {1} : u[p] = t[p] BY <1>1, <1>2, <1>3, <1>4 DEF Fed, Around
<1>6. Around(t, {c, k}, i - 1) /\ t[c] = Top(i, kind) /\ 2 \in DOMAIN t BY DEF Fed, Around
<1>7. ASSUME NEW p \in DOMAIN u \ ({1, 2} \cup {c}) PROVE Stray(u, p, i - 1)
  <2>1. p \in DOMAIN t \ ({1, 2} \cup {c, k}) /\ u[p] = t[p] BY <1>1, <1>2, <1>5
  <2>2. Stray(t, p, i - 1) BY <1>6, <2>1 DEF Around
  <2> QED BY <2>1, <2>2 DEF Stray
<1>8. 2 \in DOMAIN u /\ u[2] = Proc(Script, 1, None, FALSE)
  <2>1. 2 \in DOMAIN u /\ u[2] = t[2] BY <1>5
  <2>2. t[2] = Proc(Script, 1, None, FALSE) BY <1>6 DEF Around
  <2> QED BY <2>1, <2>2
<1>9. Around(u, {c}, i - 1) BY <1>7, <1>8 DEF Around
<1> QED BY <1>1, <1>2, <1>5, <1>6, <1>9 DEF Hung

(* The longest path: to the child of a command, or to one that has none.   *)
LEMMA AroundIsShallow ==
  ASSUME NEW t, IsTree(t), NEW S, NEW i, Around(t, S, i),
         \A p \in S : t[p].parent = 2 \/ (t[p].parent \in S \ {1, 2} /\ t[t[p].parent].parent = 2), S \subseteq DOMAIN t
  PROVE  Shallow(t)
<1>1. t[2].parent = 1 BY DEF Around, Proc
<1>2. \A p \in DOMAIN t \ ({1, 2} \cup S) : t[p].parent = 1 BY DEF Around, Stray
<1> QED BY <1>1, <1>2 DEF Shallow, Around

LEMMA FedDeepest ==
  ASSUME NEW t, IsTree(t), NEW c, NEW k, NEW i, NEW kind, Fed(t, c, k, i, kind)
  PROVE  Deepest(t) = {k} /\ PathTo(t, k) = <<1, 2, c, k>>
<1>1. /\ t[c].parent = 2 /\ t[k].parent = c /\ {c, k} \subseteq DOMAIN t /\ c \notin {1, 2} /\ k \notin {1, 2, c}
      /\ Around(t, {c, k}, i - 1)
  BY DEF Fed, Top, Sub, Proc
<1>2. Shallow(t) BY <1>1, AroundIsShallow
<1>3. PathTo(t, 1) = <<1>> BY <1>2, ShallowPaths
<1>4. \A p \in DOMAIN t \ {1} :
        PathTo(t, p) = IF t[p].parent = 1 THEN <<1, p>>
                       ELSE IF t[p].parent = 2 THEN <<1, 2, p>> ELSE <<1, 2, t[p].parent, p>>
  BY <1>2, ShallowPaths
<1>5. \A p \in DOMAIN t \ {1, c, k} : t[p].parent = 1 BY <1>1 DEF Around, Stray, Proc
<1>6. PathTo(t, k) = <<1, 2, c, k>> /\ PathTo(t, c) = <<1, 2, c>> BY <1>1, <1>4
<1>7. \A p \in DOMAIN t \ {1, c, k} : PathTo(t, p) = <<1, p>> BY <1>4, <1>5
<1> DEFINE L(p) == Len(PathTo(t, p))
<1>8. L(k) = 4 BY <1>6
<1>9. \A p \in DOMAIN t \ {k} : L(p) \in {1, 2, 3} BY <1>3, <1>6, <1>7
<1>10. Deepest(t) = {p \in DOMAIN t : \A q \in DOMAIN t : L(q) <= L(p)} BY DEF Deepest
<1> HIDE DEF L
<1>11. \A q \in DOMAIN t : L(q) <= L(k) BY <1>8, <1>9
<1>12. \A p \in DOMAIN t \ {k} : ~(L(k) <= L(p)) BY <1>8, <1>9
<1> QED BY <1>1, <1>6, <1>10, <1>11, <1>12

LEMMA AloneDeepest ==
  ASSUME NEW t, IsTree(t), NEW c, NEW i, Hung(t, c, i, "alone")
  PROVE  Deepest(t) = {c} /\ PathTo(t, c) = <<1, 2, c>>
<1>1. t[c].parent = 2 /\ c \in DOMAIN t /\ c \notin {1, 2} /\ Around(t, {c}, i - 1) BY DEF Hung, Top, Proc
<1>2. Shallow(t) BY <1>1, AroundIsShallow
<1>3. PathTo(t, 1) = <<1>> BY <1>2, ShallowPaths
<1>4. \A p \in DOMAIN t \ {1} :
        PathTo(t, p) = IF t[p].parent = 1 THEN <<1, p>>
                       ELSE IF t[p].parent = 2 THEN <<1, 2, p>> ELSE <<1, 2, t[p].parent, p>>
  BY <1>2, ShallowPaths
<1>5. \A p \in DOMAIN t \ {1, c} : t[p].parent = 1 BY <1>1 DEF Around, Stray, Proc
<1>6. PathTo(t, c) = <<1, 2, c>> BY <1>1, <1>4
<1>7. \A p \in DOMAIN t \ {1, c} : PathTo(t, p) = <<1, p>> BY <1>4, <1>5
<1> DEFINE L(p) == Len(PathTo(t, p))
<1>8. L(c) = 3 BY <1>6
<1>9. \A p \in DOMAIN t \ {c} : L(p) \in {1, 2} BY <1>3, <1>6, <1>7
<1>10. Deepest(t) = {p \in DOMAIN t : \A q \in DOMAIN t : L(q) <= L(p)} BY DEF Deepest
<1> HIDE DEF L
<1>11. \A q \in DOMAIN t : L(q) <= L(c) BY <1>8, <1>9
<1>12. \A p \in DOMAIN t \ {c} : ~(L(c) <= L(p)) BY <1>8, <1>9
<1> QED BY <1>1, <1>6, <1>10, <1>11, <1>12

(* How the walk gets through a boot that hangs.  It owes tries: what the   *)
(* process that hangs now still takes, once a try has started the count of *)
(* its indices again, and two or three for each command ahead; never more  *)
(* than Effort leaves.                                                     *)
Ahead(b, i) ==
  2 * Cardinality({j \in DOMAIN b : j > i /\ b[j] \in Blocker})
    + Cardinality({j \in DOMAIN b : j > i /\ b[j] = "watches"})
Paid(n) == tries + n + Ahead(boot, step) <= Effort + (IF procPc = "tree" THEN 1 ELSE 0)
Due(kid, kind, indices) ==
  IF ~kid THEN (IF 3 \in indices THEN 2 ELSE 1)
  ELSE IF kind = "waits" THEN (IF {3, 4} \subseteq indices THEN 2 ELSE 1)
  ELSE IF 3 \in indices THEN 3 ELSE IF 4 \in indices THEN 1 ELSE 2
Tried == IndexOf(2)
KidName == <<step, "kid">>
HungNow ==
  /\ \E c \in DOMAIN procs : Hung(procs, c, step, boot[step])
  /\ boot[step] # "sleeps" /\ (boot[step] = "watches" => KidName \in killed)
  /\ Paid(IF boot[step] = "waits" THEN 0 ELSE Due(FALSE, boot[step], Tried))
FedNow ==
  /\ \E c, k \in DOMAIN procs : Fed(procs, c, k, step, boot[step])
  /\ boot[step] = "waits" => KidName \notin killed
  /\ Paid(Due(boot[step] # "sleeps" /\ KidName \notin killed, boot[step], Tried))
Idle == Around(procs, {}, step) /\ Paid(0)
Walked ==
  /\ \A n \in killed : n[1] <= step /\ n[2] # "script"
  /\ DOMAIN killIndex \subseteq {2} /\ Tried \subseteq {3, 4}
Booting ==
  /\ step < Len(boot) /\ Walked
  /\ Idle \/ (step > 0 /\ <<step, "command">> \notin killed /\ (HungNow \/ FedNow))
Solvable == prompt /\ Effort < Tries /\ boot[Len(boot)] # "none"
Unblocking ==
  Solvable =>
    IF procPc \in {"wait", "look", "tree"}
    THEN /\ Target \in executed => procPc # "tree" /\ tries <= Effort
         /\ Target \notin executed => Booting
         /\ procPc = "tree" => Calm /\ lastNode = Script
    ELSE answer = Target

LEMMA AheadIsNat ==
  ASSUME BootRight, NEW i \in Nat
  PROVE  Ahead(boot, i) \in Nat
<1> DEFINE B == {j \in DOMAIN boot : j > i /\ boot[j] \in Blocker}
           W == {j \in DOMAIN boot : j > i /\ boot[j] = "watches"}
<1>1. IsFiniteSet(DOMAIN boot)
  <2>1. 1 \in Int /\ Len(boot) \in Int BY BootAssumption DEF BootRight
  <2> QED BY <2>1, FS_Interval DEF BootRight
<1>2. IsFiniteSet(B) /\ IsFiniteSet(W)
  <2>1. B \subseteq DOMAIN boot /\ W \subseteq DOMAIN boot OBVIOUS
  <2> QED BY <1>1, <2>1, FS_Subset
<1>3. Cardinality(B) \in Nat /\ Cardinality(W) \in Nat BY <1>2, FS_CardinalityType
<1>4. Ahead(boot, i) = 2 * Cardinality(B) + Cardinality(W) BY DEF Ahead
<1> HIDE DEF B, W
<1> QED BY <1>3, <1>4

LEMMA AheadOfAll == BootRight => Ahead(boot, 0) = Effort
<1> SUFFICES ASSUME BootRight PROVE Ahead(boot, 0) = Effort OBVIOUS
<1>1. \A j \in DOMAIN boot : j > 0 BY BootAssumption DEF BootRight
<1>2. /\ {j \in DOMAIN boot : j > 0 /\ boot[j] \in Blocker} = {j \in DOMAIN boot : boot[j] \in Blocker}
      /\ {j \in DOMAIN boot : j > 0 /\ boot[j] = "watches"} = {j \in DOMAIN boot : boot[j] = "watches"}
  BY <1>1
<1> QED BY <1>2 DEF Ahead, Effort

LEMMA AheadOfNext ==
  ASSUME BootRight, NEW i \in Nat, i + 1 \in DOMAIN boot, boot[i + 1] \in Blocker
  PROVE  Ahead(boot, i) = Ahead(boot, i + 1) + 2 + (IF boot[i + 1] = "watches" THEN 1 ELSE 0)
<1> DEFINE B(m) == {j \in DOMAIN boot : j > m /\ boot[j] \in Blocker}
           W(m) == {j \in DOMAIN boot : j > m /\ boot[j] = "watches"}
<1>1. IsFiniteSet(DOMAIN boot)
  <2>1. 1 \in Int /\ Len(boot) \in Int BY BootAssumption DEF BootRight
  <2> QED BY <2>1, FS_Interval DEF BootRight
<1>2. \A m : IsFiniteSet(B(m)) /\ IsFiniteSet(W(m))
  <2>1. \A m : B(m) \subseteq DOMAIN boot /\ W(m) \subseteq DOMAIN boot OBVIOUS
  <2> QED BY <1>1, <2>1, FS_Subset
<1>3. \A j \in DOMAIN boot : j \in Int BY BootAssumption DEF BootRight
<1>4. B(i) = B(i + 1) \cup {i + 1} /\ i + 1 \notin B(i + 1) BY <1>3
<1>5. /\ boot[i + 1] = "watches" => W(i) = W(i + 1) \cup {i + 1} /\ i + 1 \notin W(i + 1)
      /\ boot[i + 1] # "watches" => W(i) = W(i + 1)
  BY <1>3
<1>6. \A m : Ahead(boot, m) = 2 * Cardinality(B(m)) + Cardinality(W(m)) BY DEF Ahead
<1> HIDE DEF B, W
<1>7. Cardinality(B(i)) = Cardinality(B(i + 1)) + 1 /\ Cardinality(B(i + 1)) \in Nat
  BY <1>2, <1>4, FS_AddElement, FS_CardinalityType
<1>8. /\ Cardinality(W(i)) = Cardinality(W(i + 1)) + (IF boot[i + 1] = "watches" THEN 1 ELSE 0)
      /\ Cardinality(W(i + 1)) \in Nat
  BY <1>2, <1>5, FS_AddElement, FS_CardinalityType
<1> QED BY <1>6, <1>7, <1>8

(* Who has lost its child, and what stands still.                          *)
LEMMA AroundLives ==
  ASSUME NEW t, IsTree(t), NEW S, NEW i, Around(t, S, i), NEW p \in DOMAIN t \ S
  PROVE  t[p].kid = None /\ t[p].parent \in {0, 1} /\ t[p].name[2] # "command" /\ t[p].name # Target
         /\ (t[p].name = Script => p = 2)
<1>1. CASE p = 1 BY <1>1 DEF IsTree, Proc, InitBinary, Target, Script
<1>2. CASE p = 2 BY <1>2 DEF Around, Proc, Script, Target
<1>3. CASE p \notin {1, 2}
  <2>1. Stray(t, p, i) BY <1>3 DEF Around
  <2> QED BY <2>1 DEF Stray, Target, Script
<1> QED BY <1>1, <1>2, <1>3

LEMMA IdleWaits ==
  ASSUME IsTree(procs), Around(procs, {}, step)
  PROVE  Bereaved = {} /\ ~Hangs /\ Alive(procs, Script) /\ ~Calm
<1>1. \A p \in DOMAIN procs : procs[p].kid = None /\ procs[p].name[2] # "command" BY AroundLives
<1>2. Bereaved = {} BY <1>1 DEF Bereaved
<1>3. ~Hangs BY <1>1 DEF Hangs
<1>4. Alive(procs, Script) BY DEF Around, Alive, Proc
<1> QED BY <1>2, <1>3, <1>4 DEF Calm

LEMMA HungMourns ==
  ASSUME IsTree(procs), step \in Nat, NEW c, NEW kind, Hung(procs, c, step, kind)
  PROVE  Bereaved = (IF kind = "alone" THEN {} ELSE {c}) /\ Hangs
<1>1. /\ c \in DOMAIN procs \ {1, 2} /\ procs[c].name = <<step, "command">>
      /\ procs[c].kid = (IF kind = "alone" THEN None ELSE Kid(step, kind)) /\ procs[c].parent = 2
  BY DEF Hung, Top, Proc
<1>2. \A p \in DOMAIN procs \ {c} : procs[p].kid = None /\ procs[p].parent \in {0, 1}
  BY AroundLives DEF Hung
<1>3. \A p \in DOMAIN procs : procs[p].parent # c
  <2>1. c \notin {0, 1, 2} BY <1>1 DEF IsTree
  <2> QED BY <1>1, <1>2, <2>1
<1>4. Kid(step, kind) # None BY NamesApart
<1>5. Bereaved \subseteq {c} BY <1>2 DEF Bereaved
<1>6. c \in Bereaved <=> kind # "alone" BY <1>1, <1>3, <1>4 DEF Bereaved
<1> QED BY <1>1, <1>5, <1>6 DEF Hangs

LEMMA FedIsCalm ==
  ASSUME IsTree(procs), step \in Nat, NEW c, NEW k, NEW kind, Fed(procs, c, k, step, kind)
  PROVE  Bereaved = {} /\ Hangs
<1>1. /\ c \in DOMAIN procs /\ procs[c].name = <<step, "command">> /\ procs[c].kid = Kid(step, kind)
      /\ k \in DOMAIN procs /\ procs[k].name = Kid(step, kind) /\ procs[k].parent = c /\ procs[k].kid = None
  BY DEF Fed, Top, Sub, Proc
<1>2. \A p \in DOMAIN procs \ {c, k} : procs[p].kid = None BY AroundLives DEF Fed
<1> QED BY <1>1, <1>2 DEF Bereaved, Hangs

(* The walk from the leaf: the child of the command, then the command,     *)
(* then the script, which starts the indices again.                        *)
LEMMA MaxIs ==
  ASSUME NEW S \in SUBSET Int, NEW m \in S, \A y \in S : m >= y
  PROVE  Max(S) = m
<1>1. \A x \in S : (\A y \in S : x >= y) => x = m
  <2> SUFFICES ASSUME NEW x \in S, \A y \in S : x >= y PROVE x = m OBVIOUS
  <2>1. x >= m /\ m >= x /\ x \in Int /\ m \in Int OBVIOUS
  <2> QED BY <2>1
<1>2. Max(S) \in S /\ \A y \in S : Max(S) >= y BY DEF Max
<1> QED BY <1>1, <1>2

LEMMA HighestIndex ==
  ASSUME ~ScriptIsRcS, Walked, NEW n \in {3, 4}, NEW path, DOMAIN path = 1 .. n, path[2] = 2,
         procs[2].name = Script, procs[path[3]].name = <<step, "command">>, <<step, "command">> \notin killed,
         NEW four, four = (n = 4 /\ ~PassedOver(procs[path[4]].name) /\ procs[path[4]].name \notin killed /\ 4 \notin Tried)
  PROVE  Eligible(path) # {} /\ Max(Eligible(path)) = IF four THEN 4 ELSE IF 3 \notin Tried THEN 3 ELSE 2
<1> DEFINE E == Eligible(path)
<1>1. \A i : i \in E <=> /\ i \in 1 .. n /\ ~PassedOver(procs[path[i]].name)
                       /\ procs[path[i]].name \notin killed /\ i \notin Tried
  BY DEF Eligible, Tried
<1>2. 2 \in E
  <2>1. ~PassedOver(Script) BY DEF PassedOver, Script
  <2>2. Script \notin killed BY DEF Walked, Script
  <2>3. 2 \notin Tried BY DEF Walked
  <2> QED BY <1>1, <2>1, <2>2, <2>3
<1>3. 3 \in E <=> 3 \notin Tried
  <2>1. ~PassedOver(<<step, "command">>) BY DEF PassedOver, Script
  <2> QED BY <1>1, <2>1
<1>4. 4 \in E <=> four
  <2>1. 4 \in 1 .. n <=> n = 4 OBVIOUS
  <2>2. 4 \in E <=> n = 4 /\ ~PassedOver(procs[path[4]].name) /\ procs[path[4]].name \notin killed /\ 4 \notin Tried
    BY <1>1, <2>1
  <2> HIDE DEF E
  <2> QED BY <2>2
<1>5. E \subseteq 1 .. 4 BY <1>1
<1> HIDE DEF E
<1>6. E \in SUBSET Int BY <1>5
<1>7. CASE four
  <2>1. 4 \in E /\ \A y \in E : 4 >= y BY <1>4, <1>5, <1>7
  <2> QED BY <1>6, <1>7, <2>1, MaxIs DEF E
<1>8. CASE ~four /\ 3 \notin Tried
  <2>1. 3 \in E /\ \A y \in E : 3 >= y BY <1>3, <1>4, <1>5, <1>8
  <2> QED BY <1>6, <1>8, <2>1, MaxIs DEF E
<1>9. CASE ~four /\ 3 \in Tried
  <2>1. \A y \in E : 2 >= y BY <1>3, <1>4, <1>5, <1>9
  <2> QED BY <1>2, <1>6, <1>9, <2>1, MaxIs DEF E
<1> QED BY <1>7, <1>8, <1>9

LEMMA NotedIs ==
  ASSUME DOMAIN killIndex \subseteq {2}, NEW X, killIndex' = Noted(2, X)
  PROVE  DOMAIN killIndex' = {2} /\ Tried' = X
<1>1. killIndex' = [d \in DOMAIN killIndex \cup {2} |-> IF d = 2 THEN X ELSE killIndex[d]] BY DEF Noted
<1>2. DOMAIN killIndex \cup {2} = {2} OBVIOUS
<1>3. DOMAIN killIndex' = {2} /\ killIndex'[2] = X BY <1>1, <1>2
<1>4. Tried' = IF 2 \in DOMAIN killIndex' THEN killIndex'[2] ELSE {} BY DEF Tried, IndexOf
<1> QED BY <1>3, <1>4

Kills(x, i) ==
  procs' = Killed(procs, {x}) /\ killed' = killed \cup {procs[x].name} /\ Tried' = Tried \cup {i}
StartsAgain == procs' = procs /\ killed' = killed /\ Tried' = {}

LEMMA WalkKillsOne ==
  ASSUME Walked, NEW path, path[2] = 2, NEW i, i # 2, NEW x \in DOMAIN procs, path[i] = x,
         \A p \in DOMAIN procs : procs[p].name = procs[x].name => p = x, KillAt(path, i)
  PROVE  Kills(x, i) /\ DOMAIN killIndex' = {2}
<1>1. Victims(x) = {x} BY DEF Victims
<1>2. KilledNames(x) = {procs[x].name} BY <1>1 DEF KilledNames
<1>3. /\ procs' = Killed(procs, Victims(x)) /\ killed' = killed \cup KilledNames(x)
      /\ killIndex' = Noted(2, Tried \cup {i})
  BY DEF KillAt, Dominant, Tried
<1>4. DOMAIN killIndex' = {2} /\ Tried' = Tried \cup {i} BY <1>3, NotedIs DEF Walked
<1> QED BY <1>1, <1>2, <1>3, <1>4 DEF Kills

LEMMA FedWalk ==
  ASSUME IsTree(procs), ~ScriptIsRcS, Walked, step \in Nat, NEW c, NEW k, NEW kind, Fed(procs, c, k, step, kind),
         <<step, "command">> \notin killed, lastNode = Script, Tree,
         NEW four, four = (kind # "sleeps" /\ KidName \notin killed /\ 4 \notin Tried)
  PROVE  /\ DOMAIN killIndex' = {2}
         /\ IF four THEN Kills(k, 4) ELSE IF 3 \notin Tried THEN Kills(c, 3) ELSE StartsAgain
<1> DEFINE path == <<1, 2, c, k>>
<1>1. /\ c \in DOMAIN procs /\ procs[c].name = <<step, "command">> /\ k \in DOMAIN procs
      /\ procs[k].name = Kid(step, kind) /\ c # k /\ procs[2].name = Script
  BY DEF Fed, Around, Top, Sub, Proc
<1>2. Walk(path)
  <2>1. Deepest(procs) = {k} /\ PathTo(procs, k) = path BY FedDeepest
  <2>2. OnPath(lastNode, path)
    <3>1. 2 \in DOMAIN path /\ path[2] = 2 OBVIOUS
    <3> HIDE DEF path
    <3> QED BY <1>1, <3>1 DEF OnPath
  <2> HIDE DEF path
  <2> QED BY <2>1, <2>2 DEF Tree
<1>3. DOMAIN path = 1 .. 4 /\ path[2] = 2 /\ path[3] = c /\ path[4] = k OBVIOUS
<1> HIDE DEF path
<1>4. PassedOver(procs[k].name) <=> kind = "sleeps"
  <2>1. Kid(step, kind) # Script /\ (Kid(step, kind)[2] = "sleep" <=> kind = "sleeps") BY NamesApart
  <2> QED BY <1>1, <2>1 DEF PassedOver
<1>5. kind # "sleeps" => procs[k].name = KidName BY <1>1 DEF Kid, KidName
<1>6. four = (4 = 4 /\ ~PassedOver(procs[path[4]].name) /\ procs[path[4]].name \notin killed /\ 4 \notin Tried)
  BY <1>3, <1>4, <1>5
<1>7. Eligible(path) # {} /\ Max(Eligible(path)) = IF four THEN 4 ELSE IF 3 \notin Tried THEN 3 ELSE 2
  BY <1>1, <1>3, <1>6, HighestIndex
<1>8. \A p \in DOMAIN procs : procs[p].name = procs[c].name => p = c
  <2>1. procs[k].name # procs[c].name BY <1>1, NamesApart
  <2>2. \A p \in DOMAIN procs \ {c, k} : procs[p].name[2] # "command" BY AroundLives DEF Fed
  <2> QED BY <1>1, <2>1, <2>2
<1>9. \A p \in DOMAIN procs : procs[p].name = procs[k].name => p = k
  <2> SUFFICES ASSUME NEW p \in DOMAIN procs \ {c, k} PROVE procs[p].name # Kid(step, kind)
    BY <1>1, NamesApart
  <2>1. Kid(step, kind) \notin {InitBinary, Script} /\ Kid(step, kind)[1] = step BY NamesApart
  <2>2. CASE p \in {1, 2} BY <2>1, <2>2 DEF IsTree, Fed, Around, Proc
  <2>3. CASE p \notin {1, 2}
    <3>1. procs[p].name[1] <= step - 1 BY <2>3 DEF Fed, Around, Stray
    <3> QED BY <2>1, <3>1
  <2> QED BY <2>2, <2>3
<1>10. CASE four
  <2>1. KillAt(path, 4) BY <1>2, <1>7, <1>10 DEF Walk, Dominant
  <2> QED BY <1>1, <1>3, <1>9, <1>10, <2>1, WalkKillsOne
<1>11. CASE ~four /\ 3 \notin Tried
  <2>1. KillAt(path, 3) BY <1>2, <1>7, <1>11 DEF Walk, Dominant
  <2> QED BY <1>1, <1>3, <1>8, <1>11, <2>1, WalkKillsOne
<1>12. CASE ~four /\ 3 \in Tried
  <2>1. Restart(path) BY <1>2, <1>7, <1>12 DEF Walk, Dominant
  <2>2. killIndex' = Noted(2, {}) /\ procs' = procs /\ killed' = killed BY <1>3, <2>1 DEF Restart, Dominant
  <2>3. DOMAIN killIndex' = {2} /\ Tried' = {} BY <2>2, NotedIs DEF Walked
  <2> QED BY <1>12, <2>2, <2>3 DEF StartsAgain
<1> QED BY <1>10, <1>11, <1>12

LEMMA AloneWalk ==
  ASSUME IsTree(procs), ~ScriptIsRcS, Walked, step \in Nat, NEW c, Hung(procs, c, step, "alone"),
         <<step, "command">> \notin killed, lastNode = Script, Tree
  PROVE  /\ DOMAIN killIndex' = {2}
         /\ IF 3 \notin Tried THEN Kills(c, 3) ELSE StartsAgain
<1> DEFINE path == <<1, 2, c>>
<1>1. c \in DOMAIN procs /\ procs[c].name = <<step, "command">> /\ procs[2].name = Script
  BY DEF Hung, Around, Top, Proc
<1>2. Walk(path)
  <2>1. Deepest(procs) = {c} /\ PathTo(procs, c) = path BY AloneDeepest
  <2>2. OnPath(lastNode, path)
    <3>1. 2 \in DOMAIN path /\ path[2] = 2 OBVIOUS
    <3> HIDE DEF path
    <3> QED BY <1>1, <3>1 DEF OnPath
  <2> HIDE DEF path
  <2> QED BY <2>1, <2>2 DEF Tree
<1>3. DOMAIN path = 1 .. 3 /\ path[2] = 2 /\ path[3] = c OBVIOUS
<1> HIDE DEF path
<1>4. Eligible(path) # {} /\ Max(Eligible(path)) = IF 3 \notin Tried THEN 3 ELSE 2
  <2>1. FALSE = (3 = 4 /\ ~PassedOver(procs[path[4]].name) /\ procs[path[4]].name \notin killed /\ 4 \notin Tried)
    OBVIOUS
  <2> QED BY <1>1, <1>3, <2>1, HighestIndex
<1>5. \A p \in DOMAIN procs : procs[p].name = procs[c].name => p = c
  <2>1. \A p \in DOMAIN procs \ {c} : procs[p].name[2] # "command" BY AroundLives DEF Hung
  <2> QED BY <1>1, <2>1
<1>6. CASE 3 \notin Tried
  <2>1. KillAt(path, 3) BY <1>2, <1>4, <1>6 DEF Walk, Dominant
  <2> QED BY <1>1, <1>3, <1>5, <1>6, <2>1, WalkKillsOne
<1>7. CASE 3 \in Tried
  <2>1. Restart(path) BY <1>2, <1>4, <1>7 DEF Walk, Dominant
  <2>2. killIndex' = Noted(2, {}) /\ procs' = procs /\ killed' = killed BY <1>3, <2>1 DEF Restart, Dominant
  <2>3. DOMAIN killIndex' = {2} /\ Tried' = {} BY <2>2, NotedIs DEF Walked
  <2> QED BY <1>7, <2>2, <2>3 DEF StartsAgain
<1> QED BY <1>6, <1>7

(* One step of the firmware, which only a wait gives it time for.          *)
LEMMA ReadsOnly ==
  ASSUME BootRight, step \in Nat, step < Len(boot), tries \in Nat, NEW n \in Nat, Paid(n), procPc # "tree"
  PROVE  tries <= Effort
<1>1. Ahead(boot, step) \in Nat /\ Effort \in Nat
  <2>1. 0 \in Nat OBVIOUS
  <2> QED BY <2>1, AheadIsNat, AheadOfAll
<1>2. tries + n + Ahead(boot, step) <= Effort + 0 BY DEF Paid
<1> QED BY <1>1, <1>2

LEMMA DueIsNat ==
  ASSUME NEW kid \in BOOLEAN, NEW kind, NEW indices
  PROVE  Due(kid, kind, indices) \in 1 .. 3 /\ ((kid => kind = "waits") => Due(kid, kind, indices) <= 2)
BY DEF Due

LEMMA EffortStays == boot' = boot => Effort' = Effort
BY DEF Effort

LEMMA ProcLevels ==
  ASSUME PInv
  PROVE  /\ step \in Nat /\ tries \in Nat /\ Len(boot) \in Nat /\ DOMAIN boot = 1 .. Len(boot)
         /\ \A n \in killed : n[1] \in Int
         /\ \A i \in 1 .. Len(boot) : i < Len(boot) => boot[i] \in Blocker
<1>1. /\ ProcTypeOK /\ BootRight BY DEF PInv
<1>2. step \in Nat /\ tries \in Nat /\ Len(boot) \in Nat
  <2>1. step \in 0 .. MaxCommands + 2 /\ tries \in 0 .. Tries /\ Len(boot) \in 1 .. MaxCommands + 1
    BY <1>1 DEF ProcTypeOK, BootRight
  <2> QED BY <2>1, BootAssumption
<1>3. \A n \in ProcNames : n[1] \in Int BY BootAssumption DEF ProcNames
<1>4. \A n \in killed : n[1] \in Int BY <1>1, <1>3 DEF ProcTypeOK
<1>5. \A i \in 1 .. Len(boot) : i < Len(boot) => i \in 1 .. Len(boot) - 1 BY <1>2
<1> QED BY <1>1, <1>2, <1>4, <1>5 DEF BootRight

(* The script goes on to a command that hangs: the next is due.            *)
LEMMA CommandBoots ==
  ASSUME PInv, Booting, NextCommand, procPc # "tree", Target \notin executed', boot[Len(boot)] # "none",
         executed' = executed \cup {procs'[p].name : p \in DOMAIN procs'},
         UNCHANGED <<boot, procPc, tries, killed, killIndex>>
  PROVE  Booting'
<1>1. step \in Nat /\ tries \in Nat BY ProcLevels
<1>2. Len(boot) \in Nat /\ DOMAIN boot = 1 .. Len(boot) BY ProcLevels
<1>3. \A n \in killed : n[1] \in Int BY ProcLevels
<1>4. \A i \in 1 .. Len(boot) : i < Len(boot) => boot[i] \in Blocker BY ProcLevels
<1>5. IsTree(procs) /\ BootRight /\ step < Len(boot) /\ Walked BY DEF PInv, Booting
<1>6. Idle
  <2>1. ~Hangs BY DEF NextCommand
  <2>2. \A c \in DOMAIN procs : ~Hung(procs, c, step, boot[step]) BY <1>1, <1>5, <2>1, HungMourns
  <2>3. \A c, k \in DOMAIN procs : ~Fed(procs, c, k, step, boot[step]) BY <1>1, <1>5, <2>1, FedIsCalm
  <2> QED BY <2>2, <2>3 DEF Booting, HungNow, FedNow
<1>7. Around(procs, {}, step) /\ Paid(0) BY <1>6 DEF Idle
<1>8. ScriptPid = 2
  <2>1. 2 \in DOMAIN procs /\ procs[2].name = Script BY <1>7 DEF Around, Proc
  <2>2. \A p \in DOMAIN procs : procs[p].name = Script => p = 2 BY DEF PInv, Scripted
  <2> QED BY <2>1, <2>2 DEF ScriptPid
<1> SUFFICES ASSUME NEW i \in Nat, i = step + 1, NEW kind, kind = boot[i] PROVE Booting'
  BY <1>1
<1>9. i = step' /\ i \in 1 .. Len(boot) /\ i - 1 = step /\ i \in 0 .. MaxCommands + 1 /\ (i < Len(boot) \/ i = Len(boot))
  <2>1. Len(boot) \in 1 .. MaxCommands + 1 /\ MaxCommands \in Nat BY <1>5, BootAssumption DEF BootRight
  <2>2. step' = i BY DEF NextCommand
  <2>3. i <= Len(boot) /\ i >= 1 BY <1>1, <1>2, <1>5
  <2>4. i \in 1 .. Len(boot) /\ i - 1 = step BY <1>1, <1>2, <2>3
  <2>5. i < Len(boot) \/ i = Len(boot) BY <1>2, <2>3
  <2>6. i \in 0 .. MaxCommands + 1 BY <1>2, <2>1, <2>3
  <2> QED BY <2>2, <2>4, <2>5, <2>6
<1>10. procs' = Command(i, kind)
  <2>1. kind # "none"
    <3>1. "none" \notin Blocker BY DEF Blocker
    <3> QED BY <1>4, <1>9, <3>1
  <2>2. ~(i > Len(boot)) BY <1>2, <1>9
  <2> QED BY <1>9, <2>1, <2>2 DEF NextCommand
<1>11. i < Len(boot)
  <2> SUFFICES ASSUME i = Len(boot) PROVE FALSE BY <1>9
  <2>1. kind \in {"target", "watched"} BY <1>5 DEF BootRight, LastCommand
  <2>2. "target" \notin Blocker /\ "watched" \notin Blocker BY DEF Blocker
  <2>3. \A p \in DOMAIN procs' : procs'[p].name # Target OBVIOUS
  <2> DEFINE it == Proc(Target, ScriptPid, None, FALSE)
             dog == Proc(<<i, "kid">>, ScriptPid, Target, TRUE)
  <2>4. it.name = Target BY DEF Proc
  <2>5. 2 \in DOMAIN procs BY <1>7 DEF Around
  <2>6. CASE kind = "target"
    <3>1. procs' = Started(procs, it) BY <1>10, <2>2, <2>6 DEF Command
    <3> HIDE DEF it
    <3>2. NewPid(procs) \in DOMAIN procs'
      <4>1. DOMAIN procs' = DOMAIN procs \cup {NewPid(procs)} BY <1>5, <3>1, StartedDomain
      <4> QED BY <4>1
    <3>3. procs'[NewPid(procs)] = it BY <1>5, <3>1, StartedValues
    <3> QED BY <2>3, <2>4, <3>2, <3>3
  <2>7. CASE kind = "watched"
    <3> DEFINE v == Started(procs, dog)
               child == Proc(Target, NewPid(procs), None, FALSE)
    <3>1. procs' = Started(v, child) BY <1>10, <2>2, <2>7 DEF Command, StartedWith
    <3>2. IsTree(v)
      <4>1. dog \in ChildOf(DOMAIN procs)
        <5>1. <<i, "kid">> \in ProcNames BY <1>9 DEF ProcNames
        <5> QED BY <1>8, <2>5, <5>1, TargetIsName DEF Proc, ChildOf
      <4>2. v = Started(procs, dog) OBVIOUS
      <4> HIDE DEF v, dog
      <4> QED BY <1>5, <4>1, <4>2, StartedTree
    <3>3. child.name = Target BY DEF Proc
    <3> HIDE DEF v, child
    <3>4. NewPid(v) \in DOMAIN procs'
      <4>1. DOMAIN procs' = DOMAIN v \cup {NewPid(v)} BY <3>1, <3>2, StartedDomain
      <4> QED BY <4>1
    <3>5. procs'[NewPid(v)] = child BY <3>1, <3>2, StartedValues
    <3> QED BY <2>3, <3>3, <3>4, <3>5
  <2> QED BY <2>1, <2>6, <2>7
<1>12. kind \in Blocker BY <1>4, <1>9, <1>11
<1>13. <<i, "command">> \notin killed /\ <<i, "kid">> \notin killed
  <2>1. \A n \in killed : n[1] \in Int /\ n[1] <= step BY <1>3, <1>5 DEF Walked
  <2>2. ~(i <= step) BY <1>1
  <2>3. \A m : <<i, m>>[1] = i OBVIOUS
  <2> QED BY <2>1, <2>2, <2>3
<1>14. Walked'
  <2>1. \A n \in killed : n[1] \in Int /\ n[1] <= step BY <1>3, <1>5 DEF Walked
  <2>2. \A n \in killed : n[1] <= i BY <1>1, <2>1
  <2>3. Tried' = Tried BY DEF Tried, IndexOf
  <2> QED BY <1>5, <1>9, <2>2, <2>3 DEF Walked
<1>15. \A n \in Nat : n <= 2 + (IF kind = "watches" THEN 1 ELSE 0) =>
         tries' + n + Ahead(boot', step') <= Effort' + (IF procPc' = "tree" THEN 1 ELSE 0)
  <2>1. Ahead(boot, step) = Ahead(boot, i) + 2 + (IF kind = "watches" THEN 1 ELSE 0)
    BY <1>1, <1>2, <1>5, <1>9, <1>12, AheadOfNext
  <2>2. Ahead(boot, i) \in Nat /\ Effort \in Nat /\ Effort' = Effort
    <3>1. 0 \in Nat OBVIOUS
    <3> QED BY <1>5, <3>1, AheadIsNat, AheadOfAll, EffortStays
  <2>3. tries + 0 + Ahead(boot, step) <= Effort + 0 BY <1>7 DEF Paid
  <2>4. \A n \in Nat : n <= 2 + (IF kind = "watches" THEN 1 ELSE 0) => tries + n + Ahead(boot, i) <= Effort + 0
    BY <1>1, <2>1, <2>2, <2>3
  <2> QED BY <1>9, <2>2, <2>4
<1>16. CASE kind = "alone"
  <2>1. procs' = Started(procs, Top(i, "alone")) BY <1>8, <1>10, <1>12, <1>16 DEF Command, Top
  <2>2. Hung(procs', NewPid(procs), i, "alone") BY <1>5, <1>7, <1>9, <2>1, AloneHangs
  <2>3. \E c \in DOMAIN procs' : Hung(procs', c, i, kind) BY <1>16, <2>2 DEF Hung
  <2>4. Due(FALSE, kind, Tried') \in Nat /\ Due(FALSE, kind, Tried') <= 2 BY DEF Due
  <2>5. tries' + Due(FALSE, kind, Tried') + Ahead(boot', step') <= Effort' + (IF procPc' = "tree" THEN 1 ELSE 0)
    <3> SUFFICES ASSUME NEW d \in Nat, d <= 2
                 PROVE  tries' + d + Ahead(boot', step') <= Effort' + (IF procPc' = "tree" THEN 1 ELSE 0)
      BY <2>4
    <3>1. d <= 2 + (IF kind = "watches" THEN 1 ELSE 0) BY <1>16
    <3> QED BY <1>15, <3>1
  <2>6. HungNow'
    <3>1. kind = boot'[step'] BY <1>9
    <3> QED BY <1>9, <1>16, <2>3, <2>5, <3>1 DEF HungNow, Paid
  <2> QED BY <1>9, <1>11, <1>13, <1>14, <2>6 DEF Booting
<1>17. CASE kind # "alone"
  <2>1. procs' = StartedWith(procs, Top(i, kind), Kid(i, kind)) BY <1>8, <1>10, <1>12, <1>17 DEF Command, Top
  <2>2. \E c, k \in DOMAIN procs' : Fed(procs', c, k, i, kind)
    BY <1>5, <1>7, <1>9, <1>12, <1>17, <2>1, CommandHangs
  <2> DEFINE kid == kind # "sleeps" /\ <<i, "kid">> \notin killed
  <2>3. Due(kid, kind, Tried') \in Nat /\ Due(kid, kind, Tried') <= 2 + (IF kind = "watches" THEN 1 ELSE 0)
    BY <1>12, <1>17 DEF Due, Blocker
  <2>4. tries' + Due(kid, kind, Tried') + Ahead(boot', step') <= Effort' + (IF procPc' = "tree" THEN 1 ELSE 0)
    <3> HIDE DEF kid
    <3> QED BY <1>15, <2>3
  <2>5. FedNow'
    <3>1. kind = boot'[step'] /\ KidName' = <<i, "kid">> /\ killed' = killed BY <1>9 DEF KidName
    <3> QED BY <1>9, <1>13, <2>2, <2>4, <3>1 DEF FedNow, Paid
  <2> QED BY <1>9, <1>11, <1>13, <1>14, <2>5 DEF Booting
<1> QED BY <1>16, <1>17

(* The command that has lost its child starts it again, or ends.           *)
LEMMA ChildDiedBoots ==
  ASSUME PInv, Booting, NEW p, ChildDied(p), UNCHANGED <<boot, procPc, tries, killed, killIndex>>
  PROVE  Booting'
<1>1. step \in Nat /\ tries \in Nat BY ProcLevels
<1>2. Len(boot) \in Nat /\ DOMAIN boot = 1 .. Len(boot) BY ProcLevels
<1>3. IsTree(procs) /\ BootRight /\ step < Len(boot) /\ Walked BY DEF PInv, Booting
<1>4. p \in Bereaved /\ step' = step BY DEF ChildDied
<1>5. ~Idle BY <1>3, <1>4, IdleWaits DEF Idle
<1>6. ~FedNow BY <1>1, <1>3, <1>4, FedIsCalm DEF FedNow
<1>7. HungNow /\ step > 0 /\ <<step, "command">> \notin killed BY <1>5, <1>6 DEF Booting
<1> SUFFICES ASSUME NEW kind, kind = boot[step] PROVE Booting'
  OBVIOUS
<1>8. PICK c \in DOMAIN procs : Hung(procs, c, step, kind) BY <1>7 DEF HungNow
<1>9. p = c /\ kind # "alone" BY <1>1, <1>3, <1>4, <1>8, HungMourns
<1>10. kind \in Blocker
  <2>1. \A i \in 1 .. Len(boot) : i < Len(boot) => boot[i] \in Blocker BY ProcLevels
  <2>2. step \in 1 .. Len(boot) BY <1>1, <1>2, <1>3, <1>7
  <2> QED BY <1>3, <2>1, <2>2
<1>11. procs[c].kid = Kid(step, kind) /\ procs[c].watch = (kind = "watches")
  BY <1>8, <1>9 DEF Hung, Top, Proc
<1>12. procs' = IF kind = "watches" THEN Started(procs, Sub(c, step, kind)) ELSE Killed(procs, {c})
  BY <1>9, <1>11 DEF ChildDied, Sub
<1>13. Effort' = Effort /\ KidName' = KidName /\ Tried' = Tried
  BY <1>4, EffortStays DEF KidName, Tried, IndexOf
<1>14. Walked' BY <1>3, <1>4, <1>13 DEF Walked
<1>15. kind # "sleeps" /\ (kind = "watches" => KidName \in killed)
      /\ Paid(IF kind = "waits" THEN 0 ELSE Due(FALSE, kind, Tried))
  BY <1>7 DEF HungNow
<1>16. CASE kind = "watches"
  <2>1. procs' = Started(procs, Sub(c, step, kind)) BY <1>12, <1>16
  <2>2. Fed(procs', c, NewPid(procs), step, kind) BY <1>1, <1>3, <1>8, <1>9, <1>10, <2>1, FedAgain
  <2>3. \E d, k \in DOMAIN procs' : Fed(procs', d, k, step, kind) BY <2>2 DEF Fed
  <2>4. kind # "waits" /\ Paid(Due(FALSE, kind, Tried)) BY <1>15, <1>16
  <2>5. FedNow'
    <3>1. kind = boot'[step'] BY <1>4
    <3>2. tries' + Due(FALSE, kind, Tried') + Ahead(boot', step') <= Effort' + (IF procPc' = "tree" THEN 1 ELSE 0)
      BY <1>4, <1>13, <2>4 DEF Paid
    <3>3. KidName' \in killed' BY <1>13, <1>15, <1>16
    <3> QED BY <1>4, <2>3, <2>4, <3>1, <3>2, <3>3 DEF FedNow, Paid
  <2> QED BY <1>3, <1>4, <1>7, <1>14, <2>5 DEF Booting
<1>17. CASE kind # "watches"
  <2>1. kind = "waits" BY <1>9, <1>10, <1>15, <1>17 DEF Blocker
  <2>2. procs' = Killed(procs, {c}) BY <1>12, <1>17
  <2>3. Around(procs', {}, step) BY <1>1, <1>3, <1>8, <2>2, TopDies
  <2>4. Paid(0)
    <3>1. "waits" = "waits" OBVIOUS
    <3> QED BY <1>15, <2>1, <3>1
  <2>5. Idle' BY <1>4, <1>13, <2>3, <2>4 DEF Idle, Paid
  <2> QED BY <1>3, <1>4, <1>14, <2>5 DEF Booting
<1> QED BY <1>16, <1>17

LEMMA PaysOne ==
  ASSUME PInv, procPc = "tree", procPc' = "look", UNCHANGED <<boot, tries, step>>, step < Len(boot),
         NEW n \in Nat, Paid(n), NEW m \in Nat, m < n
  PROVE  tries' + m + Ahead(boot', step') <= Effort' + (IF procPc' = "tree" THEN 1 ELSE 0)
<1>1. step \in Nat /\ tries \in Nat BY ProcLevels
<1>2. Ahead(boot, step) \in Nat /\ Effort \in Nat /\ Effort' = Effort
  <2>1. 0 \in Nat /\ BootRight BY DEF PInv
  <2> QED BY <1>1, <2>1, AheadIsNat, AheadOfAll, EffortStays
<1>3. tries + n + Ahead(boot, step) <= Effort + 1 BY DEF Paid
<1>4. tries + m + Ahead(boot, step) <= Effort + 0 BY <1>1, <1>2, <1>3
<1> QED BY <1>2, <1>4

LEMMA WalkedOn ==
  ASSUME PInv, Walked, step' = step, DOMAIN killIndex' = {2}, NEW i \in {3, 4},
         \/ StartsAgain
         \/ Tried' = Tried \cup {i} /\ \E s \in {"kid", "sleep", "command"} : killed' = killed \cup {<<step, s>>}
  PROVE  Walked'
<1>1. step \in Nat BY ProcLevels
<1>2. Tried' \subseteq {3, 4} BY DEF StartsAgain, Walked
<1>3. \A n \in killed' : n[1] <= step /\ n[2] # "script"
  <2>1. \A n \in killed : n[1] <= step /\ n[2] # "script" BY DEF Walked
  <2>2. \A s : <<step, s>>[1] = step /\ <<step, s>>[2] = s OBVIOUS
  <2>3. step <= step BY <1>1
  <2> QED BY <2>1, <2>2, <2>3 DEF StartsAgain
<1> QED BY <1>2, <1>3 DEF Walked

(* Each look at the tree pays one try.                                     *)
LEMMA AloneBoots ==
  ASSUME PInv, Booting, ~ScriptIsRcS, lastNode = Script, Tree, step > 0, <<step, "command">> \notin killed,
         NEW c, Hung(procs, c, step, "alone"), boot[step] = "alone", Paid(Due(FALSE, "alone", Tried))
  PROVE  Booting'
<1>1. step \in Nat /\ tries \in Nat BY ProcLevels
<1>2. IsTree(procs) /\ BootRight /\ step < Len(boot) /\ Walked BY DEF PInv, Booting
<1>3. procPc = "tree" /\ procPc' = "look" /\ UNCHANGED <<boot, tries, step>> BY DEF Tree, booted
<1>4. DOMAIN killIndex' = {2} /\ IF 3 \notin Tried THEN Kills(c, 3) ELSE StartsAgain BY <1>1, <1>2, AloneWalk
<1>5. CASE 3 \notin Tried
  <2>1. procs[c].name = <<step, "command">> BY DEF Hung, Top, Proc
  <2>2. /\ procs' = Killed(procs, {c}) /\ killed' = killed \cup {<<step, "command">>}
        /\ Tried' = Tried \cup {3}
    BY <1>4, <1>5, <2>1 DEF Kills
  <2>3. Around(procs', {}, step) BY <1>1, <1>2, <2>2, TopDies
  <2>4. Walked' BY <1>2, <1>3, <1>4, <2>2, WalkedOn
  <2>5. tries' + 0 + Ahead(boot', step') <= Effort' + (IF procPc' = "tree" THEN 1 ELSE 0)
    <3>1. Due(FALSE, "alone", Tried) = 1 BY <1>5 DEF Due
    <3>2. Paid(1) BY <3>1
    <3> QED BY <1>2, <1>3, <3>2, PaysOne
  <2>6. Idle' BY <1>3, <2>3, <2>5 DEF Idle, Paid
  <2> QED BY <1>2, <1>3, <2>4, <2>6 DEF Booting
<1>6. CASE 3 \in Tried
  <2>1. StartsAgain BY <1>4, <1>6
  <2>2. procs' = procs /\ killed' = killed /\ Tried' = {} BY <2>1 DEF StartsAgain
  <2>3. Walked' BY <1>2, <1>3, <1>4, <2>1, WalkedOn
  <2>4. Due(FALSE, "alone", Tried') = 1 BY <2>2 DEF Due
  <2>5. tries' + 1 + Ahead(boot', step') <= Effort' + (IF procPc' = "tree" THEN 1 ELSE 0)
    <3>1. Due(FALSE, "alone", Tried) = 2 BY <1>6 DEF Due
    <3>2. Paid(2) BY <3>1
    <3> QED BY <1>2, <1>3, <3>2, PaysOne
  <2>6. HungNow'
    <3>1. \E d \in DOMAIN procs' : Hung(procs', d, step, "alone") BY <2>2 DEF Hung
    <3>2. boot'[step'] = "alone" BY <1>3
    <3> QED BY <1>3, <2>4, <2>5, <3>1, <3>2 DEF HungNow, Paid
  <2> QED BY <1>2, <1>3, <2>2, <2>3, <2>6 DEF Booting
<1> QED BY <1>5, <1>6

LEMMA FedBoots ==
  ASSUME PInv, Booting, ~ScriptIsRcS, lastNode = Script, Tree, step > 0, <<step, "command">> \notin killed,
         NEW kind, kind = boot[step], NEW c, NEW k \in DOMAIN procs, Fed(procs, c, k, step, kind),
         kind = "waits" => KidName \notin killed,
         NEW kid, kid = (kind # "sleeps" /\ KidName \notin killed), Paid(Due(kid, kind, Tried))
  PROVE  Booting'
<1>1. step \in Nat /\ tries \in Nat BY ProcLevels
<1>2. IsTree(procs) /\ BootRight /\ step < Len(boot) /\ Walked BY DEF PInv, Booting
<1>3. procPc = "tree" /\ procPc' = "look" /\ UNCHANGED <<boot, tries, step>> BY DEF Tree, booted
<1>4. kind \in Blocker \ {"alone"} /\ c \in DOMAIN procs
  <2>1. \A i \in 1 .. Len(boot) : i < Len(boot) => boot[i] \in Blocker BY ProcLevels
  <2>2. step \in 1 .. Len(boot) BY <1>1, <1>2, ProcLevels
  <2> QED BY <1>2, <2>1, <2>2 DEF Fed
<1> SUFFICES ASSUME NEW four, four = (kid /\ 4 \notin Tried) PROVE Booting'
  OBVIOUS
<1>5. DOMAIN killIndex' = {2} /\ IF four THEN Kills(k, 4) ELSE IF 3 \notin Tried THEN Kills(c, 3) ELSE StartsAgain
  <2>1. four = (kind # "sleeps" /\ KidName \notin killed /\ 4 \notin Tried) OBVIOUS
  <2> QED BY <1>1, <1>2, <2>1, FedWalk
<1>6. procs[c].name = <<step, "command">> /\ procs[k].name = Kid(step, kind) BY DEF Fed, Top, Sub, Proc
<1>7. KidName' = KidName /\ KidName # <<step, "command">> BY <1>3 DEF KidName
<1>8. kid \in BOOLEAN /\ Due(kid, kind, Tried) \in 1 .. 3 BY DEF Due
<1>9. boot'[step'] = kind BY <1>3
<1>10. CASE four
  <2>1. kind \in {"waits", "watches"} /\ Kid(step, kind) = KidName BY <1>4, <1>10 DEF Blocker, Kid, KidName
  <2>2. procs' = Killed(procs, {k}) /\ killed' = killed \cup {KidName} /\ Tried' = Tried \cup {4}
    BY <1>5, <1>6, <1>10, <2>1 DEF Kills
  <2>3. Hung(procs', c, step, kind) BY <1>1, <1>2, <2>2, SubDies
  <2>4. Walked' BY <1>2, <1>3, <1>5, <2>2, WalkedOn DEF KidName
  <2>5. CASE kind = "waits"
    <3>1. tries' + 0 + Ahead(boot', step') <= Effort' + (IF procPc' = "tree" THEN 1 ELSE 0)
      <4> SUFFICES ASSUME NEW n \in Nat, n = Due(kid, kind, Tried)
                   PROVE  tries' + 0 + Ahead(boot', step') <= Effort' + (IF procPc' = "tree" THEN 1 ELSE 0)
        BY <1>8
      <4>1. Paid(n) /\ 0 < n BY <1>8
      <4> QED BY <1>2, <1>3, <4>1, PaysOne
    <3>2. HungNow'
      <4>1. \E d \in DOMAIN procs' : Hung(procs', d, step, kind) BY <2>3 DEF Hung
      <4> QED BY <1>3, <1>9, <2>5, <3>1, <4>1 DEF HungNow, Paid
    <3> QED BY <1>2, <1>3, <1>7, <2>2, <2>4, <3>2 DEF Booting
  <2>6. CASE kind = "watches"
    <3> SUFFICES ASSUME NEW m \in Nat, m = IF 3 \in Tried THEN 2 ELSE 1, NEW n \in Nat, n = m + 1
                 PROVE  Booting'
      OBVIOUS
    <3>1. Due(FALSE, kind, Tried') = m BY <2>2 DEF Due
    <3>2. Due(kid, kind, Tried) = n
      <4>1. kid /\ 4 \notin Tried BY <1>10
      <4>2. Due(kid, kind, Tried) = IF 3 \in Tried THEN 3 ELSE 2 BY <2>6, <4>1 DEF Due
      <4> QED BY <4>2
    <3>3. m < n /\ Paid(n) BY <3>2
    <3>4. tries' + m + Ahead(boot', step') <= Effort' + (IF procPc' = "tree" THEN 1 ELSE 0)
      BY <1>2, <1>3, <3>3, PaysOne
    <3>5. HungNow'
      <4>1. \E d \in DOMAIN procs' : Hung(procs', d, step, kind) BY <2>3 DEF Hung
      <4>2. KidName' \in killed' BY <1>7, <2>2
      <4> QED BY <1>3, <1>9, <2>6, <3>1, <3>4, <4>1, <4>2 DEF HungNow, Paid
    <3> QED BY <1>2, <1>3, <1>7, <2>2, <2>4, <3>5 DEF Booting
  <2> QED BY <2>1, <2>5, <2>6
<1>11. CASE ~four /\ 3 \notin Tried
  <2>1. procs' = Killed(procs, {c}) /\ killed' = killed \cup {<<step, "command">>} /\ Tried' = Tried \cup {3}
    BY <1>5, <1>6, <1>11 DEF Kills
  <2>2. Around(procs', {}, step) BY <1>1, <1>2, <2>1, TopDies
  <2>3. Walked' BY <1>2, <1>3, <1>5, <2>1, WalkedOn
  <2>4. tries' + 0 + Ahead(boot', step') <= Effort' + (IF procPc' = "tree" THEN 1 ELSE 0)
    <3> SUFFICES ASSUME NEW n \in Nat, n = Due(kid, kind, Tried)
                 PROVE  tries' + 0 + Ahead(boot', step') <= Effort' + (IF procPc' = "tree" THEN 1 ELSE 0)
      BY <1>8
    <3>1. Paid(n) /\ 0 < n BY <1>8
    <3> QED BY <1>2, <1>3, <3>1, PaysOne
  <2>5. Idle' BY <1>3, <2>2, <2>4 DEF Idle, Paid
  <2> QED BY <1>2, <1>3, <2>3, <2>5 DEF Booting
<1>12. CASE ~four /\ 3 \in Tried
  <2>1. StartsAgain BY <1>5, <1>12
  <2>2. procs' = procs /\ killed' = killed /\ Tried' = {} BY <2>1 DEF StartsAgain
  <2>3. Walked' BY <1>2, <1>3, <1>5, <2>1, WalkedOn
  <2> SUFFICES ASSUME NEW n \in Nat, n = Due(kid, kind, Tried), NEW m \in Nat, m = Due(kid, kind, Tried')
               PROVE  Booting'
    <3>1. Due(kid, kind, Tried') \in Nat BY DEF Due
    <3> QED BY <1>8, <3>1
  <2>4. m < n
    <3>1. CASE ~kid
      <4>1. n = 2 /\ m = 1 BY <1>12, <2>2, <3>1 DEF Due
      <4> QED BY <4>1
    <3>2. CASE kid
      <4>1. {3, 4} \subseteq Tried BY <1>12, <3>2
      <4>2. n = IF kind = "waits" THEN 2 ELSE 3 BY <3>2, <4>1 DEF Due
      <4>3. m = IF kind = "waits" THEN 1 ELSE 2 BY <2>2, <3>2 DEF Due
      <4> QED BY <4>2, <4>3
    <3> QED BY <3>1, <3>2
  <2>5. tries' + m + Ahead(boot', step') <= Effort' + (IF procPc' = "tree" THEN 1 ELSE 0)
    BY <1>2, <1>3, <2>4, PaysOne
  <2>6. FedNow'
    <3>1. \E d, l \in DOMAIN procs' : Fed(procs', d, l, step, kind) BY <1>4, <2>2
    <3>2. kid = (kind # "sleeps" /\ KidName' \notin killed') BY <1>7, <2>2
    <3> QED BY <1>3, <1>7, <1>9, <2>2, <2>5, <3>1, <3>2 DEF FedNow, Paid
  <2> QED BY <1>2, <1>3, <2>2, <2>3, <2>6 DEF Booting
<1> QED BY <1>10, <1>11, <1>12

LEMMA TreeBoots ==
  ASSUME PInv, Booting, Calm, Tree, lastNode = Script, ~ScriptIsRcS
  PROVE  Booting'
<1>1. step \in Nat BY ProcLevels
<1>2. IsTree(procs) BY DEF PInv
<1>3. ~Idle BY <1>2, IdleWaits DEF Idle
<1>4. step > 0 /\ <<step, "command">> \notin killed /\ (HungNow \/ FedNow) BY <1>3 DEF Booting
<1>5. CASE HungNow
  <2>1. PICK c \in DOMAIN procs : Hung(procs, c, step, boot[step]) BY <1>5 DEF HungNow
  <2>2. boot[step] = "alone" BY <1>1, <1>2, <2>1, HungMourns DEF Calm
  <2>3. Paid(Due(FALSE, "alone", Tried))
    <3>1. "alone" # "waits" OBVIOUS
    <3> QED BY <1>5, <2>2, <3>1 DEF HungNow
  <2> QED BY <1>4, <2>1, <2>2, <2>3, AloneBoots
<1>6. CASE FedNow
  <2>1. PICK c, k \in DOMAIN procs : Fed(procs, c, k, step, boot[step]) BY <1>6 DEF FedNow
  <2> SUFFICES ASSUME NEW kind, kind = boot[step], NEW kid, kid = (kind # "sleeps" /\ KidName \notin killed)
               PROVE  Booting'
    OBVIOUS
  <2>2. (kind = "waits" => KidName \notin killed) /\ Paid(Due(kid, kind, Tried)) BY <1>6 DEF FedNow
  <2> QED BY <1>4, <2>1, <2>2, FedBoots
<1> QED BY <1>4, <1>5, <1>6

LEMMA UnblockingStarts == ProcInit => Unblocking
<1> SUFFICES ASSUME ProcInit, Solvable PROVE Unblocking BY DEF Unblocking
<1>1. PInv BY PInit
<1>2. step = 0 /\ procPc = "wait" /\ executed = {InitBinary, Script} /\ tries = 0 /\ killed = {} /\ killIndex = << >>
  BY DEF ProcInit
<1>3. Target \notin executed BY <1>2 DEF Target, InitBinary, Script
<1>4. Around(procs, {}, 0)
  <2>1. procs = [p \in 1 .. 2 |-> IF p = 1 THEN Proc(InitBinary, 0, None, FALSE) ELSE Proc(Script, 1, None, FALSE)]
    BY DEF ProcInit
  <2>2. 1 .. 2 = {1, 2} OBVIOUS
  <2>3. DOMAIN procs = {1, 2} /\ procs[2] = Proc(Script, 1, None, FALSE) BY <2>1, <2>2
  <2> QED BY <2>3 DEF Around
<1>5. Paid(0)
  <2>1. BootRight /\ 0 \in Nat BY <1>1 DEF PInv
  <2>2. Ahead(boot, 0) = Effort /\ Effort \in Nat BY <2>1, AheadOfAll, AheadIsNat
  <2> QED BY <1>2, <2>2 DEF Paid
<1>6. Walked
  <2>1. DOMAIN killIndex = {} BY <1>2
  <2>2. Tried = {} BY <2>1 DEF Tried, IndexOf
  <2> QED BY <1>2, <2>1, <2>2 DEF Walked
<1>7. Booting
  <2>1. 0 < Len(boot)
    <3>1. Len(boot) \in 1 .. MaxCommands + 1 BY <1>1 DEF PInv, BootRight
    <3> QED BY <3>1, BootAssumption
  <2> QED BY <1>2, <1>4, <1>5, <1>6, <2>1 DEF Booting, Idle
<1> QED BY <1>2, <1>3, <1>7 DEF Unblocking

LEMMA BootingHasNoTarget ==
  ASSUME PInv, Booting
  PROVE  ~Alive(procs, Target) /\ Alive(procs, Script) /\ (procPc # "tree" => tries <= Effort)
<1>1. step \in Nat /\ tries \in Nat BY ProcLevels
<1>2. IsTree(procs) /\ BootRight /\ step < Len(boot) BY DEF PInv, Booting
<1>3. ASSUME NEW S, NEW i, Around(procs, S, i), \A p \in S : procs[p].name # Target
      PROVE  ~Alive(procs, Target) /\ Alive(procs, Script)
  <2>1. \A p \in DOMAIN procs \ S : procs[p].name # Target BY <1>2, <1>3, AroundLives
  <2>2. 2 \in DOMAIN procs /\ procs[2].name = Script BY <1>3 DEF Around, Proc
  <2> QED BY <1>3, <2>1, <2>2 DEF Alive
<1>4. ASSUME NEW n \in Nat, Paid(n) PROVE procPc # "tree" => tries <= Effort BY <1>1, <1>2, <1>4, ReadsOnly
<1>5. CASE Idle
  <2>1. 0 \in Nat /\ Paid(0) /\ Around(procs, {}, step) BY <1>5 DEF Idle
  <2> QED BY <1>3, <1>4, <2>1
<1>6. CASE HungNow
  <2>1. PICK c \in DOMAIN procs : Hung(procs, c, step, boot[step]) BY <1>6 DEF HungNow
  <2>2. procs[c].name # Target /\ Around(procs, {c}, step - 1)
    BY <1>1, <2>1, NamesApart DEF Hung, Top, Proc
  <2>3. \A p \in {c} : procs[p].name # Target BY <2>2
  <2> SUFFICES ASSUME NEW n, n = (IF boot[step] = "waits" THEN 0 ELSE Due(FALSE, boot[step], Tried))
               PROVE  ~Alive(procs, Target) /\ Alive(procs, Script) /\ (procPc # "tree" => tries <= Effort)
    OBVIOUS
  <2>4. n \in Nat BY DEF Due
  <2>5. Paid(n) BY <1>6 DEF HungNow
  <2>6. ~Alive(procs, Target) /\ Alive(procs, Script) BY <1>3, <2>2, <2>3
  <2>7. procPc # "tree" => tries <= Effort BY <1>4, <2>4, <2>5
  <2> QED BY <2>6, <2>7
<1>7. CASE FedNow
  <2>1. PICK c, k \in DOMAIN procs : Fed(procs, c, k, step, boot[step]) BY <1>7 DEF FedNow
  <2>2. procs[c].name # Target /\ procs[k].name # Target /\ Around(procs, {c, k}, step - 1)
    BY <1>1, <2>1, NamesApart DEF Fed, Top, Sub, Proc
  <2>3. \A p \in {c, k} : procs[p].name # Target BY <2>2
  <2> SUFFICES ASSUME NEW kid \in BOOLEAN, kid = (boot[step] # "sleeps" /\ KidName \notin killed),
                      NEW n, n = Due(kid, boot[step], Tried)
               PROVE  ~Alive(procs, Target) /\ Alive(procs, Script) /\ (procPc # "tree" => tries <= Effort)
    OBVIOUS
  <2>4. n \in Nat BY DEF Due
  <2>5. Paid(n) BY <1>7 DEF FedNow
  <2>6. ~Alive(procs, Target) /\ Alive(procs, Script) BY <1>3, <2>2, <2>3
  <2>7. procPc # "tree" => tries <= Effort BY <1>4, <2>4, <2>5
  <2> QED BY <2>6, <2>7
<1> QED BY <1>5, <1>6, <1>7 DEF Booting

LEMMA Balance ==
  ASSUME NEW t \in Nat, NEW u \in Nat, NEW n \in Nat, NEW d \in Nat, NEW e \in Nat, NEW a \in Nat, NEW b \in Nat,
         u + a = t + b, t + n + d <= e + a
  PROVE  u + n + d <= e + b
OBVIOUS

LEMMA BootingStays ==
  ASSUME Booting, UNCHANGED <<boot, procs, step, killed, killIndex>>, tries' + (IF procPc = "tree" THEN 1 ELSE 0)
           = tries + (IF procPc' = "tree" THEN 1 ELSE 0), tries \in Nat, tries' \in Nat, PInv
  PROVE  Booting'
<1>1. Effort' = Effort /\ KidName' = KidName /\ Tried' = Tried BY EffortStays DEF KidName, Tried, IndexOf
<1>2. Ahead(boot', step') = Ahead(boot, step) /\ Ahead(boot, step) \in Nat /\ Effort \in Nat
  <2>1. 0 \in Nat /\ step \in Nat /\ BootRight BY ProcLevels DEF PInv
  <2> QED BY <2>1, AheadIsNat, AheadOfAll
<1>3. \A n \in Nat : Paid(n) => tries' + n + Ahead(boot', step') <= Effort' + (IF procPc' = "tree" THEN 1 ELSE 0)
  <2> SUFFICES ASSUME NEW n \in Nat, Paid(n)
               PROVE  tries' + n + Ahead(boot, step) <= Effort + (IF procPc' = "tree" THEN 1 ELSE 0)
    BY <1>1, <1>2
  <2>1. tries + n + Ahead(boot, step) <= Effort + (IF procPc = "tree" THEN 1 ELSE 0) BY DEF Paid
  <2> DEFINE a == IF procPc = "tree" THEN 1 ELSE 0
             b == IF procPc' = "tree" THEN 1 ELSE 0
  <2>2. a \in Nat /\ b \in Nat /\ tries' + a = tries + b OBVIOUS
  <2>3. tries + n + Ahead(boot, step) <= Effort + a BY <2>1
  <2>4. tries' + n + Ahead(boot, step) <= Effort + b
    <3> HIDE DEF a, b
    <3> QED BY <1>2, <2>2, <2>3, Balance
  <2> QED BY <2>4
<1>4. Walked' BY <1>1 DEF Booting, Walked
<1>5. CASE Idle
  <2>1. 0 \in Nat /\ Paid(0) /\ Around(procs, {}, step) BY <1>5 DEF Idle
  <2>2. tries' + 0 + Ahead(boot', step') <= Effort' + (IF procPc' = "tree" THEN 1 ELSE 0) BY <1>3, <2>1
  <2>3. Idle' BY <2>1, <2>2 DEF Idle, Paid
  <2> QED BY <1>4, <2>3 DEF Booting
<1>6. CASE HungNow /\ ~Idle
  <2> DEFINE n == IF boot[step] = "waits" THEN 0 ELSE Due(FALSE, boot[step], Tried)
  <2>1. n \in Nat BY DEF Due
  <2>2. Paid(n) BY <1>6 DEF HungNow
  <2>3. n' = n BY <1>1 DEF Due
  <2>4. tries' + n + Ahead(boot', step') <= Effort' + (IF procPc' = "tree" THEN 1 ELSE 0)
    <3> HIDE DEF n
    <3> QED BY <1>3, <2>1, <2>2
  <2>5. HungNow' BY <1>1, <1>6, <2>4 DEF HungNow, Paid
  <2> QED BY <1>4, <1>6, <2>5 DEF Booting
<1>7. CASE FedNow /\ ~Idle
  <2> DEFINE n == Due(boot[step] # "sleeps" /\ KidName \notin killed, boot[step], Tried)
  <2>1. n \in Nat BY DEF Due
  <2>2. Paid(n) BY <1>7 DEF FedNow
  <2>3. tries' + n + Ahead(boot', step') <= Effort' + (IF procPc' = "tree" THEN 1 ELSE 0)
    <3> HIDE DEF n
    <3> QED BY <1>3, <2>1, <2>2
  <2>4. FedNow' BY <1>1, <1>7, <2>3 DEF FedNow, Paid
  <2> QED BY <1>4, <1>7, <2>4 DEF Booting
<1> QED BY <1>5, <1>6, <1>7 DEF Booting

LEMMA UnblockingStep ==
  ASSUME PInv, Unblocking, [ProcNext \/ ProcTerminated]_procVars, ~ScriptIsRcS
  PROVE  Unblocking'
<1>1. prompt' = prompt /\ boot' = boot
  BY DEF ProcNext, ProcTerminated, procVars, FirmwareRuns, Wait, Look, Tree, Collect, KillByName, RunBinary, booted
<1> SUFFICES ASSUME Solvable PROVE Unblocking'
  <2>1. Solvable' = Solvable BY <1>1, EffortStays DEF Solvable
  <2> QED BY <2>1 DEF Unblocking
<1>2. tries \in Nat /\ tries' \in Nat
  <2>1. PInv' BY PStep
  <2>2. tries \in 0 .. Tries /\ tries' \in 0 .. Tries BY <2>1 DEF PInv, ProcTypeOK
  <2> QED BY <2>2, BootAssumption
<1>3. Effort' = Effort BY <1>1, EffortStays
<1>4. CASE FirmwareRuns
  <2>1. /\ procPc' = procPc /\ UNCHANGED <<tries, lastNode, killed, killIndex, answer>>
        /\ executed' = executed \cup {procs'[p].name : p \in DOMAIN procs'}
        /\ NextCommand \/ \E p \in Bereaved : ChildDied(p)
    BY <1>4 DEF FirmwareRuns
  <2>2. procPc # "tree" BY <1>4, StandsStill DEF Unblocking
  <2>3. CASE procPc \notin {"wait", "look", "tree"} BY <2>1, <2>3 DEF Unblocking
  <2>4. CASE procPc \in {"wait", "look", "tree"} /\ Target \in executed
    <3>1. Target \in executed' /\ tries <= Effort BY <2>1, <2>4 DEF Unblocking
    <3> QED BY <1>3, <2>1, <2>2, <2>4, <3>1 DEF Unblocking
  <2>5. CASE procPc \in {"wait", "look", "tree"} /\ Target \notin executed
    <3>1. Booting BY <2>5 DEF Unblocking
    <3>2. tries <= Effort BY <2>2, <3>1, BootingHasNoTarget
    <3>3. Target \notin executed' => Booting'
      <4>1. CASE NextCommand BY <1>1, <2>1, <2>2, <3>1, <4>1, CommandBoots DEF Solvable
      <4>2. CASE \E p \in Bereaved : ChildDied(p) BY <1>1, <2>1, <3>1, <4>2, ChildDiedBoots
      <4> QED BY <2>1, <4>1, <4>2
    <3> QED BY <1>3, <2>1, <2>2, <2>5, <3>2, <3>3 DEF Unblocking
  <2> QED BY <2>3, <2>4, <2>5
<1>5. CASE Wait
  <2>1. /\ procPc = "wait" /\ procPc' \in {"wait", "look"}
        /\ UNCHANGED <<procs, step, executed, tries, lastNode, killed, killIndex, answer>>
    BY <1>5 DEF Wait, walk
  <2>2. Target \notin executed => Booting'
    <3>1. Target \notin executed => Booting BY <2>1 DEF Unblocking
    <3>2. tries' + (IF procPc = "tree" THEN 1 ELSE 0) = tries + (IF procPc' = "tree" THEN 1 ELSE 0) BY <2>1
    <3> QED BY <1>1, <1>2, <2>1, <3>1, <3>2, BootingStays
  <2> QED BY <1>3, <2>1, <2>2 DEF Unblocking
<1>6. CASE Look
  <2>1. procPc = "look" /\ InTime /\ UNCHANGED <<procs, step, executed, killed, killIndex>> BY <1>6 DEF Look
  <2>2. Calm BY <2>1 DEF InTime, Solvable
  <2>3. tries # Tries
    <3>1. tries <= Effort BY <2>1, BootingHasNoTarget DEF Unblocking
    <3>2. Effort < Tries /\ Effort \in Nat
      <4>1. BootRight /\ 0 \in Nat BY DEF PInv
      <4> QED BY <4>1, AheadOfAll, AheadIsNat DEF Solvable
    <3> QED BY <1>2, <3>1, <3>2, BootAssumption
  <2>4. Target # Script BY DEF Target, Script
  <2>5. CASE Target \in executed
    <3>1. LastExecuted = Target BY <2>5 DEF LastExecuted, HasCmdline
    <3>2. procPc' = "collect" /\ answer' = Target BY <1>6, <2>3, <2>4, <3>1 DEF Look, Found
    <3> QED BY <3>2 DEF Unblocking
  <2>6. CASE Target \notin executed
    <3>1. Booting BY <2>1, <2>6 DEF Unblocking
    <3>2. ~Alive(procs, Target) /\ Alive(procs, Script) BY <3>1, BootingHasNoTarget
    <3>3. LastExecuted = Script BY <2>6, <3>2 DEF LastExecuted, HasCmdline
    <3>4. procPc' = "tree" /\ tries' = tries + 1 /\ lastNode' = Script
      BY <1>6, <2>3, <2>4, <3>2, <3>3 DEF Look
    <3>5. Calm' BY <1>1, <2>1, <2>2 DEF Calm, Bereaved, Alive, Hangs
    <3>6. tries' + (IF procPc = "tree" THEN 1 ELSE 0) = tries + (IF procPc' = "tree" THEN 1 ELSE 0)
      BY <1>2, <2>1, <3>4
    <3>7. Booting' BY <1>1, <1>2, <2>1, <3>1, <3>6, BootingStays
    <3> QED BY <2>1, <2>6, <3>4, <3>5, <3>7 DEF Unblocking
  <2> QED BY <2>5, <2>6
<1>7. CASE Tree
  <2>1. procPc = "tree" /\ procPc' = "look" /\ UNCHANGED <<boot, step, executed, tries>> BY <1>7 DEF Tree, booted
  <2>2. Target \notin executed /\ Booting /\ Calm /\ lastNode = Script BY <2>1 DEF Unblocking
  <2>3. Booting' BY <1>7, <2>2, TreeBoots
  <2> QED BY <2>1, <2>2, <2>3 DEF Unblocking
<1>8. CASE Collect \/ KillByName \/ RunBinary
  <2>1. procPc \notin {"wait", "look", "tree"} /\ procPc' \notin {"wait", "look", "tree"} /\ answer' = answer
    BY <1>8 DEF Collect, KillByName, RunBinary, walk
  <2> QED BY <2>1 DEF Unblocking
<1>9. CASE UNCHANGED procVars
  <2>1. UNCHANGED <<boot, procs, step, executed, procPc, tries, lastNode, killed, killIndex, answer>>
    BY <1>9 DEF procVars
  <2>2. Booting => Booting'
    <3>1. tries' + (IF procPc = "tree" THEN 1 ELSE 0) = tries + (IF procPc' = "tree" THEN 1 ELSE 0) BY <2>1
    <3> QED BY <1>2, <2>1, <3>1, BootingStays
  <2>3. Calm' = Calm BY <2>1 DEF Calm, Bereaved, Alive, Hangs
  <2> QED BY <1>3, <2>1, <2>2, <2>3 DEF Unblocking
<1> QED BY <1>4, <1>5, <1>6, <1>7, <1>8, <1>9 DEF ProcNext, ProcTerminated

(* The walk of find_error_proc gets a prompt firmware that hangs on        *)
(* commands, however many, to start the target, if their number leaves it  *)
(* enough tries and the script is not one of those that it passes over.    *)
THEOREM BootIsUnblocked ==
  ASSUME ~ScriptIsRcS
  PROVE  ProcSpec => []Unblocks
<1>1. PInv /\ Unblocking /\ [ProcNext \/ ProcTerminated]_procVars => Unblocking' BY UnblockingStep
<1>2. Unblocking => Unblocks BY DEF Unblocking, Solvable, Unblocks
<1> QED BY <1>1, <1>2, UnblockingStarts, PInit, PStep, PTL DEF ProcSpec
-----------------------------------------------------------------------------
(* Network.                                                                *)

(* Of a system that nothing has disturbed: no address is on two devices or *)
(* at two entries of network_info; in the middle of a reconfiguration a    *)
(* device carries what the snapshot says until the second loop has been at *)
(* it, then nothing but what is wished for it.                             *)
Peaceful == meddled = 0 /\ faults = 0
Apart(l) == \A d, e \in DOMAIN l : l[d].ips \cap l[e].ips # {} => d = e
InfoApart == \A d, e \in DOMAIN info : info[d] \cap info[e] # {} => d = e
Allowed(d) ==
  IF d \in DOMAIN current /\ (netPc = "missing" \/ (netPc = "excess" /\ d \in todo)) THEN current[d] ELSE Wished(d)
Carries == netPc # "idle" => \A d \in DOMAIN links : links[d].ips \subseteq Allowed(d)
Underway ==
  /\ netPc \in {"missing", "final"} => todo \subseteq DOMAIN info
  /\ pings # {} => netPc = "excess"
  /\ \A p \in pings : p[1] \notin todo /\ p[2] \in Wished(p[1])
NetInv == NetTypeOK /\ Underway /\ (Peaceful => Apart(links) /\ InfoApart /\ Carries)

LEMMA CutIs ==
  ASSUME NEW l, IsLinks(l), NEW s \in Subnet, NEW c \in Cut(l, s)
  PROVE  IsLinks(c) /\ DOMAIN c \subseteq DOMAIN l /\ \A e \in DOMAIN c : c[e].ips = l[e].ips
<1> DEFINE on == {d \in DOMAIN l : l[d].net = s}
<1>1. PICK gone \in SUBSET on : c = [d \in DOMAIN l \ gone |-> IF d \in on THEN [l[d] EXCEPT !.net = NoNet] ELSE l[d]]
  BY DEF Cut
<1>2. DOMAIN c = DOMAIN l \ gone /\ \A e \in DOMAIN c : c[e] = [l[e] EXCEPT !.net = NoNet] \/ c[e] = l[e] BY <1>1
<1>3. \A e \in DOMAIN l : l[e] \in [ips : SUBSET Ip, net : Subnet \cup {NoNet}, up : BOOLEAN] /\ e \in Dev
  BY DEF IsLinks
<1>4. \A e \in DOMAIN c : c[e] \in [ips : SUBSET Ip, net : Subnet \cup {NoNet}, up : BOOLEAN] /\ c[e].ips = l[e].ips
  BY <1>2, <1>3
<1>5. c = [e \in DOMAIN c |-> c[e]] BY <1>1
<1> QED BY <1>2, <1>3, <1>4, <1>5 DEF IsLinks

LEMMA CreatedIs ==
  ASSUME NEW l, IsLinks(l), NEW d \in Dev, NEW ip \in Ip, NEW m \in Created(l, d, ip)
  PROVE  /\ IsLinks(m)
         /\ d \in DOMAIN m /\ DOMAIN m \subseteq DOMAIN l \cup {d}
         /\ \A e \in DOMAIN m \ {d} : m[e].ips \subseteq l[e].ips
         /\ ip \in m[d].ips
         /\ m = l \/ (m[d].ips = {ip} /\ \A e \in DOMAIN m \ {d} : ip \notin m[e].ips)
<1>1. CASE AlreadyThere(l, d, ip)
  <2>1. m = l BY <1>1 DEF Created
  <2> QED BY <1>1, <2>1 DEF AlreadyThere
<1>2. CASE ~ AlreadyThere(l, d, ip)
  <2> DEFINE k == Cleared(l, d, ip)
  <2>1. PICK c \in Cut(k, SubnetOf[ip]) : m = With(c, d, Iface({ip}, SubnetOf[ip], TRUE)) BY <1>2 DEF Created
  <2>2. IsLinks(k) /\ DOMAIN k \subseteq DOMAIN l \ {d} /\ \A e \in DOMAIN k : k[e].ips = l[e].ips \ {ip}
    BY DEF Cleared, Without, Drop, IsLinks
  <2> HIDE DEF k
  <2>3. IsLinks(c) /\ DOMAIN c \subseteq DOMAIN k /\ \A e \in DOMAIN c : c[e].ips = k[e].ips
    BY <2>2, AddressAssumption, CutIs
  <2>4. /\ DOMAIN m = DOMAIN c \cup {d} /\ m[d] = Iface({ip}, SubnetOf[ip], TRUE)
        /\ \A e \in DOMAIN c \ {d} : m[e] = c[e]
    BY <2>1 DEF With
  <2>5. Iface({ip}, SubnetOf[ip], TRUE) \in [ips : SUBSET Ip, net : Subnet \cup {NoNet}, up : BOOLEAN]
        /\ Iface({ip}, SubnetOf[ip], TRUE).ips = {ip}
    BY AddressAssumption DEF Iface
  <2>6. IsLinks(m)
    <3>1. m = [e \in DOMAIN m |-> m[e]] BY <2>1 DEF With
    <3>2. \A e \in DOMAIN m : e \in Dev /\ m[e] \in [ips : SUBSET Ip, net : Subnet \cup {NoNet}, up : BOOLEAN]
      BY <2>3, <2>4, <2>5 DEF IsLinks
    <3> QED BY <3>1, <3>2 DEF IsLinks
  <2>7. \A e \in DOMAIN m \ {d} : m[e].ips = l[e].ips \ {ip} BY <2>2, <2>3, <2>4
  <2>8. m[d].ips = {ip} BY <2>4, <2>5
  <2>9. DOMAIN m \subseteq DOMAIN l \cup {d} BY <2>2, <2>3, <2>4
  <2> QED BY <2>4, <2>6, <2>7, <2>8, <2>9
<1> QED BY <1>1, <1>2

LEMMA CreatedApart ==
  ASSUME NEW l, IsLinks(l), NEW d \in Dev, NEW ip \in Ip, NEW m \in Created(l, d, ip), Apart(l)
  PROVE  Apart(m)
<1>1. /\ d \in DOMAIN m /\ DOMAIN m \subseteq DOMAIN l \cup {d}
      /\ \A e \in DOMAIN m \ {d} : m[e].ips \subseteq l[e].ips
      /\ m = l \/ (m[d].ips = {ip} /\ \A e \in DOMAIN m \ {d} : ip \notin m[e].ips)
  BY CreatedIs
<1>2. CASE m = l BY <1>2
<1>3. CASE m[d].ips = {ip} /\ \A e \in DOMAIN m \ {d} : ip \notin m[e].ips
  <2> SUFFICES ASSUME NEW a \in DOMAIN m, NEW b \in DOMAIN m, m[a].ips \cap m[b].ips # {} PROVE a = b BY DEF Apart
  <2>1. CASE a = d \/ b = d BY <1>3, <2>1
  <2>2. CASE a # d /\ b # d
    <3>1. a \in DOMAIN l /\ b \in DOMAIN l /\ m[a].ips \subseteq l[a].ips /\ m[b].ips \subseteq l[b].ips BY <1>1, <2>2
    <3>2. l[a].ips \cap l[b].ips # {} BY <3>1
    <3> QED BY <3>1, <3>2 DEF Apart
  <2> QED BY <2>1, <2>2
<1> QED BY <1>1, <1>2, <1>3

LEMMA NotCreatedIs ==
  ASSUME NEW l, IsLinks(l), NEW d \in Dev, NEW ip \in Ip, NEW m \in NotCreated(l, d, ip)
  PROVE  IsLinks(m)
<1>1. IsLinks(Drop(l, ip)) BY DEF Drop, IsLinks
<1>2. IsLinks(Cleared(l, d, ip)) BY DEF Cleared, Without, Drop, IsLinks
<1>3. \A c \in Cut(Cleared(l, d, ip), SubnetOf[ip]) : IsLinks(c) BY <1>2, CutIs, AddressAssumption
<1> QED BY <1>1, <1>2, <1>3 DEF NotCreated

(* One step of the count of failed calls.                                  *)
LEMMA FaultCounts ==
  ASSUME NetTypeOK
  PROVE  /\ UNCHANGED faults => faults' \in 0 .. MaxFaults /\ (faults' = 0 => faults = 0)
         /\ Fault => faults' \in 0 .. MaxFaults /\ faults' # 0 /\ faults' # faults
BY BoundAssumption DEF NetTypeOK, Fault

LEMMA CreateDoes ==
  ASSUME NetTypeOK, NEW l, IsLinks(l), NEW d \in Dev, NEW ip \in Ip, Create(l, d, ip)
  PROVE  /\ IsLinks(links') /\ faults' \in 0 .. MaxFaults
         /\ faults' = 0 => faults = 0 /\ links' \in Created(l, d, ip)
<1>1. CASE links' \in Created(l, d, ip) /\ UNCHANGED faults
  <2>1. IsLinks(links') BY <1>1, CreatedIs
  <2> QED BY <1>1, <2>1, FaultCounts
<1>2. CASE Fault /\ links' \in NotCreated(l, d, ip)
  <2>1. IsLinks(links') BY <1>2, NotCreatedIs
  <2> QED BY <1>2, <2>1, FaultCounts
<1> QED BY <1>1, <1>2 DEF Create

LEMMA RecreateDoes ==
  ASSUME NetTypeOK, NEW d \in Dev, d \in DOMAIN info, Recreate(d)
  PROVE  /\ IsLinks(links') /\ faults' \in 0 .. MaxFaults
         /\ faults' = 0 => faults = 0
         /\ faults' = 0 /\ Apart(links) => Apart(links')
         /\ faults' = 0 =>
              links' = links
              \/ /\ d \notin DOMAIN current /\ links'[d].ips \subseteq info[d]
                 /\ \A e \in DOMAIN links' \ {d} : e \in DOMAIN links /\ links'[e].ips \subseteq links[e].ips
<1>1. CASE d \notin DOMAIN current /\ info[d] # {}
  <2>1. PICK ip \in info[d] : Create(links, d, ip) BY <1>1 DEF Recreate
  <2>2. ip \in Ip /\ IsLinks(links) BY DEF NetTypeOK, IsInfo
  <2>3. /\ IsLinks(links') /\ faults' \in 0 .. MaxFaults
        /\ faults' = 0 => faults = 0 /\ links' \in Created(links, d, ip)
    BY <2>1, <2>2, CreateDoes
  <2>4. faults' = 0 /\ Apart(links) => Apart(links') BY <2>2, <2>3, CreatedApart
  <2>5. links' \in Created(links, d, ip) =>
          /\ DOMAIN links' \subseteq DOMAIN links \cup {d}
          /\ \A e \in DOMAIN links' \ {d} : links'[e].ips \subseteq links[e].ips
          /\ links' = links \/ links'[d].ips = {ip}
    BY <2>2, CreatedIs
  <2> QED BY <1>1, <2>3, <2>4, <2>5
<1>2. CASE ~ (d \notin DOMAIN current /\ info[d] # {})
  <2>1. UNCHANGED <<links, faults>> BY <1>2 DEF Recreate
  <2>2. IsLinks(links) /\ faults \in 0 .. MaxFaults BY DEF NetTypeOK
  <2>3. Apart(links) => Apart(links') BY <2>1
  <2> QED BY <2>1, <2>2, <2>3
<1> QED BY <1>1, <1>2

LEMMA ReconfigureKeeps ==
  ASSUME NetInv, Reconfigure PROVE NetInv'
<1>1. /\ netPc = "idle" /\ netPc' = "missing" /\ todo' = DOMAIN info /\ UNCHANGED <<links, info, pings, meddled, fixes>>
      /\ quiet' \in {0, quiet}
  BY DEF Reconfigure
<1>2. CASE current' = IpsOf(links) /\ UNCHANGED faults
  <2>1. IsInfo(current') BY <1>2 DEF NetInv, NetTypeOK, IsLinks, IsInfo, IpsOf
  <2>2. NetTypeOK' BY <1>1, <1>2, <2>1 DEF NetInv, NetTypeOK, IsInfo
  <2>3. Underway' BY <1>1 DEF NetInv, Underway
  <2>4. DOMAIN current' = DOMAIN links /\ \A d \in DOMAIN links : current'[d] = links[d].ips BY <1>2 DEF IpsOf
  <2>5. Carries' BY <1>1, <2>4 DEF Carries, Allowed
  <2>6. Peaceful' => Peaceful BY <1>1, <1>2 DEF Peaceful
  <2>7. Apart(links)' <=> Apart(links) BY <1>1
  <2>8. InfoApart' <=> InfoApart BY <1>1 DEF InfoApart
  <2> QED BY <2>2, <2>3, <2>5, <2>6, <2>7, <2>8 DEF NetInv
<1>3. CASE Fault /\ current' = << >>
  <2>1. faults' \in 0 .. MaxFaults /\ faults' # 0 BY <1>3, FaultCounts DEF NetInv
  <2>2. IsInfo(current') BY <1>3 DEF IsInfo
  <2>3. NetTypeOK' BY <1>1, <2>1, <2>2 DEF NetInv, NetTypeOK, IsInfo
  <2>4. Underway' BY <1>1 DEF NetInv, Underway
  <2> QED BY <2>1, <2>3, <2>4 DEF NetInv, Peaceful
<1> QED BY <1>2, <1>3 DEF Reconfigure, Reads

(* The end of a loop.                                                      *)
LEMMA EndsKeep ==
  ASSUME NetInv, EndMissing \/ EndExcess \/ Reconfigured PROVE NetInv'
<1>1. /\ UNCHANGED <<links, info, current, pings, meddled, faults, fixes>> /\ todo = {}
      /\ netPc' \in {"idle", "missing", "excess", "final"} /\ netPc' # "missing"
      /\ netPc' \in {"excess", "final"} => netPc # "idle"
      /\ netPc \in {"missing", "excess"} \/ netPc' = "idle"
      /\ netPc' = "excess" => netPc = "missing" /\ todo' = DOMAIN current
      /\ netPc' = "final" => netPc = "excess" /\ todo' = DOMAIN info
      /\ netPc' = "idle" => todo' = {}
      /\ netPc' # "excess" => pings = {}
  BY DEF EndMissing, EndExcess, Reconfigured, NetInv, Underway
<1>2. quiet' \in 0 .. 3 BY DEF EndMissing, EndExcess, Reconfigured, NetInv, NetTypeOK
<1>3. NetTypeOK' BY <1>1, <1>2 DEF NetInv, NetTypeOK, IsInfo
<1>4. Underway'
  <2>1. netPc' = "excess" => pings = {} BY <1>1 DEF NetInv, Underway
  <2> QED BY <1>1, <2>1 DEF Underway
<1>5. Carries => Carries'
  <2> SUFFICES ASSUME Carries, netPc' # "idle", NEW d \in DOMAIN links PROVE links[d].ips \subseteq Allowed(d)'
    BY <1>1 DEF Carries
  <2>1. links[d].ips \subseteq Allowed(d) BY <1>1 DEF Carries, NetInv, NetTypeOK
  <2>2. Wished(d)' = Wished(d) BY <1>1 DEF Wished
  <2> QED BY <1>1, <2>1, <2>2 DEF Allowed
<1>6. (Peaceful' <=> Peaceful) /\ (Apart(links)' <=> Apart(links)) /\ (InfoApart' <=> InfoApart)
  BY <1>1 DEF Peaceful, InfoApart
<1> QED BY <1>3, <1>4, <1>5, <1>6 DEF NetInv

LEMMA MissingKeeps ==
  ASSUME NetInv, NEW d \in Dev, Missing(d) PROVE NetInv'
<1>1. /\ netPc = "missing" /\ netPc' = "missing" /\ d \in todo /\ Recreate(d) /\ todo' = todo \ {d}
      /\ UNCHANGED <<info, current, pings, meddled, fixes>> /\ quiet' \in {0, quiet}
  BY DEF Missing, Undisturbed
<1>2. d \in DOMAIN info /\ pings = {} BY <1>1 DEF NetInv, Underway
<1>3. /\ IsLinks(links') /\ faults' \in 0 .. MaxFaults
      /\ faults' = 0 => faults = 0
      /\ faults' = 0 /\ Apart(links) => Apart(links')
      /\ faults' = 0 =>
           links' = links
           \/ /\ d \notin DOMAIN current /\ links'[d].ips \subseteq info[d]
              /\ \A e \in DOMAIN links' \ {d} : e \in DOMAIN links /\ links'[e].ips \subseteq links[e].ips
  BY <1>1, <1>2, RecreateDoes DEF NetInv
<1>4. NetTypeOK' BY <1>1, <1>3 DEF NetInv, NetTypeOK, IsInfo
<1>5. Underway' BY <1>1, <1>2 DEF NetInv, Underway
<1>6. ASSUME Peaceful' PROVE Peaceful /\ Apart(links)' /\ InfoApart' /\ Carries'
  <2>1. faults' = 0 /\ Peaceful /\ Apart(links) /\ InfoApart /\ Carries BY <1>1, <1>3, <1>6 DEF NetInv, Peaceful
  <2>2. InfoApart' BY <1>1, <2>1 DEF InfoApart
  <2>3. ASSUME NEW e PROVE Allowed(e)' = Allowed(e) BY <1>1 DEF Allowed, Wished
  <2>4. \A e \in DOMAIN links : links[e].ips \subseteq Allowed(e) BY <1>1, <2>1 DEF Carries
  <2>5. d \notin DOMAIN current => Allowed(d) = info[d] BY <1>2 DEF Allowed, Wished
  <2>6. \A e \in DOMAIN links' : links'[e].ips \subseteq Allowed(e)
    <3>1. CASE links' = links BY <2>4, <3>1
    <3>2. CASE /\ d \notin DOMAIN current /\ links'[d].ips \subseteq info[d]
               /\ \A e \in DOMAIN links' \ {d} : e \in DOMAIN links /\ links'[e].ips \subseteq links[e].ips
      BY <2>4, <2>5, <3>2
    <3> QED BY <1>3, <2>1, <3>1, <3>2
  <2>7. Carries' BY <2>3, <2>6 DEF Carries
  <2> QED BY <1>3, <2>1, <2>2, <2>7
<1> QED BY <1>4, <1>5, <1>6 DEF NetInv

(* A change of one device.                                                 *)
LEMMA ChangedIs ==
  ASSUME IsLinks(links), NEW d \in DOMAIN links, NEW x \in [ips : SUBSET Ip, net : Subnet \cup {NoNet}, up : BOOLEAN],
         links' = [links EXCEPT ![d] = x]
  PROVE  IsLinks(links')
BY DEF IsLinks

LEMMA WithoutIs ==
  ASSUME NEW l, IsLinks(l), NEW d
  PROVE  /\ IsLinks(Without(l, d)) /\ DOMAIN Without(l, d) = DOMAIN l \ {d}
         /\ \A e \in DOMAIN l \ {d} : Without(l, d)[e] = l[e]
         /\ Apart(l) => Apart(Without(l, d))
<1>1. /\ DOMAIN Without(l, d) = DOMAIN l \ {d} /\ \A e \in DOMAIN l \ {d} : Without(l, d)[e] = l[e] BY DEF Without
<1>2. IsLinks(Without(l, d))
  <2>1. Without(l, d) = [e \in DOMAIN Without(l, d) |-> Without(l, d)[e]] BY DEF Without
  <2>2. \A e \in DOMAIN Without(l, d) :
          e \in Dev /\ Without(l, d)[e] \in [ips : SUBSET Ip, net : Subnet \cup {NoNet}, up : BOOLEAN]
    BY <1>1 DEF IsLinks
  <2> QED BY <2>1, <2>2 DEF IsLinks
<1>3. Apart(l) => Apart(Without(l, d)) BY <1>1 DEF Apart
<1> QED BY <1>1, <1>2, <1>3

LEMMA FlushedIs ==
  ASSUME IsLinks(links), NEW d
  PROVE  /\ IsLinks(Flushed(links, d)) /\ DOMAIN Flushed(links, d) = DOMAIN links
         /\ \A e \in DOMAIN links \ {d} : Flushed(links, d)[e].ips = links[e].ips
         /\ d \in DOMAIN links =>
              \/ Flushed(links, d)[d].ips = {}
              \/ Flushed(links, d)[d].ips = links[d].ips /\ current[d] \subseteq Wished(d)
<1>1. CASE d \in DOMAIN links /\ current[d] \ Wished(d) # {}
  <2> DEFINE m == Flushed(links, d)
  <2>1. m = [links EXCEPT ![d].ips = {}] BY <1>1 DEF Flushed
  <2>2. links[d] \in [ips : SUBSET Ip, net : Subnet \cup {NoNet}, up : BOOLEAN] BY <1>1 DEF IsLinks
  <2>3. m[d] \in [ips : SUBSET Ip, net : Subnet \cup {NoNet}, up : BOOLEAN] /\ m[d].ips = {} BY <1>1, <2>1, <2>2
  <2>4. /\ DOMAIN m = DOMAIN links /\ m = [e \in DOMAIN m |-> m[e]]
        /\ \A e \in DOMAIN links \ {d} : m[e] = links[e]
    BY <2>1
  <2> HIDE DEF m
  <2>5. IsLinks(m)
    <3>1. \A e \in DOMAIN m : e \in Dev /\ m[e] \in [ips : SUBSET Ip, net : Subnet \cup {NoNet}, up : BOOLEAN]
      BY <2>3, <2>4 DEF IsLinks
    <3> QED BY <2>4, <3>1 DEF IsLinks
  <2> QED BY <2>3, <2>4, <2>5 DEF m
<1>2. CASE ~ (d \in DOMAIN links /\ current[d] \ Wished(d) # {})
  <2>1. Flushed(links, d) = links BY <1>2 DEF Flushed
  <2>2. d \in DOMAIN links => current[d] \subseteq Wished(d) BY <1>2
  <2> QED BY <2>1, <2>2
<1> QED BY <1>1, <1>2

LEMMA ExcessKeeps ==
  ASSUME NetInv, NEW d \in Dev, Excess(d) PROVE NetInv'
<1>1. /\ netPc = "excess" /\ netPc' = "excess" /\ d \in todo /\ pings = {} /\ todo' = todo \ {d}
      /\ pings' = {d} \X Wished(d) /\ UNCHANGED <<info, current, meddled, fixes>> /\ quiet' \in {0, quiet}
  BY DEF Excess, Undisturbed
<1>2. Wished(d) \subseteq Ip BY DEF NetInv, NetTypeOK, IsInfo, Wished
<1>3. Underway' BY <1>1 DEF Underway, Wished
<1>4. CASE links' = (IF d \in DOMAIN info THEN Flushed(links, d) ELSE Without(Flushed(links, d), d)) /\ UNCHANGED faults
  <2> DEFINE m == Flushed(links, d)
  <2>1. /\ IsLinks(m) /\ DOMAIN m = DOMAIN links
        /\ \A e \in DOMAIN links \ {d} : m[e].ips = links[e].ips
        /\ d \in DOMAIN links => m[d].ips = {} \/ (m[d].ips = links[d].ips /\ current[d] \subseteq Wished(d))
    BY FlushedIs DEF NetInv, NetTypeOK
  <2>2. links' = m \/ links' = Without(m, d) BY <1>4
  <2> HIDE DEF m
  <2>3. /\ IsLinks(links') /\ DOMAIN links' \subseteq DOMAIN links
        /\ \A e \in DOMAIN links' \ {d} : links'[e].ips = links[e].ips
        /\ d \in DOMAIN links' => links'[d].ips = {} \/ (links'[d].ips = links[d].ips /\ current[d] \subseteq Wished(d))
    <3>1. CASE links' = m BY <2>1, <3>1
    <3>2. CASE links' = Without(m, d)
      <4>1. /\ IsLinks(Without(m, d)) /\ DOMAIN Without(m, d) = DOMAIN m \ {d}
            /\ \A e \in DOMAIN m \ {d} : Without(m, d)[e] = m[e]
        BY <2>1, WithoutIs
      <4> QED BY <2>1, <3>2, <4>1
    <3> QED BY <2>2, <3>1, <3>2
  <2>4. NetTypeOK' BY <1>1, <1>2, <1>4, <2>3 DEF NetInv, NetTypeOK, IsInfo
  <2>5. ASSUME Peaceful' PROVE Apart(links)' /\ InfoApart' /\ Carries'
    <3>1. Peaceful /\ Apart(links) /\ InfoApart /\ Carries BY <1>1, <1>4, <2>5 DEF NetInv, Peaceful
    <3>2. InfoApart' BY <1>1, <3>1 DEF InfoApart
    <3>3. \A e \in DOMAIN links' : links'[e].ips \subseteq links[e].ips BY <2>3
    <3>4. Apart(links') BY <2>3, <3>1, <3>3 DEF Apart
    <3>5. \A e \in DOMAIN links : links[e].ips \subseteq Allowed(e) BY <1>1, <3>1 DEF Carries
    <3>6. \A e : e # d => Allowed(e)' = Allowed(e) BY <1>1 DEF Allowed, Wished
    <3>7. Allowed(d)' = Wished(d) BY <1>1 DEF Allowed, Wished
    <3>8. Allowed(d) \in {current[d], Wished(d)} BY DEF Allowed
    <3>9. Carries' BY <2>3, <3>3, <3>5, <3>6, <3>7, <3>8 DEF Carries
    <3> QED BY <3>2, <3>4, <3>9
  <2> QED BY <1>3, <2>4, <2>5 DEF NetInv
<1>5. CASE Fault /\ UNCHANGED links
  <2>1. faults' \in 0 .. MaxFaults /\ faults' # 0 BY <1>5, FaultCounts DEF NetInv
  <2>2. NetTypeOK' BY <1>1, <1>2, <1>5, <2>1 DEF NetInv, NetTypeOK, IsInfo
  <2> QED BY <1>3, <2>1, <2>2 DEF NetInv, Peaceful
<1> QED BY <1>4, <1>5 DEF Excess

LEMMA PingKeeps ==
  ASSUME NetInv, NEW d \in Dev, NEW ip \in Ip, Ping(d, ip) PROVE NetInv'
<1>1. /\ netPc = "excess" /\ netPc' = "excess" /\ <<d, ip>> \in pings /\ pings' = pings \ {<<d, ip>>}
      /\ UNCHANGED <<info, current, todo, meddled, fixes>> /\ quiet' \in {0, quiet}
  BY DEF Ping, Undisturbed
<1>2. Underway' BY <1>1 DEF NetInv, Underway, Wished
<1>3. d \notin todo /\ ip \in Wished(d)
  <2>1. \A p \in pings : p[1] \notin todo /\ p[2] \in Wished(p[1]) BY DEF NetInv, Underway
  <2> QED BY <1>1, <2>1
<1>4. /\ IsLinks(links') /\ faults' \in 0 .. MaxFaults
      /\ faults' = 0 => faults = 0
      /\ faults' = 0 /\ Apart(links) => Apart(links')
      /\ faults' = 0 => \A e \in DOMAIN links' : (e \in DOMAIN links /\ links'[e].ips \subseteq links[e].ips)
                                              \/ (e = d /\ links'[e].ips = {ip})
  <2>1. CASE Pings(links, ip)
    <3>1. UNCHANGED <<links, faults>> BY <2>1 DEF Ping
    <3> QED BY <3>1 DEF NetInv, NetTypeOK
  <2>2. CASE ~ Pings(links, ip)
    <3> DEFINE l == Without(links, d)
    <3>1. Create(l, d, ip) BY <2>2 DEF Ping
    <3>2. /\ IsLinks(l) /\ DOMAIN l = DOMAIN links \ {d} /\ \A e \in DOMAIN l : l[e] = links[e]
          /\ Apart(links) => Apart(l)
      BY WithoutIs DEF NetInv, NetTypeOK
    <3> HIDE DEF l
    <3>3. /\ IsLinks(links') /\ faults' \in 0 .. MaxFaults
          /\ faults' = 0 => faults = 0 /\ links' \in Created(l, d, ip)
      BY <3>1, <3>2, CreateDoes DEF NetInv
    <3>4. faults' = 0 /\ Apart(links) => Apart(links') BY <3>2, <3>3, CreatedApart
    <3>5. links' \in Created(l, d, ip) =>
            /\ DOMAIN links' \subseteq DOMAIN l \cup {d} /\ d \in DOMAIN links'
            /\ \A e \in DOMAIN links' \ {d} : links'[e].ips \subseteq l[e].ips
            /\ links' = l \/ links'[d].ips = {ip}
      BY <3>2, CreatedIs
    <3> QED BY <3>2, <3>3, <3>4, <3>5
  <2> QED BY <2>1, <2>2
<1>5. NetTypeOK' BY <1>1, <1>4 DEF NetInv, NetTypeOK, IsInfo
<1>6. ASSUME Peaceful' PROVE Apart(links)' /\ InfoApart' /\ Carries'
  <2>1. faults' = 0 /\ Peaceful /\ Apart(links) /\ InfoApart /\ Carries BY <1>1, <1>4, <1>6 DEF NetInv, Peaceful
  <2>2. InfoApart' BY <1>1, <2>1 DEF InfoApart
  <2>3. ASSUME NEW e PROVE Allowed(e)' = Allowed(e) BY <1>1 DEF Allowed, Wished
  <2>4. \A e \in DOMAIN links : links[e].ips \subseteq Allowed(e) BY <1>1, <2>1 DEF Carries
  <2>5. ip \in Allowed(d) BY <1>1, <1>3 DEF Allowed
  <2>6. Carries' BY <1>4, <2>1, <2>3, <2>4, <2>5 DEF Carries
  <2> QED BY <1>4, <2>1, <2>2, <2>6
<1> QED BY <1>2, <1>5, <1>6 DEF NetInv

(* In the third loop every device carries what is wished for it, so what   *)
(* is added is nowhere else.                                               *)
LEMMA FinalKeeps ==
  ASSUME NetInv, NEW d \in Dev, Final(d) PROVE NetInv'
<1>1. /\ netPc = "final" /\ netPc' = "final" /\ d \in todo /\ todo' = todo \ {d}
      /\ UNCHANGED <<info, current, pings, meddled, fixes>> /\ quiet' \in {0, quiet}
  BY DEF Final, Undisturbed
<1>2. d \in DOMAIN info BY <1>1 DEF NetInv, Underway
<1>3. Underway' BY <1>1 DEF NetInv, Underway, Wished
<1>4. /\ IsLinks(links') /\ faults' \in 0 .. MaxFaults
      /\ faults' = 0 => faults = 0
      /\ faults' = 0 => \A e \in DOMAIN links' :
                           \/ e \in DOMAIN links /\ links'[e].ips \subseteq links[e].ips
                           \/ e = d /\ links'[e].ips \subseteq (IF d \in DOMAIN links THEN links[d].ips ELSE {}) \cup info[d]
  <2>1. CASE Recreate(d) BY <1>2, <2>1, RecreateDoes DEF NetInv
  <2>2. CASE d \in DOMAIN current /\ links' = Raised(links, d) /\ UNCHANGED faults
    <3>1. CASE d \notin DOMAIN links
      <4>1. links' = links BY <2>2, <3>1 DEF Raised
      <4> QED BY <2>2, <4>1 DEF NetInv, NetTypeOK
    <3>2. CASE d \in DOMAIN links
      <4>1. links[d] \in [ips : SUBSET Ip, net : Subnet \cup {NoNet}, up : BOOLEAN] /\ info[d] \subseteq Ip
        BY <1>2, <3>2 DEF NetInv, NetTypeOK, IsLinks, IsInfo
      <4>2. links' = [links EXCEPT ![d].up = TRUE, ![d].ips = @ \cup (info[d] \ current[d])] BY <2>2, <3>2 DEF Raised
      <4>3. /\ DOMAIN links' = DOMAIN links /\ links' = [e \in DOMAIN links' |-> links'[e]]
            /\ \A e \in DOMAIN links \ {d} : links'[e] = links[e]
        BY <4>2
      <4>4. links'[d] = [[links[d] EXCEPT !.up = TRUE] EXCEPT !.ips = links[d].ips \cup (info[d] \ current[d])]
        BY <3>2, <4>1, <4>2
      <4>5. /\ links'[d] \in [ips : SUBSET Ip, net : Subnet \cup {NoNet}, up : BOOLEAN]
            /\ links'[d].ips = links[d].ips \cup (info[d] \ current[d])
        BY <4>1, <4>4
      <4>6. IsLinks(links')
        <5>1. \A e \in DOMAIN links' :
                e \in Dev /\ links'[e] \in [ips : SUBSET Ip, net : Subnet \cup {NoNet}, up : BOOLEAN]
          BY <4>3, <4>5 DEF NetInv, NetTypeOK, IsLinks
        <5> QED BY <4>3, <5>1 DEF IsLinks
      <4>7. faults' \in 0 .. MaxFaults /\ (faults' = 0 => faults = 0) BY <2>2 DEF NetInv, NetTypeOK
      <4> QED BY <3>2, <4>3, <4>5, <4>6, <4>7
    <3> QED BY <3>1, <3>2
  <2>3. CASE Fault /\ UNCHANGED links
    <3>1. faults' \in 0 .. MaxFaults /\ faults' # 0 BY <2>3, FaultCounts DEF NetInv
    <3> QED BY <2>3, <3>1 DEF NetInv, NetTypeOK
  <2> QED BY <2>1, <2>2, <2>3 DEF Final
<1>5. NetTypeOK' BY <1>1, <1>4 DEF NetInv, NetTypeOK, IsInfo
<1>6. ASSUME Peaceful' PROVE Apart(links)' /\ InfoApart' /\ Carries'
  <2>1. faults' = 0 /\ Peaceful /\ InfoApart /\ Carries BY <1>1, <1>4, <1>6 DEF NetInv, Peaceful
  <2>2. InfoApart' BY <1>1, <2>1 DEF InfoApart
  <2>3. ASSUME NEW e PROVE Allowed(e)' = Wished(e) /\ Allowed(e) = Wished(e) BY <1>1 DEF Allowed, Wished
  <2>4. \A e \in DOMAIN links : links[e].ips \subseteq Wished(e) BY <1>1, <2>1, <2>3 DEF Carries
  <2>5. Wished(d) = info[d] BY <1>2 DEF Wished
  <2>6. \A e \in DOMAIN links' : links'[e].ips \subseteq Wished(e) BY <1>4, <2>1, <2>4, <2>5
  <2>7. Carries' BY <2>3, <2>6 DEF Carries
  <2>8. \A a, b : Wished(a) \cap Wished(b) # {} => a = b BY <2>1 DEF Wished, InfoApart
  <2>9. Apart(links') BY <2>6, <2>8 DEF Apart
  <2> QED BY <2>2, <2>7, <2>9
<1> QED BY <1>3, <1>5, <1>6 DEF NetInv

LEMMA GeneratedIs ==
  ASSUME NEW d \in Dev PROVE Generated(d) \in Ip
<1>1. Offered \in Seq(Ip) /\ Len(Offered) \in DOMAIN Offered /\ Free \subseteq DOMAIN Offered
  BY AddressAssumption DEF Free
<1>2. CASE Free # {}
  <2>1. Free \in SUBSET Nat BY <1>1
  <2>2. \E i \in Free : \A j \in Free : i <= j BY <1>2, <2>1, Least
  <2>3. (CHOOSE i \in Free : \A j \in Free : i <= j) \in DOMAIN Offered BY <1>1, <2>2
  <2> QED BY <1>1, <1>2, <2>3, AddressAssumption DEF Generated
<1>3. CASE Free = {} BY <1>1, <1>3, AddressAssumption DEF Generated
<1> QED BY <1>2, <1>3

LEMMA FixKeeps ==
  ASSUME NetInv, NEW d \in Dev, NEW ip \in Ip, Fix(d, ip) PROVE NetInv'
<1>1. /\ netPc = "idle" /\ netPc' = "idle" /\ UNCHANGED <<current, todo, pings, meddled>> /\ quiet' = 0
      /\ fixes < MaxFixes /\ fixes' = fixes + 1
  BY DEF Fix
<1>2. IsLinks(links) /\ fixes' \in 0 .. MaxFixes BY <1>1, BoundAssumption DEF NetInv, NetTypeOK
<1>3. Underway' /\ Carries' BY <1>1 DEF NetInv, Underway, Carries
<1>4. CASE links' \in Created(links, d, ip) /\ info' = IpsOf(links') /\ UNCHANGED faults
  <2>1. IsLinks(links') BY <1>2, <1>4, CreatedIs
  <2>2. DOMAIN info' = DOMAIN links' /\ \A e \in DOMAIN links' : info'[e] = links'[e].ips BY <1>4 DEF IpsOf
  <2>3. IsInfo(info') BY <2>1, <2>2 DEF IsLinks, IsInfo
  <2>4. NetTypeOK' BY <1>1, <1>2, <1>4, <2>1, <2>3 DEF NetInv, NetTypeOK, IsInfo
  <2>5. ASSUME Peaceful' PROVE Apart(links)' /\ InfoApart'
    <3>1. Apart(links) BY <1>1, <1>4, <2>5 DEF Peaceful, NetInv
    <3>2. Apart(links') BY <1>2, <1>4, <3>1, CreatedApart
    <3> QED BY <2>2, <3>2 DEF Apart, InfoApart
  <2> QED BY <1>3, <2>4, <2>5 DEF NetInv
<1>5. CASE Fault /\ links' \in NotCreated(links, d, ip) /\ UNCHANGED info
  <2>1. faults' \in 0 .. MaxFaults /\ faults' # 0 BY <1>5, FaultCounts DEF NetInv
  <2>2. IsLinks(links') BY <1>2, <1>5, NotCreatedIs
  <2>3. NetTypeOK' BY <1>1, <1>2, <1>5, <2>1, <2>2 DEF NetInv, NetTypeOK, IsInfo
  <2> QED BY <1>3, <2>1, <2>3 DEF NetInv, Peaceful
<1> QED BY <1>4, <1>5 DEF Fix

LEMMA SaveKeeps ==
  ASSUME NetInv, SaveNetwork PROVE NetInv'
<1>1. /\ netPc = "idle" /\ netPc' = "idle" /\ UNCHANGED <<links, current, todo, pings, meddled, fixes>> /\ quiet' = 0
  BY DEF SaveNetwork
<1>2. Carries' BY <1>1 DEF Carries
<1>3. pings = {} BY <1>1 DEF NetInv, Underway
<1>4. Underway' BY <1>1, <1>3 DEF Underway
<1>5. CASE info' = IpsOf(links) /\ UNCHANGED faults
  <2>1. DOMAIN info' = DOMAIN links /\ \A e \in DOMAIN links : info'[e] = links[e].ips BY <1>5 DEF IpsOf
  <2>2. IsInfo(info') BY <2>1 DEF NetInv, NetTypeOK, IsLinks, IsInfo
  <2>3. NetTypeOK' BY <1>1, <1>5, <2>2 DEF NetInv, NetTypeOK, IsInfo
  <2>4. ASSUME Peaceful' PROVE Apart(links)' /\ InfoApart'
    <3>1. Apart(links) BY <1>1, <1>5, <2>4 DEF Peaceful, NetInv
    <3> QED BY <1>1, <2>1, <3>1 DEF Apart, InfoApart
  <2> QED BY <1>2, <1>4, <2>3, <2>4 DEF NetInv
<1>6. CASE Fault /\ info' = << >>
  <2>1. faults' \in 0 .. MaxFaults /\ faults' # 0 BY <1>6, FaultCounts DEF NetInv
  <2>2. IsInfo(info') BY <1>6 DEF IsInfo
  <2>3. NetTypeOK' BY <1>1, <2>1, <2>2 DEF NetInv, NetTypeOK, IsInfo
  <2> QED BY <1>4, <2>1, <2>3 DEF NetInv, Peaceful
<1> QED BY <1>5, <1>6 DEF SaveNetwork

LEMMA MeddleKeeps ==
  ASSUME NetInv, Meddle PROVE NetInv'
<1>1. UNCHANGED <<info, current, netPc, todo, pings, faults, fixes>> /\ quiet' = 0 BY DEF Meddle, Disturbed
<1>2. meddled' \in 0 .. MaxMeddled /\ meddled' # 0 BY BoundAssumption DEF Meddle, NetInv, NetTypeOK
<1>3. Underway' BY <1>1 DEF NetInv, Underway, Wished
<1>4. IsLinks(links) BY DEF NetInv, NetTypeOK
<1>5. \A d \in DOMAIN links : d \in Dev /\ links[d] \in [ips : SUBSET Ip, net : Subnet \cup {NoNet}, up : BOOLEAN]
  BY <1>4 DEF IsLinks
<1>6. ASSUME NEW l, IsLinks(l), NEW e \in Dev, NEW x \in [ips : SUBSET Ip, net : Subnet \cup {NoNet}, up : BOOLEAN]
      PROVE  IsLinks(With(l, e, x))
  BY <1>6 DEF IsLinks, With
<1>7. IsLinks(links')
  <2>1. ASSUME NEW d \in DOMAIN links, NEW ip \in Ip, links' = [links EXCEPT ![d].ips = @ \cup {ip}] PROVE IsLinks(links')
    <3>1. [links[d] EXCEPT !.ips = @ \cup {ip}] \in [ips : SUBSET Ip, net : Subnet \cup {NoNet}, up : BOOLEAN] BY <1>5
    <3>2. links' = [links EXCEPT ![d] = [links[d] EXCEPT !.ips = @ \cup {ip}]] BY <2>1
    <3> QED BY <1>4, <3>1, <3>2, ChangedIs
  <2>2. ASSUME NEW d \in DOMAIN links, links' = [links EXCEPT ![d].ips = {}] PROVE IsLinks(links')
    <3>1. [links[d] EXCEPT !.ips = {}] \in [ips : SUBSET Ip, net : Subnet \cup {NoNet}, up : BOOLEAN] BY <1>5
    <3>2. links' = [links EXCEPT ![d] = [links[d] EXCEPT !.ips = {}]] BY <2>2
    <3> QED BY <1>4, <3>1, <3>2, ChangedIs
  <2>3. ASSUME NEW d \in DOMAIN links, links' = [links EXCEPT ![d].up = FALSE] PROVE IsLinks(links')
    <3>1. [links[d] EXCEPT !.up = FALSE] \in [ips : SUBSET Ip, net : Subnet \cup {NoNet}, up : BOOLEAN] BY <1>5
    <3>2. links' = [links EXCEPT ![d] = [links[d] EXCEPT !.up = FALSE]] BY <2>3
    <3> QED BY <1>4, <3>1, <3>2, ChangedIs
  <2>4. ASSUME NEW d \in DOMAIN links, links' = Without(links, d) PROVE IsLinks(links') BY <1>4, <2>4, WithoutIs
  <2>5. ASSUME NEW d \in Dev \ DOMAIN links, links' = With(links, d, Iface({}, NoNet, FALSE)) PROVE IsLinks(links')
    <3>1. Iface({}, NoNet, FALSE) \in [ips : SUBSET Ip, net : Subnet \cup {NoNet}, up : BOOLEAN] BY DEF Iface
    <3> QED BY <1>4, <1>6, <2>5, <3>1
  <2>6. ASSUME NEW d \in DOMAIN links, NEW e \in Dev \ DOMAIN links, links' = With(Without(links, d), e, links[d])
        PROVE  IsLinks(links')
    <3>1. IsLinks(Without(links, d)) BY <1>4, WithoutIs
    <3> QED BY <1>5, <1>6, <2>6, <3>1
  <2> QED BY <2>1, <2>2, <2>3, <2>4, <2>5, <2>6 DEF Meddle
<1>8. NetTypeOK' BY <1>1, <1>2, <1>7 DEF NetInv, NetTypeOK, IsInfo
<1> QED BY <1>2, <1>3, <1>8 DEF NetInv, Peaceful

LEMMA NetStarts ==
  ASSUME NetInit PROVE NetInv
<1>1. PICK joined \in UNION {SetToSeqs(W) : W \in SUBSET Wanted} :
        /\ Len(joined) <= Len(Eth)
        /\ \A i, j \in DOMAIN joined : NetOf(joined[i]) = NetOf(joined[j]) => i = j \/ NetOf(joined[i]) = NoNet
        /\ links = Bridges(joined)
  BY DEF NetInit
<1>2. PICK W \in SUBSET Wanted : joined \in [1 .. Cardinality(W) -> W] BY DEF SetToSeqs
<1>3. \A i \in DOMAIN joined : joined[i][2] \in Ip \cup {NoIp}
  <2>1. \A w \in Wanted : w[2] \in Ip \cup {NoIp} BY DEF Wanted
  <2> QED BY <1>2, <2>1
<1> DEFINE seat(d) == CHOOSE i \in DOMAIN joined : Eth[i] = d
<1>4. DOMAIN joined \subseteq DOMAIN Eth
  <2>1. IsFiniteSet((DOMAIN Initial) \X (Ip \cup {NoIp}))
    <3>1. IsFiniteSet(DOMAIN Initial) BY DeviceAssumption, FS_Subset
    <3>2. IsFiniteSet(Ip \cup {NoIp}) BY AddressAssumption, FS_AddElement
    <3> QED BY <3>1, <3>2, FS_Product
  <2>2. W \subseteq (DOMAIN Initial) \X (Ip \cup {NoIp}) BY DEF Wanted
  <2>3. Cardinality(W) \in Nat BY <2>1, <2>2, FS_Subset, FS_CardinalityType
  <2>4. joined \in Seq(W) BY <1>2, <2>3
  <2> QED BY <1>1, <2>4, DeviceAssumption
<1>5. /\ DOMAIN links = {Eth[i] : i \in DOMAIN joined}
      /\ \A d \in DOMAIN links : links[d] = Iface(AddressOf(joined[seat(d)]), NetOf(joined[seat(d)]), TRUE)
  BY <1>1 DEF Bridges
<1>6. \A d \in DOMAIN links : seat(d) \in DOMAIN joined /\ Eth[seat(d)] = d BY <1>5
<1> HIDE DEF seat
<1>7. \A d \in DOMAIN links : links[d].ips = AddressOf(joined[seat(d)])
  <2>1. \A a, n : Iface(a, n, TRUE).ips = a BY DEF Iface
  <2> QED BY <1>5, <2>1
<1>8. IsLinks(links)
  <2>1. links = [d \in DOMAIN links |-> links[d]]
    <3> DEFINE S == {Eth[i] : i \in DOMAIN joined}
               f(d) == Iface(AddressOf(joined[CHOOSE i \in DOMAIN joined : Eth[i] = d]),
                             NetOf(joined[CHOOSE i \in DOMAIN joined : Eth[i] = d]), TRUE)
    <3>1. links = [d \in S |-> f(d)] BY <1>1, Zenon DEF Bridges
    <3> HIDE DEF S, f
    <3> QED BY <3>1
  <2> SUFFICES ASSUME NEW d \in DOMAIN links
               PROVE  d \in Dev /\ links[d] \in [ips : SUBSET Ip, net : Subnet \cup {NoNet}, up : BOOLEAN]
    BY <2>1 DEF IsLinks
  <2>2. d \in Dev BY <1>4, <1>6, DeviceAssumption DEF Range
  <2>3. AddressOf(joined[seat(d)]) \in SUBSET Ip BY <1>3, <1>6 DEF AddressOf
  <2>4. NetOf(joined[seat(d)]) \in Subnet \cup {NoNet} BY <1>3, <1>6, AddressAssumption DEF NetOf
  <2>5. \A a \in SUBSET Ip, n \in Subnet \cup {NoNet} :
          Iface(a, n, TRUE) \in [ips : SUBSET Ip, net : Subnet \cup {NoNet}, up : BOOLEAN]
    BY DEF Iface
  <2> QED BY <1>5, <2>2, <2>3, <2>4, <2>5
<1>9. Apart(links)
  <2> SUFFICES ASSUME NEW d \in DOMAIN links, NEW e \in DOMAIN links, links[d].ips \cap links[e].ips # {} PROVE d = e
    BY DEF Apart
  <2>1. PICK ip : ip \in AddressOf(joined[seat(d)]) /\ ip \in AddressOf(joined[seat(e)]) BY <1>7
  <2>2. joined[seat(d)][2] = ip /\ joined[seat(e)][2] = ip /\ ip # NoIp BY <2>1 DEF AddressOf
  <2>3. NetOf(joined[seat(d)]) = SubnetOf[ip] /\ NetOf(joined[seat(e)]) = SubnetOf[ip] BY <2>2 DEF NetOf
  <2>4. SubnetOf[ip] # NoNet BY <1>3, <1>6, <2>2, AddressAssumption
  <2>5. seat(d) = seat(e) BY <1>1, <1>6, <2>3, <2>4
  <2> QED BY <1>6, <2>5
<1>10. /\ info = Initial /\ current = << >> /\ netPc = "idle" /\ todo = {} /\ pings = {} /\ quiet = 0
       /\ meddled = 0 /\ faults = 0 /\ fixes = 0
  BY DEF NetInit
<1>11. NetTypeOK BY <1>8, <1>10, DeviceAssumption, BoundAssumption DEF NetTypeOK, IsInfo
<1>12. Underway /\ Carries BY <1>10 DEF Underway, Carries
<1>13. InfoApart BY <1>10, InitialAssumption DEF InfoApart
<1> QED BY <1>9, <1>11, <1>12, <1>13 DEF NetInv

LEMMA NetStep ==
  ASSUME NetInv, [NetNext]_netVars PROVE NetInv'
<1>1. CASE NetNext
  <2>1. CASE \E d \in Dev : FixNamed(d) BY <2>1, GeneratedIs, FixKeeps DEF FixNamed
  <2>2. CASE \E d \in Dev, ip \in Ip : FixAddressed(d, ip) BY <2>2, FixKeeps DEF FixAddressed
  <2> QED
    BY <1>1, <2>1, <2>2, ReconfigureKeeps, EndsKeep, SaveKeeps, MeddleKeeps, MissingKeeps, ExcessKeeps, FinalKeeps,
       PingKeeps
    DEF NetNext
<1>2. CASE UNCHANGED netVars
  <2>1. UNCHANGED <<links, info, current, netPc, todo, pings, quiet, meddled, faults, fixes>> BY <1>2 DEF netVars
  <2>2. NetTypeOK' BY <2>1 DEF NetInv, NetTypeOK, IsInfo
  <2>3. Underway' BY <2>1 DEF NetInv, Underway, Wished
  <2>4. Peaceful' => Peaceful BY <2>1 DEF Peaceful
  <2>5. Carries' <=> Carries BY <2>1 DEF Carries, Allowed, Wished
  <2>6. (Apart(links)' <=> Apart(links)) /\ (InfoApart' <=> InfoApart) BY <2>1 DEF InfoApart
  <2> QED BY <2>2, <2>3, <2>4, <2>5, <2>6 DEF NetInv
<1> QED BY <1>1, <1>2

(* NetTypeOK: the devices of the container and the two tables of addresses *)
(* keep their types, whatever the firmware and the failing commands do.    *)
THEOREM NetworkTyped == NetSpec => []NetTypeOK
<1>1. NetInv => NetTypeOK BY DEF NetInv
<1> QED BY <1>1, NetStarts, NetStep, PTL DEF NetSpec

(* AddressOnce: neither setup_bridges nor any step of reconfig_network nor *)
(* a fix puts an address on two devices.                                   *)
THEOREM NoAddressTwice == NetSpec => []AddressOnce
<1>1. NetInv => AddressOnce BY DEF NetInv, AddressOnce, Apart, Peaceful
<1> QED BY <1>1, NetStarts, NetStep, PTL DEF NetSpec

(* What reconfigurations in a row that nothing disturbs have achieved.  A  *)
(* first one that was undisturbed from its beginning (Narrowing) ends with *)
(* no device and no address that is too much (Narrowed).  The next one     *)
(* works on such a snapshot: a device with an address serves it from the   *)
(* moment on at which the walk has been at it, since what is made anew     *)
(* takes nothing from a device of another subnet (Repairing).  From then on*)
(* nothing is left to do (Steady).                                         *)
Pruned == {d \in DOMAIN current : netPc = "missing" \/ (netPc = "excess" /\ d \in todo)}
Narrowing ==
  quiet = 1 /\ netPc # "idle" =>
    \A d \in DOMAIN links : d \in DOMAIN info \cup Pruned /\ links[d].ips \subseteq Allowed(d)
Narrow(t) == \A d \in DOMAIN t : d \in DOMAIN info /\ t[d] \subseteq info[d]
Narrowed == quiet >= 2 => Narrow(IpsOf(links)) /\ (netPc # "idle" => Narrow(current))
Pending(d) ==
  \/ netPc = "missing" /\ (d \in todo \/ d \in DOMAIN current)
  \/ netPc = "excess" /\ (d \in todo \/ \E ip \in Ip : <<d, ip>> \in pings)
Serves(l, d) == d \in DOMAIN l /\ l[d].ips = info[d] /\ l[d].up /\ \A ip \in info[d] : l[d].net = SubnetOf[ip]
Repairing ==
  quiet = 2 /\ netPc # "idle" /\ Simple(info) =>
    /\ \A d \in DOMAIN info : info[d] # {} /\ ~ Pending(d) => Serves(links, d)
    /\ \A d \in DOMAIN links : d \in DOMAIN current \/ (info[d] # {} /\ (netPc = "missing" => d \notin todo))
    /\ netPc = "final" => \A d \in DOMAIN links : links[d].up \/ (d \in todo /\ d \in DOMAIN current)
Steady ==
  quiet = 3 /\ Simple(info) =>
    /\ \A d \in DOMAIN info : info[d] # {} => Serves(links, d)
    /\ \A d \in DOMAIN links : links[d].up
    /\ netPc # "idle" => current = IpsOf(links)
InSnapshot == netPc = "excess" => todo \subseteq DOMAIN current
Restoring == InSnapshot /\ Narrowing /\ Narrowed /\ Repairing /\ Steady

LEMMA SimpleIs ==
  ASSUME NetTypeOK, Simple(info), NEW d \in DOMAIN info, NEW ip \in info[d]
  PROVE  /\ info[d] = {ip} /\ ip \in Ip
         /\ \A e \in DOMAIN info : \A b \in info[e] : SubnetOf[b] = SubnetOf[ip] => e = d
<1>1. info[d] \subseteq Ip BY DEF NetTypeOK, IsInfo
<1>2. IsFiniteSet(info[d]) /\ Cardinality(info[d]) \in Nat BY <1>1, AddressAssumption, FS_Subset, FS_CardinalityType
<1>3. Cardinality(info[d]) = 1
  <2>1. Cardinality({ip}) = 1 /\ {ip} \in SUBSET info[d] BY FS_Singleton
  <2>2. Cardinality({ip}) <= Cardinality(info[d]) BY <1>2, <2>1, FS_Subset
  <2>3. Cardinality(info[d]) <= 1 BY DEF Simple
  <2> QED BY <1>2, <2>1, <2>2, <2>3
<1>4. \E x : info[d] = {x} BY <1>2, <1>3, FS_Singleton
<1> QED BY <1>1, <1>4 DEF Simple

(* A device that is made anew serves; no other is touched that does.       *)
LEMMA CutLeaves ==
  ASSUME NEW l, IsLinks(l), NEW s \in Subnet, NEW c \in Cut(l, s)
  PROVE  /\ \A e \in DOMAIN c : c[e].up = l[e].up
         /\ \A e \in DOMAIN l : l[e].net # s => e \in DOMAIN c /\ c[e] = l[e]
<1> DEFINE on == {d \in DOMAIN l : l[d].net = s}
<1>1. PICK gone \in SUBSET on : c = [d \in DOMAIN l \ gone |-> IF d \in on THEN [l[d] EXCEPT !.net = NoNet] ELSE l[d]]
  BY DEF Cut
<1>2. DOMAIN c = DOMAIN l \ gone /\ \A e \in DOMAIN c : c[e] = IF e \in on THEN [l[e] EXCEPT !.net = NoNet] ELSE l[e]
  BY <1>1
<1>3. \A e \in DOMAIN l : l[e] \in [ips : SUBSET Ip, net : Subnet \cup {NoNet}, up : BOOLEAN]
  BY DEF IsLinks
<1>4. \A e \in DOMAIN c : c[e].up = l[e].up BY <1>2, <1>3
<1> QED BY <1>2, <1>4

LEMMA CreatedServes ==
  ASSUME NetTypeOK, Simple(info), NEW d \in DOMAIN info, NEW ip \in info[d],
         NEW l \in {links, Without(links, d)}, ~ AlreadyThere(l, d, ip), NEW m \in Created(l, d, ip)
  PROVE  /\ Serves(m, d) /\ DOMAIN m \subseteq DOMAIN links \cup {d}
         /\ \A e \in DOMAIN info : info[e] # {} /\ Serves(links, e) => Serves(m, e)
         /\ \A e \in DOMAIN m \ {d} : m[e].up = links[e].up
<1>1. /\ info[d] = {ip} /\ ip \in Ip
      /\ \A e \in DOMAIN info : \A b \in info[e] : SubnetOf[b] = SubnetOf[ip] => e = d
  BY SimpleIs
<1>2. /\ IsLinks(links) /\ IsLinks(l)
      /\ DOMAIN l \subseteq DOMAIN links /\ DOMAIN links \subseteq DOMAIN l \cup {d}
      /\ \A e \in DOMAIN links \ {d} : l[e] = links[e]
  BY WithoutIs DEF NetTypeOK
<1> DEFINE k == Cleared(l, d, ip)
<1>3. PICK c \in Cut(k, SubnetOf[ip]) : m = With(c, d, Iface({ip}, SubnetOf[ip], TRUE)) BY DEF Created
<1>4. /\ DOMAIN k = DOMAIN l \ {d} /\ IsLinks(k)
      /\ \A e \in DOMAIN k : k[e].ips = links[e].ips \ {ip} /\ k[e].net = links[e].net /\ k[e].up = links[e].up
  <2>1. \A e \in DOMAIN l : l[e] \in [ips : SUBSET Ip, net : Subnet \cup {NoNet}, up : BOOLEAN] BY <1>2 DEF IsLinks
  <2>2. DOMAIN k = DOMAIN l \ {d} /\ \A e \in DOMAIN k : k[e] = [l[e] EXCEPT !.ips = l[e].ips \ {ip}]
    BY DEF Cleared, Without, Drop
  <2>3. \A e \in DOMAIN k : k[e] \in [ips : SUBSET Ip, net : Subnet \cup {NoNet}, up : BOOLEAN]
    BY <2>1, <2>2
  <2>4. IsLinks(k)
    <3>1. k = [e \in DOMAIN k |-> k[e]] BY DEF Cleared, Without
    <3> QED BY <1>2, <2>2, <2>3, <3>1 DEF IsLinks
  <2>5. \A e \in DOMAIN k : k[e].ips = l[e].ips \ {ip} /\ k[e].net = l[e].net /\ k[e].up = l[e].up BY <2>1, <2>2
  <2> QED BY <1>2, <2>2, <2>4, <2>5
<1> HIDE DEF k
<1>5. /\ DOMAIN c \subseteq DOMAIN k
      /\ \A e \in DOMAIN c : c[e].up = k[e].up
      /\ \A e \in DOMAIN k : k[e].net # SubnetOf[ip] => e \in DOMAIN c /\ c[e] = k[e]
  BY <1>1, <1>4, CutIs, CutLeaves, AddressAssumption
<1>6. /\ DOMAIN m = DOMAIN c \cup {d} /\ m[d] = Iface({ip}, SubnetOf[ip], TRUE)
      /\ \A e \in DOMAIN c \ {d} : m[e] = c[e]
  BY <1>3 DEF With
<1>7. m[d].ips = {ip} /\ m[d].net = SubnetOf[ip] /\ m[d].up BY <1>6 DEF Iface
<1>8. Serves(m, d) BY <1>1, <1>6, <1>7 DEF Serves
<1>9. DOMAIN m \subseteq DOMAIN links \cup {d} BY <1>2, <1>4, <1>5, <1>6
<1>10. \A e \in DOMAIN m \ {d} : m[e].up = links[e].up BY <1>4, <1>5, <1>6
<1>11. ASSUME NEW e \in DOMAIN info, info[e] # {}, Serves(links, e), e # d PROVE Serves(m, e)
  <2>1. PICK b \in info[e] : links[e].net = SubnetOf[b] BY <1>11 DEF Serves
  <2>2. links[e].net # SubnetOf[ip] /\ ip \notin info[e] BY <1>1, <1>11, <2>1
  <2>3. e \in DOMAIN k /\ k[e].ips = info[e] /\ k[e].net = links[e].net /\ k[e].up
    <3>1. e \in DOMAIN links /\ links[e].ips = info[e] /\ links[e].up BY <1>11 DEF Serves
    <3>2. e \in DOMAIN k BY <1>2, <1>4, <1>11, <3>1
    <3>3. k[e].ips = links[e].ips \ {ip} /\ k[e].net = links[e].net /\ k[e].up = links[e].up BY <1>4, <3>2
    <3> QED BY <2>2, <3>1, <3>2, <3>3
  <2>4. k[e].net # SubnetOf[ip] BY <2>2, <2>3
  <2>5. e \in DOMAIN c /\ c[e] = k[e] BY <1>5, <2>3, <2>4
  <2>6. e \in DOMAIN m /\ m[e] = k[e] BY <1>6, <1>11, <2>5
  <2> QED BY <1>11, <2>3, <2>6 DEF Serves
<1> QED BY <1>8, <1>9, <1>10, <1>11

(* A step inside a loop that takes addresses away, or gives d, which the   *)
(* snapshot says nothing of any more, addresses that it should have.       *)
Fills(d) == d \in DOMAIN info /\ d \notin Pruned
LEMMA StepNarrows ==
  ASSUME NetTypeOK, Narrowing, Narrowed, quiet' = quiet, quiet >= 1, netPc' = netPc, netPc # "idle",
         UNCHANGED <<info, current>>, netPc = "excess" => todo' = todo, NEW d,
         \A e \in DOMAIN links' :
           \/ e \in DOMAIN links /\ links'[e].ips \subseteq links[e].ips
           \/ e = d /\ Fills(d) /\ links'[d].ips \subseteq (IF d \in DOMAIN links THEN links[d].ips ELSE {}) \cup info[d]
  PROVE  Narrowing' /\ Narrowed'
<1>1. Pruned' = Pruned BY DEF Pruned
<1>2. \A e : Allowed(e)' = Allowed(e) BY DEF Allowed, Wished
<1>3. Fills(d) => Allowed(d) = info[d] BY DEF Allowed, Wished, Pruned, Fills
<1>4. Narrowing'
  <2> SUFFICES ASSUME quiet = 1, NEW e \in DOMAIN links'
               PROVE  e \in DOMAIN info \cup Pruned /\ links'[e].ips \subseteq Allowed(e)
    BY <1>1, <1>2 DEF Narrowing
  <2>1. \A x \in DOMAIN links : x \in DOMAIN info \cup Pruned /\ links[x].ips \subseteq Allowed(x) BY DEF Narrowing
  <2> QED BY <1>3, <2>1 DEF Fills
<1>5. Narrowed'
  <2> SUFFICES ASSUME quiet >= 2 PROVE Narrow(IpsOf(links))' /\ Narrow(current)' BY DEF Narrowed
  <2>1. Narrow(current)' BY DEF Narrowed, Narrow
  <2>2. \A x \in DOMAIN links : x \in DOMAIN info /\ links[x].ips \subseteq info[x] BY DEF Narrowed, Narrow, IpsOf
  <2>3. \A x \in DOMAIN links' : x \in DOMAIN info /\ links'[x].ips \subseteq info[x] BY <2>2 DEF Fills
  <2> QED BY <2>1, <2>3 DEF Narrow, IpsOf
<1> QED BY <1>4, <1>5

Still == quiet = 3 /\ quiet' = 3 /\ Simple(info) => UNCHANGED links

LEMMA Unquiet ==
  ASSUME quiet' = 0 PROVE Narrowing' /\ Narrowed' /\ Repairing' /\ Steady' /\ Still
BY DEF Narrowing, Narrowed, Repairing, Steady, Still

LEMMA MissingRestores ==
  ASSUME NetInv, Restoring, NEW d \in Dev, Missing(d) PROVE Restoring' /\ Still
<1>1. /\ netPc = "missing" /\ netPc' = "missing" /\ d \in todo /\ Recreate(d) /\ todo' = todo \ {d}
      /\ UNCHANGED <<info, current, pings>> /\ quiet' = IF faults' # faults THEN 0 ELSE quiet
  BY DEF Missing, Undisturbed
<1>2. d \in DOMAIN info /\ info[d] \subseteq Ip /\ pings = {} BY <1>1 DEF NetInv, Underway, NetTypeOK, IsInfo
<1>3. InSnapshot' BY <1>1 DEF InSnapshot
<1>4. CASE quiet' = 0 BY <1>3, <1>4, Unquiet DEF Restoring
<1>5. CASE quiet' # 0
  <2>1. quiet' = quiet /\ faults' = faults /\ quiet \in 1 .. 3 /\ IsLinks(links) BY <1>1, <1>5 DEF NetInv, NetTypeOK
  <2>2. \/ links' = links /\ (d \in DOMAIN current \/ info[d] = {})
        \/ d \notin DOMAIN current /\ \E ip \in info[d] : links' \in Created(links, d, ip)
    <3>1. ~ Fault BY <2>1, FaultCounts DEF NetInv
    <3> QED BY <1>1, <3>1 DEF Recreate, Create
  <2>3. Narrowing' /\ Narrowed'
    <3>1. \A e \in DOMAIN links' :
           \/ e \in DOMAIN links /\ links'[e].ips \subseteq links[e].ips
           \/ e = d /\ Fills(d) /\ links'[d].ips \subseteq (IF d \in DOMAIN links THEN links[d].ips ELSE {}) \cup info[d]
      <4>1. CASE links' = links BY <4>1
      <4>2. ASSUME d \notin DOMAIN current, NEW ip \in info[d], links' \in Created(links, d, ip)
            PROVE  /\ \A e \in DOMAIN links' \ {d} : e \in DOMAIN links /\ links'[e].ips \subseteq links[e].ips
                   /\ links' = links \/ links'[d].ips = {ip}
        BY <1>2, <2>1, <4>2, CreatedIs
      <4>3. d \notin DOMAIN current => Fills(d) BY <1>2 DEF Fills, Pruned
      <4> QED BY <2>2, <4>1, <4>2, <4>3
    <3> QED BY <1>1, <2>1, <3>1, StepNarrows DEF NetInv, Restoring
  <2>4. \A e : Serves(links, e)' <=> Serves(links', e) BY <1>1 DEF Serves
  <2>5. Repairing'
    <3> SUFFICES ASSUME quiet = 2, Simple(info)
                 PROVE  /\ \A e \in DOMAIN info : info[e] # {} /\ ~ Pending(e)' => Serves(links', e)
                        /\ \A e \in DOMAIN links' : e \in DOMAIN current \/ (info[e] # {} /\ e \notin todo')
      BY <1>1, <2>1, <2>4 DEF Repairing, Simple
    <3>1. /\ \A e \in DOMAIN info : info[e] # {} /\ ~ Pending(e) => Serves(links, e)
          /\ \A e \in DOMAIN links : e \in DOMAIN current \/ (info[e] # {} /\ e \notin todo)
      BY <1>1 DEF Restoring, Repairing
    <3>2. \A e : (Pending(e)' <=> e \in todo' \/ e \in DOMAIN current) /\ (Pending(e) <=> e \in todo \/ e \in DOMAIN current)
      BY <1>1 DEF Pending
    <3>3. CASE links' = links /\ (d \in DOMAIN current \/ info[d] = {}) BY <1>1, <3>1, <3>2, <3>3
    <3>4. ASSUME d \notin DOMAIN current, NEW ip \in info[d], links' \in Created(links, d, ip)
          PROVE  /\ \A e \in DOMAIN info : info[e] # {} /\ ~ Pending(e)' => Serves(links', e)
                 /\ \A e \in DOMAIN links' : e \in DOMAIN current \/ (info[e] # {} /\ e \notin todo')
      <4>1. ~ AlreadyThere(links, d, ip) BY <1>1, <3>1, <3>4 DEF AlreadyThere
      <4>2. /\ Serves(links', d) /\ DOMAIN links' \subseteq DOMAIN links \cup {d}
            /\ \A e \in DOMAIN info : info[e] # {} /\ Serves(links, e) => Serves(links', e)
        BY <1>2, <3>4, <4>1, CreatedServes DEF NetInv
      <4> QED BY <1>1, <3>1, <3>2, <3>4, <4>2
    <3> QED BY <2>2, <3>3, <3>4
  <2>6. quiet = 3 /\ Simple(info) => links' = links
    <3> SUFFICES ASSUME quiet = 3, Simple(info), d \notin DOMAIN current, info[d] # {} PROVE FALSE BY <2>2
    <3>1. Serves(links, d) /\ DOMAIN current = DOMAIN links BY <1>1, <1>2 DEF Restoring, Steady, IpsOf
    <3> QED BY <3>1 DEF Serves
  <2>7. Steady'
    <3> SUFFICES ASSUME quiet = 3, Simple(info)
                 PROVE  /\ \A e \in DOMAIN info : info[e] # {} => Serves(links', e)
                        /\ \A e \in DOMAIN links' : links'[e].up
                        /\ current = IpsOf(links')
      BY <1>1, <2>1, <2>4 DEF Steady, Simple, IpsOf
    <3> QED BY <1>1, <2>6 DEF Restoring, Steady
  <2> QED BY <1>3, <2>3, <2>5, <2>6, <2>7 DEF Restoring, Still
<1> QED BY <1>4, <1>5

LEMMA ReconfigureRestores ==
  ASSUME NetInv, Restoring, Reconfigure PROVE Restoring' /\ Still
<1>1. /\ netPc = "idle" /\ netPc' = "missing" /\ Reads /\ todo' = DOMAIN info
      /\ UNCHANGED <<links, info, pings>> /\ quiet' = IF faults' # faults THEN 0 ELSE quiet
  BY DEF Reconfigure
<1>2. InSnapshot' /\ Still BY <1>1 DEF InSnapshot, Still
<1>3. CASE quiet' = 0 BY <1>2, <1>3, Unquiet DEF Restoring
<1>4. CASE quiet' # 0
  <2>1. quiet' = quiet /\ quiet \in 1 .. 3 BY <1>1, <1>4 DEF NetInv, NetTypeOK
  <2>2. current' = IpsOf(links) BY <1>1, <1>4, FaultCounts DEF Reads, NetInv
  <2>3. DOMAIN current' = DOMAIN links /\ \A d \in DOMAIN links : current'[d] = links[d].ips BY <2>2 DEF IpsOf
  <2>4. Pruned' = DOMAIN links BY <1>1, <2>3 DEF Pruned
  <2>5. \A d \in DOMAIN links : Allowed(d)' = links[d].ips BY <1>1, <2>3 DEF Allowed
  <2>6. Narrowing' BY <1>1, <2>4, <2>5 DEF Narrowing
  <2>7. Narrowed' BY <1>1, <2>1, <2>2 DEF Restoring, Narrowed, Narrow, IpsOf
  <2>8. Repairing'
    <3>1. \A d \in DOMAIN info : Pending(d)' BY <1>1 DEF Pending
    <3> QED BY <1>1, <2>3, <3>1 DEF Repairing
  <2>9. Steady'
    <3>1. \A d : Serves(links, d)' <=> Serves(links, d) BY <1>1 DEF Serves
    <3>2. IpsOf(links)' = IpsOf(links) BY <1>1 DEF IpsOf
    <3> QED BY <1>1, <2>1, <2>2, <3>1, <3>2 DEF Restoring, Steady, Simple
  <2> QED BY <1>2, <2>6, <2>7, <2>8, <2>9 DEF Restoring
<1> QED BY <1>3, <1>4

LEMMA EndMissingRestores ==
  ASSUME NetInv, Restoring, EndMissing PROVE Restoring' /\ Still
<1>1. /\ netPc = "missing" /\ netPc' = "excess" /\ todo = {} /\ todo' = DOMAIN current
      /\ UNCHANGED <<links, info, current, pings, quiet>>
  BY DEF EndMissing
<1>2. InSnapshot' /\ Still BY <1>1 DEF InSnapshot, Still
<1>3. Narrowing'
  <2>1. Pruned' = Pruned /\ \A d : Allowed(d)' = Allowed(d) BY <1>1 DEF Pruned, Allowed, Wished
  <2> QED BY <1>1, <2>1 DEF Restoring, Narrowing
<1>4. Narrowed' BY <1>1 DEF Restoring, Narrowed, Narrow, IpsOf
<1>5. \A d : Serves(links, d)' <=> Serves(links, d) BY <1>1 DEF Serves
<1>6. Repairing'
  <2>1. \A d : Pending(d) => Pending(d)' BY <1>1 DEF Pending
  <2> QED BY <1>1, <1>5, <2>1 DEF Restoring, Repairing, Simple
<1>7. Steady'
  <2>1. IpsOf(links)' = IpsOf(links) BY <1>1 DEF IpsOf
  <2> QED BY <1>1, <1>5, <2>1 DEF Restoring, Steady, Simple
<1> QED BY <1>2, <1>3, <1>4, <1>6, <1>7 DEF Restoring

LEMMA EndExcessRestores ==
  ASSUME NetInv, Restoring, EndExcess PROVE Restoring' /\ Still
<1>1. /\ netPc = "excess" /\ netPc' = "final" /\ todo = {} /\ pings = {} /\ todo' = DOMAIN info
      /\ UNCHANGED <<links, info, current, pings, quiet>>
  BY DEF EndExcess
<1>2. InSnapshot' /\ Still BY <1>1 DEF InSnapshot, Still
<1>3. Narrowing'
  <2>1. Pruned' = Pruned /\ \A d : Allowed(d)' = Allowed(d) BY <1>1 DEF Pruned, Allowed, Wished
  <2> QED BY <1>1, <2>1 DEF Restoring, Narrowing
<1>4. Narrowed' BY <1>1 DEF Restoring, Narrowed, Narrow, IpsOf
<1>5. \A d : Serves(links, d)' <=> Serves(links, d) BY <1>1 DEF Serves
<1>6. Repairing'
  <2> SUFFICES ASSUME quiet = 2, Simple(info)
               PROVE  /\ \A d \in DOMAIN info : info[d] # {} => Serves(links, d)
                      /\ \A d \in DOMAIN links : d \in DOMAIN current \/ info[d] # {}
                      /\ \A d \in DOMAIN links : links[d].up \/ (d \in todo' /\ d \in DOMAIN current)
    BY <1>1, <1>5 DEF Repairing, Simple
  <2>1. \A d : ~ Pending(d) BY <1>1 DEF Pending
  <2>2. /\ \A d \in DOMAIN info : info[d] # {} => Serves(links, d)
        /\ \A d \in DOMAIN links : d \in DOMAIN current \/ info[d] # {}
    BY <1>1, <2>1 DEF Restoring, Repairing
  <2>3. DOMAIN links \subseteq DOMAIN info BY DEF Restoring, Narrowed, Narrow, IpsOf
  <2> QED BY <1>1, <2>2, <2>3 DEF Serves
<1>7. Steady'
  <2>1. IpsOf(links)' = IpsOf(links) BY <1>1 DEF IpsOf
  <2> QED BY <1>1, <1>5, <2>1 DEF Restoring, Steady, Simple
<1> QED BY <1>2, <1>3, <1>4, <1>6, <1>7 DEF Restoring

(* The two reconfigurations that do it: after the first no device and no   *)
(* address is too much, after the second none is missing.                  *)
LEMMA ReconfiguredRestores ==
  ASSUME NetInv, Restoring, Reconfigured PROVE Restoring' /\ Still
<1>1. /\ netPc = "final" /\ netPc' = "idle" /\ todo = {} /\ UNCHANGED <<links, info, current, pings>>
      /\ quiet' = IF quiet < 3 THEN quiet + 1 ELSE 3
  BY DEF Reconfigured
<1>2. InSnapshot' /\ Still /\ Narrowing' /\ Repairing' BY <1>1 DEF InSnapshot, Still, Narrowing, Repairing
<1>3. quiet \in 0 .. 3 BY DEF NetInv, NetTypeOK
<1>4. Narrowed'
  <2> SUFFICES ASSUME quiet >= 1 PROVE Narrow(IpsOf(links)) BY <1>1, <1>3 DEF Narrowed, Narrow, IpsOf
  <2>1. CASE quiet >= 2 BY <2>1 DEF Restoring, Narrowed
  <2>2. CASE quiet = 1
    <3>1. \A d \in DOMAIN links : d \in DOMAIN info \cup Pruned /\ links[d].ips \subseteq Allowed(d)
      BY <1>1, <2>2 DEF Restoring, Narrowing
    <3>2. Pruned = {} /\ \A d \in DOMAIN info : Allowed(d) = info[d] BY <1>1 DEF Pruned, Allowed, Wished
    <3> QED BY <3>1, <3>2 DEF Narrow, IpsOf
  <2> QED BY <1>3, <2>1, <2>2
<1>5. \A d : Serves(links, d)' <=> Serves(links, d) BY <1>1 DEF Serves
<1>6. Steady'
  <2> SUFFICES ASSUME quiet' = 3, Simple(info)
               PROVE  /\ \A d \in DOMAIN info : info[d] # {} => Serves(links, d)
                      /\ \A d \in DOMAIN links : links[d].up
    BY <1>1, <1>5 DEF Steady, Simple
  <2>1. CASE quiet = 3 BY <2>1 DEF Restoring, Steady
  <2>2. CASE quiet = 2
    <3>1. \A d : ~ Pending(d) BY <1>1 DEF Pending
    <3> QED BY <1>1, <2>2, <3>1 DEF Restoring, Repairing
  <2> QED BY <1>1, <1>3, <2>1, <2>2
<1> QED BY <1>2, <1>4, <1>6 DEF Restoring

LEMMA ExcessRestores ==
  ASSUME NetInv, Restoring, NEW d \in Dev, Excess(d) PROVE Restoring' /\ Still
<1>1. /\ netPc = "excess" /\ netPc' = "excess" /\ d \in todo /\ pings = {} /\ todo' = todo \ {d}
      /\ pings' = {d} \X Wished(d) /\ UNCHANGED <<info, current>> /\ quiet' = IF faults' # faults THEN 0 ELSE quiet
  BY DEF Excess, Undisturbed
<1>2. InSnapshot' BY <1>1 DEF Restoring, InSnapshot
<1>3. CASE quiet' = 0 BY <1>2, <1>3, Unquiet DEF Restoring
<1>4. CASE quiet' # 0
  <2>1. quiet' = quiet /\ quiet \in 1 .. 3 /\ IsLinks(links) /\ d \in DOMAIN current
    BY <1>1, <1>4 DEF NetInv, NetTypeOK, Restoring, InSnapshot
  <2>2. links' = IF d \in DOMAIN info THEN Flushed(links, d) ELSE Without(Flushed(links, d), d)
    BY <1>1, <1>4, FaultCounts DEF Excess, NetInv
  <2>3. quiet >= 2 => links' = links
    <3> SUFFICES ASSUME quiet >= 2 PROVE links' = links OBVIOUS
    <3>1. d \in DOMAIN info /\ current[d] \subseteq Wished(d) BY <1>1, <2>1 DEF Restoring, Narrowed, Narrow, Wished
    <3> QED BY <2>2, <3>1 DEF Flushed
  <2>4. Narrowing'
    <3> SUFFICES ASSUME quiet = 1, NEW e \in DOMAIN links'
                 PROVE  e \in DOMAIN info \cup Pruned' /\ links'[e].ips \subseteq Allowed(e)'
      BY <1>1, <2>1 DEF Narrowing
    <3>1. \A x \in DOMAIN links : x \in DOMAIN info \cup Pruned /\ links[x].ips \subseteq Allowed(x)
      BY <1>1 DEF Restoring, Narrowing
    <3> DEFINE m == Flushed(links, d)
    <3>2. /\ IsLinks(m) /\ DOMAIN m = DOMAIN links
          /\ \A x \in DOMAIN links \ {d} : m[x].ips = links[x].ips
          /\ d \in DOMAIN links => m[d].ips = {} \/ (m[d].ips = links[d].ips /\ current[d] \subseteq Wished(d))
      BY <2>1, FlushedIs
    <3>3. links' = IF d \in DOMAIN info THEN m ELSE Without(m, d) BY <2>2
    <3> HIDE DEF m
    <3>4. DOMAIN Without(m, d) = DOMAIN m \ {d} /\ \A x \in DOMAIN m \ {d} : Without(m, d)[x] = m[x]
      BY <3>2, WithoutIs
    <3>5. Pruned' = Pruned \ {d} /\ Allowed(d)' = Wished(d) /\ Allowed(d) = current[d]
          /\ \A x : x # d => Allowed(x)' = Allowed(x)
      BY <1>1, <2>1 DEF Pruned, Allowed, Wished
    <3>6. CASE e = d BY <3>1, <3>2, <3>3, <3>4, <3>5, <3>6
    <3>7. CASE e # d BY <3>1, <3>2, <3>3, <3>4, <3>5, <3>7
    <3> QED BY <3>6, <3>7
  <2>5. Narrowed'
    <3> SUFFICES ASSUME quiet >= 2 PROVE Narrow(IpsOf(links))' /\ Narrow(current)' BY <2>1 DEF Narrowed
    <3> QED BY <1>1, <2>3 DEF Restoring, Narrowed, Narrow, IpsOf
  <2>6. quiet >= 2 => \A e : Serves(links, e)' <=> Serves(links, e) BY <1>1, <2>3 DEF Serves
  <2>7. Repairing'
    <3> SUFFICES ASSUME quiet = 2, Simple(info)
                 PROVE  /\ \A e \in DOMAIN info : info[e] # {} /\ ~ Pending(e)' => Serves(links, e)
                        /\ \A e \in DOMAIN links : e \in DOMAIN current \/ info[e] # {}
      BY <1>1, <2>1, <2>3, <2>6 DEF Repairing, Simple
    <3>1. ASSUME NEW e \in DOMAIN info, info[e] # {}, ~ Pending(e)' PROVE ~ Pending(e)
      <4>1. \A ip \in Wished(d) : ip \in Ip /\ <<d, ip>> \in pings'
        BY <1>1 DEF NetInv, NetTypeOK, IsInfo, Wished
      <4>2. e # d
        <5>1. e = d => \E ip \in Wished(d) : TRUE BY <3>1 DEF Wished
        <5>2. (\E ip \in Ip : <<d, ip>> \in pings') => Pending(d)' BY <1>1 DEF Pending
        <5> QED BY <3>1, <4>1, <5>1, <5>2
      <4>3. e \notin todo BY <1>1, <3>1, <4>2 DEF Pending
      <4> QED BY <1>1, <4>3 DEF Pending
    <3> QED BY <1>1, <3>1 DEF Restoring, Repairing
  <2>8. Steady' /\ Still
    <3>1. quiet = 3 => IpsOf(links)' = IpsOf(links) BY <2>3 DEF IpsOf
    <3> QED BY <1>1, <2>1, <2>3, <2>6, <3>1 DEF Restoring, Steady, Still, Simple
  <2> QED BY <1>2, <2>4, <2>5, <2>7, <2>8 DEF Restoring
<1> QED BY <1>3, <1>4

LEMMA PingRestores ==
  ASSUME NetInv, Restoring, NEW d \in Dev, NEW ip \in Ip, Ping(d, ip) PROVE Restoring' /\ Still
<1>1. /\ netPc = "excess" /\ netPc' = "excess" /\ <<d, ip>> \in pings /\ pings' = pings \ {<<d, ip>>}
      /\ UNCHANGED <<info, current, todo>> /\ quiet' = IF faults' # faults THEN 0 ELSE quiet
  BY DEF Ping, Undisturbed
<1>2. InSnapshot' BY <1>1 DEF Restoring, InSnapshot
<1>3. d \notin todo /\ d \in DOMAIN info /\ ip \in info[d]
  <2>1. \A p \in pings : p[1] \notin todo /\ p[2] \in Wished(p[1]) BY DEF NetInv, Underway
  <2>2. d \notin todo /\ ip \in Wished(d) BY <1>1, <2>1
  <2> QED BY <2>2 DEF Wished
<1>4. CASE quiet' = 0 BY <1>2, <1>4, Unquiet DEF Restoring
<1>5. CASE quiet' # 0
  <2>1. quiet' = quiet /\ quiet \in 1 .. 3 /\ NetTypeOK /\ IsLinks(links) BY <1>1, <1>5 DEF NetInv, NetTypeOK
  <2> DEFINE l == Without(links, d)
  <2>2. IF Pings(links, ip) THEN links' = links ELSE links' \in Created(l, d, ip)
    BY <1>1, <1>5, FaultCounts DEF Ping, Create, NetInv
  <2>3. /\ IsLinks(l) /\ DOMAIN l = DOMAIN links \ {d} /\ \A e \in DOMAIN l : l[e] = links[e]
        /\ l \in {links, Without(links, d)}
    BY <2>1, WithoutIs
  <2> HIDE DEF l
  <2>4. Narrowing' /\ Narrowed'
    <3>1. ~ Pings(links, ip) =>
            /\ DOMAIN links' \subseteq DOMAIN l \cup {d} /\ d \in DOMAIN links'
            /\ \A e \in DOMAIN links' \ {d} : links'[e].ips \subseteq l[e].ips
            /\ links' = l \/ links'[d].ips = {ip}
      BY <2>2, <2>3, CreatedIs
    <3>2. Fills(d) BY <1>1, <1>3 DEF Fills, Pruned
    <3>3. \A e \in DOMAIN links' :
           \/ e \in DOMAIN links /\ links'[e].ips \subseteq links[e].ips
           \/ e = d /\ Fills(d) /\ links'[d].ips \subseteq (IF d \in DOMAIN links THEN links[d].ips ELSE {}) \cup info[d]
      BY <1>3, <2>2, <2>3, <3>1, <3>2
    <3> QED BY <1>1, <2>1, <3>3, StepNarrows DEF Restoring
  <2>5. \A e : Serves(links, e)' <=> Serves(links', e) BY <1>1 DEF Serves
  <2>6. \A e : e # d /\ Pending(e) => Pending(e)'
    <3>1. \A e, b : e # d /\ <<e, b>> \in pings => <<e, b>> \in pings' BY <1>1
    <3> QED BY <1>1, <3>1 DEF Pending
  <2>7. quiet >= 2 /\ Simple(info) /\ Pings(links, ip) => Serves(links, d)
    <3> SUFFICES ASSUME quiet >= 2, Simple(info), Pings(links, ip) PROVE Serves(links, d) OBVIOUS
    <3>1. PICK e \in DOMAIN links : links[e].up /\ ip \in links[e].ips /\ links[e].net = SubnetOf[ip] BY DEF Pings
    <3>2. e \in DOMAIN info /\ links[e].ips \subseteq info[e] BY DEF Restoring, Narrowed, Narrow, IpsOf
    <3>3. info[d] = {ip} /\ \A x \in DOMAIN info : \A b \in info[x] : SubnetOf[b] = SubnetOf[ip] => x = d
      BY <1>3, <2>1, SimpleIs
    <3>4. e = d BY <3>1, <3>2, <3>3
    <3> QED BY <3>1, <3>2, <3>3, <3>4 DEF Serves
  <2>8. Repairing'
    <3> SUFFICES ASSUME quiet = 2, Simple(info)
                 PROVE  /\ \A e \in DOMAIN info : info[e] # {} /\ ~ Pending(e)' => Serves(links', e)
                        /\ \A e \in DOMAIN links' : e \in DOMAIN current \/ info[e] # {}
      BY <1>1, <2>1, <2>5 DEF Repairing, Simple
    <3>1. /\ \A e \in DOMAIN info : info[e] # {} /\ ~ Pending(e) => Serves(links, e)
          /\ \A e \in DOMAIN links : e \in DOMAIN current \/ info[e] # {}
      BY <1>1 DEF Restoring, Repairing
    <3>2. CASE Pings(links, ip) BY <2>2, <2>6, <2>7, <3>1, <3>2
    <3>3. CASE ~ Pings(links, ip)
      <4>1. ~ AlreadyThere(l, d, ip) BY <2>3 DEF AlreadyThere
      <4>2. /\ Serves(links', d) /\ DOMAIN links' \subseteq DOMAIN links \cup {d}
            /\ \A e \in DOMAIN info : info[e] # {} /\ Serves(links, e) => Serves(links', e)
        BY <1>3, <2>1, <2>2, <2>3, <3>3, <4>1, CreatedServes
      <4> QED BY <1>3, <2>6, <3>1, <4>2
    <3> QED BY <3>2, <3>3
  <2>9. quiet = 3 /\ Simple(info) => links' = links
    <3> SUFFICES ASSUME quiet = 3, Simple(info) PROVE Pings(links, ip) BY <2>2
    <3>1. Serves(links, d) BY <1>3 DEF Restoring, Steady
    <3> QED BY <1>3, <3>1 DEF Serves, Pings
  <2>10. Steady'
    <3> SUFFICES ASSUME quiet = 3, Simple(info)
                 PROVE  /\ \A e \in DOMAIN info : info[e] # {} => Serves(links', e)
                        /\ \A e \in DOMAIN links' : links'[e].up
                        /\ current = IpsOf(links')
      BY <1>1, <2>1, <2>5 DEF Steady, Simple, IpsOf
    <3> QED BY <1>1, <2>9 DEF Restoring, Steady
  <2> QED BY <1>2, <2>4, <2>8, <2>9, <2>10 DEF Restoring, Still
<1> QED BY <1>4, <1>5

LEMMA RaisedIs ==
  ASSUME IsLinks(links), NEW d \in DOMAIN info, info[d] \subseteq Ip
  PROVE  /\ DOMAIN Raised(links, d) = DOMAIN links
         /\ \A e \in DOMAIN links \ {d} : Raised(links, d)[e] = links[e]
         /\ d \in DOMAIN links =>
              /\ Raised(links, d)[d].ips = links[d].ips \cup (info[d] \ current[d])
              /\ Raised(links, d)[d].net = links[d].net /\ Raised(links, d)[d].up
              /\ links[d].up /\ info[d] \ current[d] \subseteq links[d].ips => Raised(links, d) = links
<1>1. CASE d \notin DOMAIN links BY <1>1 DEF Raised
<1>2. CASE d \in DOMAIN links
  <2> DEFINE m == Raised(links, d)
             x == [[links[d] EXCEPT !.up = TRUE] EXCEPT !.ips = links[d].ips \cup (info[d] \ current[d])]
  <2>1. links[d] \in [ips : SUBSET Ip, net : Subnet \cup {NoNet}, up : BOOLEAN] BY <1>2 DEF IsLinks
  <2>2. m = [links EXCEPT ![d].up = TRUE, ![d].ips = @ \cup (info[d] \ current[d])] BY <1>2 DEF Raised
  <2>3. m = [links EXCEPT ![d] = x] BY <1>2, <2>1, <2>2
  <2>4. x.ips = links[d].ips \cup (info[d] \ current[d]) /\ x.net = links[d].net /\ x.up = TRUE BY <2>1
  <2>5. links[d].up /\ info[d] \ current[d] \subseteq links[d].ips => x = links[d] BY <2>1
  <2> HIDE DEF x, m
  <2>6. DOMAIN m = DOMAIN links /\ m[d] = x /\ \A e \in DOMAIN links \ {d} : m[e] = links[e] BY <1>2, <2>3
  <2>7. x = links[d] => m = links BY <1>2, <2>3 DEF IsLinks
  <2> QED BY <2>4, <2>5, <2>6, <2>7 DEF m
<1> QED BY <1>1, <1>2

LEMMA FinalRestores ==
  ASSUME NetInv, Restoring, NEW d \in Dev, Final(d) PROVE Restoring' /\ Still
<1>1. /\ netPc = "final" /\ netPc' = "final" /\ d \in todo /\ todo' = todo \ {d}
      /\ UNCHANGED <<info, current, pings>> /\ quiet' = IF faults' # faults THEN 0 ELSE quiet
  BY DEF Final, Undisturbed
<1>2. d \in DOMAIN info /\ info[d] \subseteq Ip BY <1>1 DEF NetInv, Underway, NetTypeOK, IsInfo
<1>3. InSnapshot' BY <1>1 DEF InSnapshot
<1>4. CASE quiet' = 0 BY <1>3, <1>4, Unquiet DEF Restoring
<1>5. CASE quiet' # 0
  <2>1. quiet' = quiet /\ quiet \in 1 .. 3 /\ NetTypeOK /\ IsLinks(links) BY <1>1, <1>5 DEF NetInv, NetTypeOK
  <2>2. \/ d \notin DOMAIN current /\ (info[d] = {} => links' = links)
           /\ (info[d] # {} => \E ip \in info[d] : links' \in Created(links, d, ip))
        \/ d \in DOMAIN current /\ links' = Raised(links, d)
    <3>1. ~ Fault BY <1>1, <1>5, FaultCounts DEF NetInv
    <3> QED BY <3>1 DEF Final, Recreate, Create
  <2>3. /\ DOMAIN Raised(links, d) = DOMAIN links
        /\ \A e \in DOMAIN links \ {d} : Raised(links, d)[e] = links[e]
        /\ d \in DOMAIN links =>
             /\ Raised(links, d)[d].ips = links[d].ips \cup (info[d] \ current[d])
             /\ Raised(links, d)[d].net = links[d].net /\ Raised(links, d)[d].up
             /\ links[d].up /\ info[d] \ current[d] \subseteq links[d].ips => Raised(links, d) = links
    BY <1>2, <2>1, RaisedIs
  <2>4. Narrowing' /\ Narrowed'
    <3>1. Fills(d) BY <1>1, <1>2 DEF Fills, Pruned
    <3>2. \A e \in DOMAIN links' :
           \/ e \in DOMAIN links /\ links'[e].ips \subseteq links[e].ips
           \/ e = d /\ Fills(d) /\ links'[d].ips \subseteq (IF d \in DOMAIN links THEN links[d].ips ELSE {}) \cup info[d]
      <4>1. CASE links' = links BY <4>1
      <4>2. ASSUME NEW ip \in info[d], links' \in Created(links, d, ip)
            PROVE  /\ \A e \in DOMAIN links' \ {d} : e \in DOMAIN links /\ links'[e].ips \subseteq links[e].ips
                   /\ links' = links \/ links'[d].ips = {ip}
        BY <1>2, <2>1, <4>2, CreatedIs
      <4>3. CASE links' = Raised(links, d)
        <5>1. DOMAIN links' = DOMAIN links /\ \A e \in DOMAIN links \ {d} : links'[e] = links[e] BY <2>3, <4>3
        <5>2. d \in DOMAIN links => links'[d].ips \subseteq links[d].ips \cup info[d] BY <2>3, <4>3
        <5> QED BY <3>1, <5>1, <5>2
      <4> QED BY <2>2, <3>1, <4>1, <4>2, <4>3
    <3> QED BY <1>1, <2>1, <3>2, StepNarrows DEF Restoring
  <2>5. \A e : Serves(links, e)' <=> Serves(links', e) BY <1>1 DEF Serves
  <2>6. ASSUME quiet >= 2, Simple(info), d \notin DOMAIN current PROVE links' = links
    <3>1. CASE info[d] = {} BY <2>2, <2>6, <3>1
    <3>2. CASE info[d] # {}
      <4>1. Serves(links, d) BY <1>1, <1>2, <2>1, <2>6, <3>2 DEF Restoring, Repairing, Steady, Pending
      <4>2. \A ip \in info[d] : Created(links, d, ip) = {links} BY <4>1 DEF Serves, Created, AlreadyThere
      <4> QED BY <2>2, <2>6, <3>2, <4>2
    <3> QED BY <3>1, <3>2
  <2>7. Repairing'
    <3> SUFFICES ASSUME quiet = 2, Simple(info)
                 PROVE  /\ \A e \in DOMAIN info : info[e] # {} => Serves(links', e)
                        /\ \A e \in DOMAIN links' : e \in DOMAIN current \/ info[e] # {}
                        /\ \A e \in DOMAIN links' : links'[e].up \/ (e \in todo' /\ e \in DOMAIN current)
      BY <1>1, <2>1, <2>5 DEF Repairing, Simple
    <3>1. /\ \A e \in DOMAIN info : info[e] # {} => Serves(links, e)
          /\ \A e \in DOMAIN links : e \in DOMAIN current \/ info[e] # {}
          /\ \A e \in DOMAIN links : links[e].up \/ (e \in todo /\ e \in DOMAIN current)
      BY <1>1 DEF Restoring, Repairing, Pending
    <3>2. CASE d \notin DOMAIN current BY <1>1, <2>6, <3>1, <3>2
    <3>3. CASE d \in DOMAIN current
      <4>1. DOMAIN links' = DOMAIN links /\ \A e \in DOMAIN links \ {d} : links'[e] = links[e] BY <2>2, <2>3, <3>3
      <4>2. d \in DOMAIN links => /\ links'[d].ips = links[d].ips \cup (info[d] \ current[d])
                                 /\ links'[d].net = links[d].net /\ links'[d].up
        BY <2>2, <2>3, <3>3
      <4>3. ASSUME NEW e \in DOMAIN info, info[e] # {} PROVE Serves(links', e)
        <5>1. Serves(links, e) BY <3>1, <4>3
        <5>2. CASE e = d BY <4>1, <4>2, <5>1, <5>2 DEF Serves
        <5>3. CASE e # d BY <4>1, <5>1, <5>3 DEF Serves
        <5> QED BY <5>2, <5>3
      <4>4. \A e \in DOMAIN links' : links'[e].up \/ (e \in todo' /\ e \in DOMAIN current)
        <5> SUFFICES ASSUME NEW e \in DOMAIN links' PROVE links'[e].up \/ (e \in todo' /\ e \in DOMAIN current) OBVIOUS
        <5>1. CASE e = d BY <4>1, <4>2, <5>1
        <5>2. CASE e # d BY <1>1, <3>1, <4>1, <5>2
        <5> QED BY <5>1, <5>2
      <4> QED BY <3>1, <4>1, <4>3, <4>4
    <3> QED BY <3>2, <3>3
  <2>8. quiet = 3 /\ Simple(info) => links' = links
    <3> SUFFICES ASSUME quiet = 3, Simple(info), d \in DOMAIN current PROVE links' = links BY <2>6
    <3>1. /\ \A e \in DOMAIN links : links[e].up
          /\ DOMAIN current = DOMAIN links /\ current[d] = links[d].ips
          /\ info[d] # {} => links[d].ips = info[d]
      BY <1>1, <1>2 DEF Restoring, Steady, IpsOf, Serves
    <3> QED BY <2>2, <2>3, <3>1
  <2>9. Steady'
    <3> SUFFICES ASSUME quiet = 3, Simple(info)
                 PROVE  /\ \A e \in DOMAIN info : info[e] # {} => Serves(links', e)
                        /\ \A e \in DOMAIN links' : links'[e].up
                        /\ current = IpsOf(links')
      BY <1>1, <2>1, <2>5 DEF Steady, Simple, IpsOf
    <3> QED BY <1>1, <2>8 DEF Restoring, Steady
  <2> QED BY <1>3, <2>4, <2>7, <2>8, <2>9 DEF Restoring, Still
<1> QED BY <1>4, <1>5

(* Fixes, saving the network and the firmware begin the count anew.        *)
LEMMA OthersRestore ==
  ASSUME NetInv, Restoring, SaveNetwork \/ Meddle \/ \E d \in Dev, ip \in Ip : Fix(d, ip) PROVE Restoring' /\ Still
<1>1. quiet' = 0 BY DEF SaveNetwork, Meddle, Disturbed, Fix
<1>2. UNCHANGED <<netPc, todo, current>> BY DEF SaveNetwork, Meddle, Fix
<1>3. InSnapshot' BY <1>2 DEF Restoring, InSnapshot
<1> QED BY <1>1, <1>3, Unquiet DEF Restoring

LEMMA RestoringStep ==
  ASSUME NetInv, Restoring, [NetNext]_netVars PROVE Restoring' /\ Still
<1>1. CASE NetNext
  <2>1. CASE \E d \in Dev : FixNamed(d) BY <2>1, GeneratedIs, OthersRestore DEF FixNamed
  <2>2. CASE \E d \in Dev, ip \in Ip : FixAddressed(d, ip) BY <2>2, OthersRestore DEF FixAddressed
  <2> QED
    BY <1>1, <2>1, <2>2, ReconfigureRestores, EndMissingRestores, EndExcessRestores, ReconfiguredRestores, OthersRestore,
       MissingRestores, ExcessRestores, FinalRestores, PingRestores
    DEF NetNext
<1>2. CASE UNCHANGED netVars
  <2>1. UNCHANGED <<links, info, current, netPc, todo, pings, quiet>> BY <1>2 DEF netVars
  <2>2. (InSnapshot' <=> InSnapshot) /\ (Narrowed' <=> Narrowed)
    BY <2>1 DEF InSnapshot, Narrowed, Narrow, IpsOf
  <2>3. Narrowing' <=> Narrowing BY <2>1 DEF Narrowing, Pruned, Allowed, Wished
  <2>4. \A d : (Serves(links, d)' <=> Serves(links, d)) /\ (Pending(d)' <=> Pending(d)) BY <2>1 DEF Serves, Pending
  <2>5. Simple(info)' <=> Simple(info) BY <2>1 DEF Simple
  <2>6. Repairing' <=> Repairing BY <2>1, <2>4, <2>5 DEF Repairing
  <2>7. Steady' <=> Steady BY <2>1, <2>4, <2>5 DEF Steady, IpsOf
  <2> QED BY <2>1, <2>2, <2>3, <2>6, <2>7 DEF Restoring, Still
<1> QED BY <1>1, <1>2

LEMMA RestoringStarts ==
  ASSUME NetInit PROVE Restoring
BY DEF NetInit, Restoring, InSnapshot, Narrowing, Narrowed, Repairing, Steady

(* Restored: three calls of reconfig_network that nothing disturbs bring   *)
(* the container to network_info, whatever state they find.                *)
THEOREM ReconfiguredIsRestored == NetSpec => []Restored
<1>1. ASSUME NetInv, Restoring PROVE Restored
  <2> SUFFICES ASSUME netPc = "idle", quiet = 3, Simple(info) PROVE Match BY DEF Restored
  <2>1. \A d \in DOMAIN links : d \in DOMAIN info /\ links[d].ips \subseteq info[d]
    BY <1>1 DEF Restoring, Narrowed, Narrow, IpsOf
  <2>2. \A d \in DOMAIN info : info[d] # {} => Serves(links, d) BY <1>1 DEF Restoring, Steady
  <2>3. \A d \in DOMAIN links : links[d].ips = info[d] BY <2>1, <2>2 DEF Serves
  <2>4. \A d \in DOMAIN info : \A ip \in info[d] : Pings(links, ip) BY <2>2 DEF Serves, Pings
  <2> QED BY <2>1, <2>2, <2>3, <2>4 DEF Match, Serves
<1> QED BY <1>1, NetStarts, NetStep, RestoringStarts, RestoringStep, PTL DEF NetSpec

(* LeftAlone: from then on reconfig_network changes no device.             *)
THEOREM ReconfiguredIsLeftAlone == NetSpec => LeftAlone
<1>1. Still => (quiet = 3 /\ quiet' = 3 /\ Simple(info) => UNCHANGED links) BY DEF Still
<1> QED BY <1>1, NetStarts, NetStep, RestoringStarts, RestoringStep, PTL DEF NetSpec, LeftAlone
=============================================================================
