----------------------------- MODULE CallChain -----------------------------
(***************************************************************************)
(* CallChainConstructor: which executables of the firmware start which,    *)
(* from its init down to the target.                                       *)
(*                                                                         *)
(* The search goes backwards: the files whose strings name the file in     *)
(* hand may be its callers, and the callees of each are asked from Ghidra  *)
(* or the shell parser.  What Ghidra answers depends on the name it is     *)
(* asked about, and is kept for every later question about the same file.  *)
(***************************************************************************)
EXTENDS Integers, Sequences, FiniteSets, SequencesExt

CONSTANTS Files,          \* the executables of the firmware, by full path; their names differ
          Init_, Target,  \* init_binary and the target
          Place,          \* the place of a file when sorted() lists them all
          NoFile,         \* stands for an absent init_bash or init_binary_procd
          Worlds,         \* the firmwares: how files name each other, what Ghidra sees, the entry
          Count           \* 20: the search ends the program when it takes up so many files

Uses == {"absent", "named", "called", "built", "linkNamed", "linkCalled"}
Sights == {"script", "whole", "parts", "nothing"}

(* A firmware: use[c][f] is how c uses the name of f: it only has it among *)
(* its strings, also calls it, calls it by a name it builds, or has or     *)
(* calls a symbolic link to f.  sight[c] is what the analysis sees of c:   *)
(* all of a script, an ELF file as a whole (all names are in one function) *)
(* or in parts (each name in a function of its own), or nothing: Ghidra    *)
(* fails.  rc: the files called sbin/rc; initd: those in etc/init.d and    *)
(* its like; php: the firmware has HTTP.php.                               *)
Firmware ==
  [use : [Files -> [Files -> Uses]], sight : [Files -> Sights], rc : SUBSET Files, initd : SUBSET Files,
   php : BOOLEAN, busybox : BOOLEAN, procd : Files \cup {NoFile}, bash : Files \cup {NoFile}]

ASSUME EntryAssumption == Init_ # Target /\ {Init_, Target} \subseteq Files /\ NoFile \notin Files /\ IsFiniteSet(Files)
ASSUME PlaceAssumption == Place \in [Files -> Nat] /\ IsInjective(Place)
ASSUME CountAssumption == Count \in Nat \ {0}
ASSUME WorldAssumption == Worlds \subseteq Firmware

VARIABLES fw, worklist, analyzed, taken, \* taken: the files popped so far, in that order
          graph, execve_map, current, callers, phase, call_chain

vars == <<fw, worklist, analyzed, taken, graph, execve_map, current, callers, phase, call_chain>>

NotAsked == {NoFile}

Init ==
  /\ fw \in Worlds
  /\ worklist = << >> /\ analyzed = {} /\ taken = << >> /\ graph = {} /\ execve_map = [f \in Files |-> NotAsked]
  /\ current = NoFile /\ callers = {} /\ phase = "entry" /\ call_chain = << >>
-----------------------------------------------------------------------------
(* The graph, a set of pairs of caller and callee.                         *)
HasNode(g, f) == f = Target \/ \E e \in g : f \in {e[1], e[2]}

(* Every set of files that contains a, but not b, has a link leading out.  *)
HasPath(g, a, b) == \A S \in SUBSET (Files \ {b}) : a \in S => \E e \in g : e[1] \in S /\ e[2] \notin S

Routes == {p \in SetToAllKPermutations(Files) : Len(p) > 1 /\ p[1] = Init_ /\ Last(p) = Target}

SimplePaths(g) == {p \in Routes : \A i \in 1 .. Len(p) - 1 : <<p[i], p[i + 1]>> \in g}

Shortest(ps) == {p \in ps : \A q \in ps : Len(p) <= Len(q)}

Succeeded(g) == HasNode(g, Init_) /\ HasPath(g, Init_, Target)

(* get_call_chain, and the end of run.                                     *)
Found(g) == phase' = "found" /\ call_chain' \in Shortest(SimplePaths(g))

(* Links that are assumed and not looked for: busybox or procd to the      *)
(* script, the script or else procd to the files of etc/init.d, and the    *)
(* script to a target that runs HTTP.php.                                  *)
Links(a, b) == IF NoFile \in {a, b} THEN {} ELSE {<<a, b>>}

EntryLinks ==
  UNION {IF fw.busybox THEN Links(Init_, fw.bash) ELSE {},
         Links(Init_, fw.procd), Links(fw.procd, fw.bash),
         IF fw.php THEN Links(fw.bash, Target) ELSE {}}

InitdLinks(f) == IF f \notin fw.initd THEN {} ELSE IF fw.bash # NoFile THEN Links(fw.bash, f) ELSE Links(fw.procd, f)

(* add_edge refuses None: busybox and HTTP.php take a script for granted.  *)
Raises == fw.bash = NoFile /\ (fw.busybox \/ fw.php)

StartSearch ==
  /\ phase = "entry"
  /\ IF Raises
     THEN phase' = "raised" /\ UNCHANGED <<worklist, graph>>
     ELSE phase' = "search" /\ worklist' = <<Target>> /\ graph' = EntryLinks
  /\ UNCHANGED <<fw, analyzed, taken, execve_map, current, callers, call_chain>>
-----------------------------------------------------------------------------
(* The callers that the strings of the firmware suggest for a file.        *)
ByName(f) == {c \in Files \ {f, Target} : c \in fw.rc \/ fw.use[c][f] \in {"named", "called"}}

ByLink(f) == {c \in Files \ {f} : fw.use[c][f] \in {"linkNamed", "linkCalled"}}

Potential(f) == IF ByName(f) # {} THEN ByName(f) ELSE ByLink(f)

(* The init is asked first, the others as sorted.                          *)
Sooner(c, d) == c = Init_ \/ (d # Init_ /\ Place[c] < Place[d])

TakesUp(f) ==
  /\ worklist' = Front(worklist) /\ current' = f /\ taken' = Append(taken, f)
  /\ analyzed' = analyzed \cup {f} /\ graph' = graph \cup InitdLinks(f)

Pop ==
  /\ phase = "search" /\ callers = {} /\ worklist # << >>
  /\ IF Len(taken) + 1 = Count
     THEN phase' = "exit" /\ UNCHANGED <<worklist, analyzed, taken, graph, current, callers, call_chain>>
     ELSE LET f == Last(worklist) IN
          /\ TakesUp(f)
          /\ IF Succeeded(graph')
             THEN Found(graph') /\ UNCHANGED callers
             ELSE callers' = Potential(f) /\ UNCHANGED <<phase, call_chain>>
  /\ UNCHANGED <<fw, execve_map>>

GiveUp ==
  /\ phase = "search" /\ callers = {} /\ worklist = << >> /\ phase' = "none"
  /\ UNCHANGED <<fw, worklist, analyzed, taken, graph, execve_map, current, callers, call_chain>>
-----------------------------------------------------------------------------
(* The callees of a file.  Ghidra leaves out the functions that do not     *)
(* have the name it is asked about, unless no string has it.               *)
Calls(c, f) == fw.use[c][f] \in {"called", "built", "linkCalled"}

Callees(c) == {f \in Files : Calls(c, f)}

Seen(c, f) ==
  CASE fw.sight[c] = "nothing" -> {}
    [] fw.sight[c] = "parts" /\ fw.use[c][f] \in {"named", "called"} -> Callees(c) \cap {f}
    [] OTHER -> Callees(c)

Answer(c, f) == IF execve_map[c] = NotAsked THEN Seen(c, f) ELSE execve_map[c]

(* A caller that already depends on the file in hand is not linked again.  *)
LinkableIfNew(c) == ~HasNode(graph, c)

Linkable(c) == ~HasNode(graph, c) \/ ~HasPath(graph, current, c)

CallingAny(c) == Linkable(c)

Calling(c) == current \in Answer(c, current) /\ Linkable(c)

Push(c) ==
  IF c \in analyzed THEN UNCHANGED <<worklist, analyzed>>
  ELSE worklist' = Append(worklist, c) /\ analyzed' = analyzed \cup {c}

Look ==
  /\ phase = "search"
  /\ \E c \in callers :
     /\ \A d \in callers \ {c} : Sooner(c, d)
     /\ execve_map' = [execve_map EXCEPT ![c] = Answer(c, current)]
     /\ callers' = callers \ {c}
     /\ IF Calling(c)
        THEN graph' = graph \cup {<<c, current>>} /\ Push(c)
        ELSE UNCHANGED <<graph, worklist, analyzed>>
     /\ IF Succeeded(graph') THEN Found(graph') ELSE UNCHANGED <<phase, call_chain>>
  /\ UNCHANGED <<fw, taken, current>>

Next == StartSearch \/ Pop \/ GiveUp \/ Look

Spec == Init /\ [][Next]_vars
-----------------------------------------------------------------------------
TypeOK ==
  /\ fw \in Worlds /\ analyzed \subseteq Files /\ graph \subseteq Files \X Files
  /\ worklist \in Seq(Files) /\ taken \in Seq(Files) /\ callers \subseteq Files
  /\ execve_map \in [Files -> (SUBSET Files) \cup {NotAsked}] /\ current \in Files \cup {NoFile}
  /\ phase \in {"entry", "search", "found", "none", "exit", "raised"} /\ call_chain \in Routes \cup {<< >>}

(* The links that are taken for granted.  Their callers are not taken up,  *)
(* so they are of use only when busybox or procd links the init to them.   *)
Assumed == EntryLinks \cup UNION {InitdLinks(f) : f \in Files}
Intended == IF fw.busybox \/ fw.procd # NoFile THEN Assumed ELSE {}

(* A chain that run returns leads from the init to the target without a    *)
(* detour, and each of its files does start the next one or is one of the  *)
(* assumed links: no file is in the chain only because it has the name of  *)
(* the next among its strings, and none because of what it calls in an     *)
(* answer about another file.                                              *)
ChainIsReal ==
  phase = "found" => call_chain # << >> /\ \A i \in 1 .. Len(call_chain) - 1 :
    <<call_chain[i], call_chain[i + 1]>> \in Assumed \/ Calls(call_chain[i], call_chain[i + 1])

(* What keeps a call from being found: no string has the name; only a link *)
(* is named, and other files have the name itself; or the answer that is   *)
(* kept for the caller lacks it, because it was asked about another file   *)
(* before or because Ghidra failed.                                        *)
Hidden(c, f) ==
  \/ c \notin Potential(f)
  \/ execve_map[c] # NotAsked /\ f \notin execve_map[c]

(* The search comes back with nothing only if every route from the init to *)
(* the target has a link that is none or that is hidden from it.           *)
FoundUnlessHidden ==
  phase = "none" => \A p \in Routes : \E i \in 1 .. Len(p) - 1 :
    <<p[i], p[i + 1]>> \notin Intended /\ (~Calls(p[i], p[i + 1]) \/ Hidden(p[i], p[i + 1]))

(* No file is taken up twice, so that a search which its counter ends has  *)
(* looked at Count - 1 different files.                                    *)
NoneTakenTwice ==
  /\ IsInjective(taken) /\ IsInjective(worklist) /\ Range(taken) \cap Range(worklist) = {}
  /\ phase = "exit" => Cardinality(Range(taken)) = Count - 1
=============================================================================
