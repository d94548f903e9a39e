----------------------------- MODULE EntryPoint -----------------------------
(***************************************************************************)
(* What a firmware is started with: EntryPoint.identify looks for an init  *)
(* program and a start script by the links, the inittab and the places     *)
(* that firmwares use, and build_init_script makes the command of the      *)
(* container from the answer.  A file is its name, its directory and its   *)
(* kind; files are those that exist, so that the absolute links among them *)
(* lead to the host.  The exceptions for three brands are left out.        *)
(***************************************************************************)
EXTENDS Naturals, Sequences, FiniteSets

Program == {"elf", "pie", "bare", "wide", "odd"}
Executable == Program \ {"pie"}       \* what libmagic calls x-executable: none that is position-independent
Link == {"link", "tobusybox", "torc"} \* an absolute link; links to a busybox, to the rc beside it
\* an inittab that names /etc/init.d/rcS with arguments; one without sysinit; one that cannot be
\* read: a link that leads nowhere, or no text
Inittab == {"sysinit", "inittab", "torn"}
RootFolder == ""
Nothing == [name |-> "", dir |-> "", kind |-> "none"]

Named(files, names) == {f \in files : f.name \in names}
At(files, dirs, name) == {f \in files : f.dir \in dirs /\ f.name = name}
OrNothing(S) == IF S = {} THEN Nothing ELSE CHOOSE f \in S : TRUE
(* The one that is met first, if the places are tried in this order.       *)
FirstOf(S, place(_)) == IF S = {} THEN Nothing ELSE CHOOSE f \in S : \A o \in S : place(f) <= place(o)

(* analysis_sbin_init stops at the first place, analysis_sbin_rc goes on   *)
(* to the last.                                                            *)
SbinInit(files) ==
  LET place(f) == CASE f.dir = "sbin" -> 1 [] f.dir = "usr/sbin" -> 2 [] OTHER -> 3
  IN  FirstOf(At(files, {"sbin", "usr/sbin", RootFolder}, "init"), place)
SbinRc(files) ==
  LET place(f) == IF f.dir = "usr/sbin" THEN 1 ELSE 2 IN FirstOf(At(files, {"sbin", "usr/sbin"}, "rc"), place)

(* find_etc_dir: the first of the known places with a file that is usual   *)
(* there, or the first that there is if the root has an init.d or rc.d;    *)
(* get_only_one_rcS looks below it, everywhere if there is none.           *)
Below(etc) == IF etc = "etc" THEN {"etc", "etc/init.d", "etc/rc.d"} ELSE {etc}
EtcList == <<"etc", "usr/etc", "tmp/etc", "etc_ro">>
EtcDir(files) ==
  LET usual == Named(files, {"rcS", "inittab", "hosts", "passwd", "TZ", "lld2d.conf", "ld.so.conf"})
      anyFile == \E f \in files : f.dir \in {"init.d", "rc.d"}
      fit == {i \in DOMAIN EtcList : \E f \in IF anyFile THEN files ELSE usual : f.dir \in Below(EtcList[i])}
  IN  IF fit = {} THEN "" ELSE EtcList[CHOOSE i \in fit : \A o \in fit : i <= o]
RcS(files) ==
  LET etc == EtcDir(files)
      all == {f \in Named(files, {"rcS"}) : etc = "" \/ f.dir \in Below(etc)}
      place(f) == IF f.dir = "etc/init.d" THEN 1 ELSE 2
  IN  IF Cardinality(all) = 1 THEN OrNothing(all)
      ELSE FirstOf({f \in all : f.dir \in {"etc/init.d", "etc/rc.d"}}, place)
Profile(files) == OrNothing(At(files, {EtcDir(files)}, "profile"))

(* get_inittab: a single one is taken whatever is in it, without a look.   *)
Inittabs(files) ==
  LET all == Named(files, {"inittab"})
      fit == IF Cardinality(all) = 1 THEN all ELSE {f \in all : f.kind = "sysinit"}
  IN  IF fit = {} THEN {Nothing} ELSE fit
Sysinit(files, tab) == IF tab.kind = "sysinit" THEN OrNothing(At(files, {"etc/init.d"}, "rcS")) ELSE Nothing

Start(binary, bash, args, forRc) == [binary |-> binary, bash |-> bash, args |-> args, forRc |-> forRc]
NoStart == Start(Nothing, Nothing, FALSE, Nothing)

(* identify, with the inittab that was found; a link stands for what it    *)
(* leads to.  A busybox without a script is no answer yet.  An init that   *)
(* is not x-executable gives way to the profile, which gets the arguments  *)
(* of the inittab.                                                         *)
BusyboxBash(files, tab) ==
  IF Sysinit(files, tab) # Nothing THEN Sysinit(files, tab)
  ELSE IF tab # Nothing /\ Profile(files) # Nothing THEN Profile(files)
  ELSE IF RcS(files) # Nothing THEN RcS(files) ELSE Profile(files)
HasProcd(files) == At(files, {"sbin"}, "procd") # {}
PlainStart(files, tab) ==
  LET init == SbinInit(files)
      elf == init.kind \in Executable
      sysinit == Sysinit(files, tab)
  IN  Start(IF elf THEN init ELSE Nothing,
            IF ~ elf /\ Profile(files) # Nothing THEN Profile(files) ELSE sysinit, sysinit # Nothing, Nothing)
LinksToRc(files, dir) == {f \in Named(files, {"preinit", "rcd", "rcS", "init"}) : f.dir = dir /\ f.kind = "torc"}
RcStart(files) ==
  LET rc == SbinRc(files)
      place(f) == CASE f.name = "preinit" -> 1 [] f.name = "rcd" -> 2 [] f.name = "rcS" -> 3 [] OTHER -> 4
  IN  Start(rc, Nothing, FALSE, FirstOf(LinksToRc(files, rc.dir), place))
LastResort(init) == NoStart
Linked(init) == IF init.kind \in Link THEN Start(init, Nothing, FALSE, Nothing) ELSE NoStart
Identified(files, tab) ==
  LET init == SbinInit(files)
      rc == SbinRc(files)
      plain == PlainStart(files, tab)
  IN  IF init.kind = "tobusybox" /\ BusyboxBash(files, tab) # Nothing
      THEN Start(init, BusyboxBash(files, tab), Sysinit(files, tab) # Nothing, Nothing)
      ELSE IF init # Nothing /\ HasProcd(files)
      THEN Start(init, OrNothing(At(files, {"etc/init.d"}, "rcS")), FALSE, Nothing)
      ELSE IF init # Nothing /\ init.kind \notin Link /\ plain # NoStart THEN plain
      ELSE IF rc # Nothing /\ rc.kind \notin Link THEN RcStart(files)
      ELSE Linked(init)

(* parse_inittab comments out what would be started again and again.  It   *)
(* opens the inittab, and nothing catches what that raises.                *)
ParsesInittab(files) ==
  LET init == SbinInit(files)
  IN  init.kind = "tobusybox" \/ (init # Nothing /\ init.kind \notin Link /\ ~ HasProcd(files))

Illegible(files) == ParsesInittab(files) /\ \E tab \in Inittabs(files) : tab.kind = "torn"

(* build_init_script: without a command the container only sleeps.         *)
InitCommand(start) == IF start.forRc # Nothing THEN start.forRc ELSE start.binary
=============================================================================
