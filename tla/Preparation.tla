---------------------------- MODULE Preparation ----------------------------
(***************************************************************************)
(* From the image of a firmware to the file system that is rehosted:       *)
(* setup_target and the first half of FIRMWELL.run.  The image is unpacked *)
(* by the first tool that can, a root and in it a target are chosen, and a *)
(* fixed order of passes over the copy in tmp_fs_path removes, replaces,   *)
(* renames and edits files.  What a pass does depends on what the passes   *)
(* before it left, on the untouched copy in ori_fs_path, and on the host,  *)
(* to which the absolute symbolic links of a firmware lead.                *)
(*                                                                         *)
(* A file is its name, its directory and its kind; a root is a set of      *)
(* files, an image the sequence of roots that a walk meets.  Left out are  *)
(* --target_bin, --blank_state, --system and the switches that leave a     *)
(* pass out, and the programs of one brand.                                *)
(***************************************************************************)
EXTENDS EntryPoint

CONSTANTS Cases,  \* records [image, service, enhanced, known, only]: the image with its roots as records
                  \* [top, hunt, files, empty] (top, if it is the unpacked folder itself; hunt, if a
                  \* folder of that name lies beside it; empty, its empty folders that others of that
                  \* name or images may fill), --rehost_type, no --nounpack_enhance, --fs_path and
                  \* --unpack2zip
          Listed, \* the names of the servers of each service, in the order of the lists
          Size,   \* the length of a name
          Rebooting, ShuttingDown \* the names with reboot and with shutdown somewhere in them

Service == {"HTTP", "UPNP", "DNS", "DHCP"}
\* "elf" and "pie" are for a machine with a busybox among the templates, "bare" for one without,
\* "wide" for one without an emulator (mips64, arm64), "odd" for one that is not
\* recognised; a path with htm in it leads to a "page"
Kind == Program \cup Link \cup Inittab \cup {"script", "page", "special"}

ASSUME ListedAssumption == \A s \in Service : Listed[s] \in Seq(STRING)
ASSUME CasesAssumption ==
  \A c \in Cases :
    /\ c.service \in Service /\ {c.enhanced, c.known, c.only} \subseteq BOOLEAN
    /\ Len(c.image) \in Nat /\ DOMAIN c.image = 1 .. Len(c.image)
    /\ \A r \in DOMAIN c.image : IsFiniteSet(c.image[r].files) /\ \A f \in c.image[r].files : f.kind \in Kind

VARIABLES pc,
          given,   \* the case at hand
          outside, \* the host has a program where the absolute links lead
          fs,      \* what has become of each file in tmp_fs_path
          target,  \* bin_path
          start,   \* the answer of EntryPoint
          machine, \* the kind that Fixer.arch stands for
          broken   \* a tool or an analysis failed

vars == <<pc, given, outside, fs, target, start, machine, broken>>

service == given.service
image == given.image
Files == DOMAIN fs   \* those of ori_fs_path
Init ==
  /\ pc = "unpack" /\ given \in Cases /\ outside \in BOOLEAN
  /\ fs = << >> /\ target = Nothing /\ start = NoStart /\ machine = "none" /\ broken = FALSE
-----------------------------------------------------------------------------
InBin(name) == At(Files, {"bin"}, name) # {}
Names(s) == {Listed[s][i] : i \in DOMAIN Listed[s]}
(* What the host sees behind a path: a link leads out of the firmware.     *)
Exists(f) == f.kind # "link" \/ outside
Present(name) == \E f \in Named(Files, {name}) : f.kind # "special" /\ Exists(f)
IsElf(f) == f.kind \in Program \/ (f.kind = "link" /\ outside)
Arch(f) == CASE f.kind = "link" /\ outside -> "bare" [] f.kind = "pie" -> "elf" [] OTHER -> f.kind
Standing(f) == fs[f] \in {"original", "edited"}

(* identify_target_folder_enhance: of the folders that hold a server, or   *)
(* lie beside a hunt, the first with a known program under one of the      *)
(* names of the list.                                                      *)
Indicator(root) ==
  \E f \in root.files : /\ \/ <<f.dir, f.name>> \in {<<"bin", "sh">>, <<"bin", "busybox">>, <<"sbin", "lighttpd">>,
                                                    <<"sbin", "xmldb">>, <<"sbin", "httpd">>}
                           \/ f.dir \in {"bin", "sbin", "usr/bin", "usr/sbin"} /\ f.name = "shttpd"
                        /\ Arch(f) \in {"elf", "bare"}
Serving(root) == Named(root.files, Names("HTTP")) # {}
MayServe(root) == root.hunt \/ Serving(root) \/ Named(root.files, {"main", "webs", "cfm"}) # {}
First(S) == CHOOSE r \in S : \A o \in S : r <= o
Plain == {r \in DOMAIN image : ~ image[r].top /\ Indicator(image[r])}
Servers == {r \in Plain : MayServe(image[r])}
Anywhere == {r \in DOMAIN image : Indicator(image[r]) /\ Serving(image[r])}
(* fix_img_unpack                                                          *)
Filled(r) == image[r].files \cup {f \in UNION {image[o].files : o \in DOMAIN image} : f.dir \in image[r].empty}
RootFound == IF ~ given.enhanced THEN Plain ELSE IF Servers # {} THEN Servers ELSE Anywhere

Rest == UNCHANGED <<given, outside, target, start, machine>>
Take(files) == fs' = [f \in files |-> "original"] /\ pc' = "choose" /\ Rest /\ UNCHANGED broken
Leave(how) == pc' = how /\ Rest /\ UNCHANGED <<fs, broken>>
(* An exception reaches run, which exits with 1; a step that says False    *)
(* ends the run with 0.                                                    *)
Raise == Leave("exit1")
GiveUp == Leave("exit0")

KnownRoot == pc = "unpack" /\ given.known /\ \E r \in DOMAIN image : Take(image[r].files)
(* The archive of an extractor is the root, unseen; a broken one raises.   *)
(* --unpack2zip only reports the servers that are in it.                   *)
Extractor(next) ==
  \/ \E r \in DOMAIN image :
       IF ~ given.only THEN Take(image[r].files) ELSE GiveUp \/ ((\E f \in image[r].files : f.dir = "rc_app") /\ Raise)
  \/ pc' = next /\ broken' = TRUE /\ Rest /\ UNCHANGED fs
  \/ pc' = "exit1" /\ broken' = TRUE /\ Rest /\ UNCHANGED fs
FirmaeExtractor == pc = "unpack" /\ ~ given.known /\ Extractor("fact")
FactExtractor == pc = "fact" /\ Extractor(IF given.only THEN "exit0" ELSE "binwalk")
Binwalk ==
  /\ pc = "binwalk"
  /\ \/ /\ RootFound # {}
        /\ LET r == First(RootFound) IN Take(IF given.enhanced THEN Filled(r) ELSE image[r].files)
     \/ GiveUp
-----------------------------------------------------------------------------
(* get_target_binary: of all candidates that file calls ELF the one with   *)
(* the shortest name.  Under rc_app the path of the candidate before it is *)
(* looked at; there is none for the first.                                 *)
DroppedAnyway == CASE service = "DNS" -> {"ddnsd"} [] service = "UPNP" -> {"miniupnpc"} [] OTHER -> {}
Dropped ==
  CASE service = "DNS" /\ Named(Files, {"dnsmasq"}) # {} -> {"ddnsd"}
    [] service = "UPNP" /\ Named(Files, {"miniupnpd"}) # {} -> {"miniupnpc"}
    [] OTHER -> {}
Candidates == Named(Files, Names(service) \ Dropped)
Rank(f) == CHOOSE i \in DOMAIN Listed[service] : Listed[service][i] = f.name
Walks == {w \in [1 .. Cardinality(Candidates) -> Candidates] :
            \A i, j \in DOMAIN w : i < j => w[i] # w[j] /\ Rank(w[i]) <= Rank(w[j])}
Looked(w, i) == {j \in 1 .. i : w[j].dir # "rc_app"}
Latest(S) == CHOOSE j \in S : \A o \in S : o <= j
Accepted(w) == {w[i] : i \in {k \in DOMAIN w : IsElf(w[Latest(Looked(w, k))])}}
Shortest(S) == {f \in S : \A o \in S : Size[f.name] <= Size[o.name]}
Choose ==
  /\ pc = "choose"
  /\ \E w \in Walks :
       IF w # << >> /\ w[1].dir = "rc_app" THEN Raise
       ELSE IF Accepted(w) = {} THEN GiveUp
       ELSE /\ target' \in Shortest(Accepted(w)) /\ pc' = "clean"
            /\ UNCHANGED <<given, outside, fs, start, machine, broken>>

(* A pass over the files: what has become of those that it touches.        *)
Becomes(touched, next) ==
  /\ fs' = [f \in Files |-> IF f \in DOMAIN touched THEN touched[f] ELSE fs[f]] /\ pc' = next
  /\ UNCHANGED <<given, outside, target, start, machine, broken>>

(* clean_fs, whose exception is swallowed: a file named netconf takes over *)
(* the variable that holds the name, the next test of which raises.        *)
ToClean == {f \in Files : f.kind = "special" \/ f.name = "boa-dog.sh"}
Cleaned(f) == IF f.kind = "special" THEN "gone" ELSE "renamed"
Clean ==
  /\ pc = "clean"
  /\ \E met \in SUBSET ToClean :
       /\ Named(Files, {"netconf"}) = {} => met = ToClean
       /\ Becomes([f \in met |-> Cleaned(f)], "setup")

(* initial_setup, which makes four folders anew, with nothing in them.     *)
Anew == {"var/tmp", "var/run", "tmp/run", "tmp/var"}
Recognise ==
  /\ pc = "setup"
  /\ \/ Arch(target) = "wide" /\ Raise
     \/ Arch(target) \notin Program \ {"odd"} /\ GiveUp
     \/ /\ Arch(target) \in {"elf", "bare"} /\ machine' = Arch(target) /\ pc' = "reboots"
        /\ fs' = [f \in Files |-> IF f.dir \in Anew THEN "gone" ELSE fs[f]]
        /\ UNCHANGED <<given, outside, target, start, broken>>

(* remove_reboots, with what find_files finds below the folders of the     *)
(* root: the reboot files that are no pages become dummies.  Whether the   *)
(* shutdown files do depends on the reboot file that was met last, and     *)
(* without one the test of it raises.                                      *)
Reached(names) == {f \in Named(Files, names) : f.dir # RootFolder /\ Exists(f) /\ Standing(f)}
Reboots == Reached(Rebooting)
Shutdowns == Reached(ShuttingDown)
Pages(files) == {f \in files : f.kind = "page"}
RebootsOnly(last) == Reboots \ Pages(Reboots)
Stubs(last) == (Reboots \ Pages(Reboots)) \cup (IF last.kind = "page" THEN {} ELSE Shutdowns)
RemoveReboots ==
  /\ pc = "reboots"
  /\ \/ Reboots = {} /\ Shutdowns # {} /\ Raise
     \/ Reboots \cup Shutdowns = {} /\ Leave("libraries")
     \/ \E last \in Reboots : Becomes([f \in Stubs(last) |-> "dummy"], "libraries")

(* setup_custom_libraries puts the library aside for its own; how far it   *)
(* comes before an exception, which is swallowed, is left open.            *)
Nvram == {f \in Named(Files, {"libnvram.so"}) : f.dir \in {"lib", "usr/lib"}}
FakeLibraries ==
  /\ pc = "libraries"
  /\ \E done \in SUBSET Nvram : Becomes([f \in done |-> "dummy"], "defaults")

(* load_factory_default: nothing swallows an exception of the analysis.    *)
PutAside == {f \in Nvram : fs[f] = "dummy"}
LoadFactoryDefault ==
  /\ pc = "defaults"
  /\ \/ Leave("identify")
     \/ PutAside # {} /\ pc' = "exit1" /\ broken' = TRUE /\ Rest /\ UNCHANGED fs

(* EntryPoint.identify looks at what exists now; an inittab that is no     *)
(* text raises.                                                            *)
Here == {f \in Files : Standing(f) /\ Exists(f)} \cup {f \in Files : fs[f] = "dummy"}
Identify ==
  /\ pc = "identify"
  /\ \/ Illegible(Here) /\ Raise
     \/ /\ ~ Illegible(Here)
        /\ \E tab \in Inittabs(Here) :
             /\ start' = Identified(Here, tab)
             /\ fs' = [f \in Files |-> IF f = tab /\ ParsesInittab(Here) THEN "edited" ELSE fs[f]]
        /\ pc' = "entry" /\ UNCHANGED <<given, outside, target, machine, broken>>

(* fix_filesystem: the busybox that becomes /bin/sh follows a link to the  *)
(* host.                                                                   *)
Shell == [name |-> "sh", dir |-> "bin", kind |-> "elf"]
HasShell == \E f \in Files : f.name = "sh" /\ f.dir = "bin" /\ Exists(f)
FixFilesystem ==
  /\ pc = "entry"
  /\ \/ HasShell /\ Leave("preprocess")
     \/ ~ HasShell /\ machine = "bare" /\ Raise
     \/ /\ ~ HasShell /\ machine = "elf" /\ pc' = "preprocess"
        /\ IF InBin("sh") THEN outside' = TRUE /\ UNCHANGED fs
           ELSE fs' = [f \in Files \cup {Shell} |-> IF f \in Files THEN fs[f] ELSE "original"] /\ UNCHANGED outside
        /\ UNCHANGED <<given, target, start, machine, broken>>

(* preprocess_filesystem: htmlunpack is wanted in /bin wherever it is, and *)
(* usr/etc wherever there is a program named rc_apps.                      *)
Unpacker == Named(Files, {"htmlunpack"})
Preprocess ==
  /\ pc = "preprocess"
  /\ IF \/ Unpacker # {} /\ ~ InBin("htmlunpack")
        \/ Present("rc_apps") /\ ~ \E f \in Files : f.dir = "usr/etc"
     THEN Raise
     ELSE Becomes([f \in {u \in Unpacker : u.dir = "bin"} |-> "renamed"], "busy")

(* remove_high_cpu_usage_process                                           *)
Always == {"hotplug", "hotplug2", "hd-idle", "afpd", "minissdpd", "arpmonitor", "udhcpd", "monitor_http.sh",
           "monitor_web.sh", "monitor_upnpd.sh", "crond", "networkmap", "asd"}
IfThere == {"avahi-daemon", "acfg_tool", "ebtables", "portt", "consoled", "getty", "ledSer", "timer", "wlxmlpatch"}
BusyAnyway(s) == Always \cup IfThere \cup {"dnsmasq", "obd"}
Busy(s) == BusyAnyway(s) \ CASE s = "DNS" -> {"dnsmasq"} [] s = "UPNP" -> {"obd"} [] OTHER -> {}
RenameBusy(names) ==
  /\ pc = "busy"
  /\ LET removed == Named(Files, {n \in names : n \in Always \/ Present(n)})
     IN  Becomes([f \in {r \in removed : fs[r] # "gone"} |-> "renamed"], "scripts")
RemoveBusyAnyway == RenameBusy(BusyAnyway(service))
RemoveBusy == RenameBusy(Busy(service))

(* No pass is after a server of the lists, but for those of DHCP.          *)
Aims == {"boa-dog.sh", "libnvram.so", "inittab", "htmlunpack"} \cup Rebooting \cup ShuttingDown
ASSUME NamesAssumption == ({"sh", "inittab"} \cup Always) \cap (Rebooting \cup ShuttingDown) = {}
ASSUME ServersAssumption ==
  /\ \A s \in Service \ {"DHCP"} : Names(s) \cap (Aims \cup Busy(s)) = {}
  /\ Names("DNS") = {"ddnsd", "dnsmasq"} /\ "miniupnpd" \in Names("UPNP")
  /\ Size["miniupnpc"] = Size["miniupnpd"]

(* preprocess_bash2 takes the scripts of ori_fs_path that have no          *)
(* protected name and edits what is under their names now; what is no      *)
(* longer there raises, which is swallowed.                                *)
BashFiles == {f \in Files : f.kind = "script" /\ f.dir # "lib"}
Edited == [f \in {b \in BashFiles : fs[b] = "original"} |-> "edited"]
EditScripts ==
  /\ pc = "scripts"
  /\ IF Present("xmldb") THEN Leave("ready") ELSE Becomes(Edited, "ready")

Next ==
  \/ KnownRoot \/ FirmaeExtractor \/ FactExtractor \/ Binwalk \/ Choose \/ Clean \/ Recognise \/ RemoveReboots
  \/ FakeLibraries \/ LoadFactoryDefault \/ Identify \/ FixFilesystem \/ Preprocess \/ RemoveBusy \/ EditScripts
Terminated == pc \in {"ready", "exit0", "exit1"} /\ UNCHANGED vars
Spec == Init /\ [][Next \/ Terminated]_vars
-----------------------------------------------------------------------------
TypeOK ==
  /\ pc \in {"unpack", "fact", "binwalk", "choose", "clean", "setup", "reboots", "libraries", "defaults", "identify",
             "entry", "preprocess", "busy", "scripts", "ready", "exit0", "exit1"}
  /\ given \in Cases /\ {outside, broken} \subseteq BOOLEAN
  /\ fs \in [Files -> {"original", "edited", "dummy", "renamed", "gone"}]
  /\ target \in Files \cup {Nothing} /\ machine \in {"none", "elf", "bare"}

(* The target that was chosen at the beginning is still in its place and   *)
(* as it was when the file system is handed over, and the machine is its   *)
(* own.  It fails for DHCP, all of whose servers are renamed, and for one  *)
(* in a folder that is made anew, and a target behind an absolute link has *)
(* the machine of the host.                                                *)
TargetIntact ==
  pc = "ready" /\ service # "DHCP" /\ target.dir \notin Anew =>
    fs[target] = "original" /\ (target.kind = "link" \/ Arch(target) = machine)

(* Nothing that restarts the machine, keeps it busy or is not a plain file *)
(* is left, but for what the walks do not reach: whatever comes after a    *)
(* netconf, links that lead nowhere, a file in the root folder itself      *)
(* whose name says reboot or shutdown, one that says reboot in a path that *)
(* reads like that of a page, and those that say shutdown when the last    *)
(* reboot file did.                                                        *)
OutOfReach(f) ==
  \/ f.kind = "special" /\ Named(Files, {"netconf"}) # {}
  \/ f.kind = "link" /\ f.name \notin Always
  \/ f.dir = RootFolder /\ f.name \in Rebooting \cup ShuttingDown
  \/ f.kind = "page" /\ f.name \in Rebooting
  \/ f.name \in ShuttingDown /\ \E o \in Pages(Named(Files, Rebooting)) : o.dir # RootFolder
Unwanted(f) == f.kind = "special" \/ f.name \in Busy(service) \cup Rebooting \cup ShuttingDown
Quiet == pc = "ready" => \A f \in Files : Unwanted(f) /\ Standing(f) => OutOfReach(f)

(* A firmware with a program under one of the names of the service, for a  *)
(* machine that is emulated, is given up only if a tool failed, another    *)
(* candidate came in its way (one under rc_app, one with a name that is no *)
(* longer, one that displaces it and is no program) or a pass met what it  *)
(* does not expect: a shutdown file without a reboot file below a folder   *)
(* of the root, an inittab that it cannot read, an unpacker that is not in *)
(* /bin, rc_apps without usr/etc.                                          *)
Native == {"elf", "pie"}
Runnable == {f \in Named(Files, Names(service)) : f.kind \in Native /\ f.dir # "rc_app"}
InTheWay(f) ==
  \/ \E o \in Candidates : o.dir = "rc_app" \/ (o.kind \notin Native /\ Size[o.name] <= Size[f.name])
  \/ \E o \in Files : /\ o.kind \notin Native
                     /\ <<f.name, o.name>> \in {<<"ddnsd", "dnsmasq">>, <<"miniupnpc", "miniupnpd">>}
Unexpected ==
  \/ Shutdowns # {} /\ Reboots = {}
  \/ Illegible(Here)
  \/ Unpacker # {} /\ ~ InBin("htmlunpack")
  \/ Named(Files, {"rc_apps"}) # {} /\ ~ \E f \in Files : f.dir = "usr/etc"
GivenUpForCause ==
  pc \in {"exit0", "exit1"} /\ ~ given.only /\ ~ broken => \A f \in Runnable : InTheWay(f) \/ Unexpected

(* A firmware whose init is a link or x-executable is started with a       *)
(* program; one whose init is a script or position-independent, or that    *)
(* has none, is started at least if it has an rc of its own.  Whenever the *)
(* inittab was taken and edited and names a script that is there, a        *)
(* busybox or an init that runs gets that script with its arguments.       *)
(* (An init that is no program lets the profile have them.)                *)
StartFound ==
  pc = "entry" =>
    LET init == SbinInit(Here)
        runs == init.kind \in Executable \cup Link
        named == \E f \in Files : f.kind = "sysinit" /\ fs[f] = "edited"
        rcS == At(Here, {"etc/init.d"}, "rcS")
    IN  /\ runs => InitCommand(start) # Nothing
        /\ At(Here, {"sbin"}, "rc") # {} /\ SbinRc(Here).kind \notin Link => start # NoStart
        /\ runs /\ named /\ rcS # {} => start.args /\ start.bash \in rcS
=============================================================================
