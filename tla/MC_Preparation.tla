--------------------------- MODULE MC_Preparation ---------------------------
EXTENDS Preparation

MC_Listed == [s \in Service |->
  CASE s = "HTTP" -> <<"httpd", "boa">>
    [] s = "UPNP" -> <<"miniupnpd", "miniupnpc", "upnpd">>
    [] s = "DNS" -> <<"ddnsd", "dnsmasq">>
    [] s = "DHCP" -> <<"udhcpd", "dnsmasq">>]
AllNames == UNION {Names(s) : s \in Service}
MC_Size == [n \in AllNames |->
  CASE n = "boa" -> 3 [] n \in {"httpd", "upnpd", "ddnsd"} -> 5
    [] n = "udhcpd" -> 6 [] n = "dnsmasq" -> 7 [] OTHER -> 9]

MC_Rebooting == {"reboot", "doreboot.sh", "reboot.htm"}
MC_ShuttingDown == {"shutdown", "shutdown.cgi", "shutdown.htm"}

File(dir, kind, names) == {[name |-> n, dir |-> dir, kind |-> kind] : n \in names}
(* What the passes treat differently, and what the start depends on.       *)
Passed ==
  File("sbin", "elf", {"httpd", "boa", "miniupnpd", "miniupnpc", "upnpd", "ddnsd", "dnsmasq", "udhcpd"})
    \cup File("sbin", "elf", {"reboot", "crond"}) \cup File("", "elf", {"reboot"})
    \cup File("var/tmp", "elf", {"boa"}) \cup File("var/run", "script", {"reboot"})
    \cup File("sbin", "link", {"httpd", "dnsmasq", "reboot", "shutdown"})
    \cup File("rc_app", "elf", {"boa", "rc_apps"})
    \cup File("sbin", "script", {"boa", "miniupnpd", "dnsmasq", "shutdown.cgi", "doreboot.sh"})
    \cup File("sbin", "wide", {"boa"}) \cup File("sbin", "pie", {"httpd"})
    \cup File("sbin", "odd", {"httpd"}) \cup File("usr", "bare", {"httpd"})
    \cup File("www", "page", {"reboot.htm", "shutdown.htm"}) \cup File("var", "special", {"fifo"})
    \cup File("etc", "script", {"netconf", "boa-dog.sh", "xmldb"}) \cup File("usr/etc", "script", {"rcS"})
    \cup File("bin", "elf", {"sh", "htmlunpack"}) \cup File("bin", "link", {"sh"})
    \cup File("usr", "elf", {"htmlunpack"}) \cup File("lib", "elf", {"libnvram.so", "main"})
Starting ==
  File("sbin", "elf", {"rc", "procd", "init"}) \cup File("sbin", "tobusybox", {"init"})
    \cup File("sbin", "script", {"init"}) \cup File("sbin", "pie", {"init"})
    \cup File("sbin", "torc", {"preinit", "init"}) \cup File("usr/sbin", "link", {"rc", "init"})
    \cup File("", "elf", {"init"})
    \cup File("etc", "sysinit", {"inittab"}) \cup File("etc", "torn", {"inittab"})
    \cup File("usr/etc", "inittab", {"inittab"})
    \cup File("etc", "script", {"profile", "netconf"}) \cup File("etc/init.d", "script", {"rcS"})
    \cup File("etc/rc.d", "script", {"rcS"}) \cup File("init.d", "script", {"network"})

Path(f) == <<f.dir, f.name>>
OnePerPath(S) == {F \in S : \A a, b \in F : Path(a) = Path(b) => a = b}
UpToThree(U) == OnePerPath({{a, b, c} : a, b, c \in U} \cup {{}})
Root(top, hunt, files, empty) == [top |-> top, hunt |-> hunt, files |-> files, empty |-> empty]
Found == {File("bin", "elf", {"sh"}), File("bin", "elf", {"sh"}) \cup File("sbin", "elf", {"httpd"}),
          File("bin", "elf", {"sh"}) \cup File("lib", "elf", {"main"}), File("sbin", "elf", {"httpd", "crond"}),
          File("www", "elf", {"boa"}), File("usr/sbin", "elf", {"shttpd"})}
Flags == [enhanced : BOOLEAN, known : BOOLEAN, only : BOOLEAN]
KnownPlace == [enhanced |-> TRUE, known |-> TRUE, only |-> FALSE]

(* Roots that have to be found, in pairs; up to three of the files that    *)
(* the passes tell apart, or a server and up to four of those of the       *)
(* start, in a root whose place is known; each for every service.          *)
Searched ==
  {<<r, <<Root(a, b, F, {"www"}), Root(b, FALSE, G, {})>> >> : r \in Flags, F, G \in Found, a, b \in BOOLEAN}
Started ==
  OnePerPath({F \cup {f} \cup File("sbin", "elf", {"boa"}) : F \in UpToThree(Starting), f \in Starting})
Placed == {<<KnownPlace, <<Root(FALSE, FALSE, F, {})>> >> : F \in UpToThree(Passed) \cup Started}
MC_Cases == {
  [image |-> r[2], service |-> s, enhanced |-> r[1].enhanced, known |-> r[1].known, only |-> r[1].only] :
    s \in Service, r \in Searched \cup Placed}
=============================================================================
