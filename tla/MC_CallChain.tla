---------------------------- MODULE MC_CallChain ----------------------------
EXTENDS CallChain

(* Five executables: the target, a service that may start it, the init, a  *)
(* script, and a program outside every chain that may start the target,    *)
(* too, and use up the count.                                              *)
Sorted == [f \in Files |-> CASE f = "a" -> 1 [] f = "b" -> 2 [] f = "init" -> 3 [] f = "script" -> 4 [] OTHER -> 5]

(* How files name each other: the target in all ways that matter, the      *)
(* service and the script by name, the init and the program b in none.     *)
Naming ==
  LET target == {"absent", "named", "called", "linkCalled"}
      name == {"absent", "named", "called"}
      row(a, i, s, t) == [f \in Files |-> CASE f = "a" -> a [] f = "init" -> i [] f = "script" -> s [] OTHER -> t]
  IN {[c \in Files |-> CASE c = "a" -> row("absent", "absent", as, at)
                         [] c = "init" -> row(ia, "absent", is, it)
                         [] c = "script" -> row(sa, "absent", "absent", st)
                         [] c = "b" -> row("absent", "absent", "absent", bt)
                         [] OTHER -> row("named", "absent", "absent", "absent")] :
        at \in target, it \in target, st \in target,
        ia \in name \cup {"built"}, sa \in name, as \in {"absent", "called"}, is \in {"absent", "called"}, bt \in {"absent", "called"}}

Seeing ==
  {[f \in Files |-> CASE f = "script" -> "script" [] f = "a" -> p[1] [] f = "init" -> p[2] [] OTHER -> "whole"] :
     p \in {<<"whole", "whole">>, <<"parts", "parts">>, <<"nothing", "whole">>}}

(* The entries that EntryPoint identifies: busybox with a script or none,  *)
(* procd with a script or none, an init of its own with a script or none,  *)
(* and sbin/rc.                                                            *)
Entries ==
  LET e(busybox, procd, bash, rc, php) == [busybox |-> busybox, procd |-> procd, bash |-> bash, rc |-> rc, php |-> php]
  IN {e(TRUE, NoFile, "script", {}, FALSE), e(TRUE, NoFile, NoFile, {}, FALSE), e(FALSE, "a", "script", {}, FALSE),
      e(FALSE, "a", NoFile, {}, FALSE), e(FALSE, NoFile, "script", {}, FALSE), e(FALSE, NoFile, "script", {}, TRUE),
      e(FALSE, NoFile, NoFile, {"init"}, FALSE)}

Firmwares ==
  {[use |-> u, sight |-> s, initd |-> d, rc |-> e.rc, php |-> e.php, busybox |-> e.busybox, procd |-> e.procd, bash |-> e.bash] :
     u \in Naming, s \in Seeing, d \in {{}, {"a"}}, e \in Entries}
=============================================================================
