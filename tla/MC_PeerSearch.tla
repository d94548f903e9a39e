--------------------------- MODULE MC_PeerSearch ---------------------------
(***************************************************************************)
(* Two executables.  The calls of the first are chosen freely, two at a    *)
(* time; cases that need a third call or function are listed.              *)
(***************************************************************************)
EXTENDS PeerSearch

A == "a"
B == "b"
Two == {"f", "g"}

Call(in, addr, reach, read) == [in |-> in, addr |-> addr, reach |-> reach, read |-> read]

NoUp == [x \in Funcs |-> NoFunc]

Prog(sites, wrapper, up, size, guess) ==
  [named |-> TRUE, sites |-> sites, wrapper |-> wrapper, up |-> up, size |-> size, fails |-> FALSE, guess |-> guess]

Small == [x \in Funcs |-> 1]

Reaches == {"entry", "behind", "near", "never"}

(* All programs with two calls in f and g, where g may be large and f a    *)
(* wrapper that g calls.                                                   *)
Pairs(Reads, Addrs, Guesses) ==
  {Prog(<<Call("f", a, r, d), Call(x, b, s, e)>>, w, [NoUp EXCEPT !["f"] = "g"], [Small EXCEPT !["g"] = n], h) :
     a \in Addrs, b \in Addrs, r \in Reaches, s \in Reaches, d \in Reads, e \in Reads, x \in Two,
     w \in {{}, {"f"}}, n \in {1, Large + 1}, h \in Guesses}

Good == Call("f", TRUE, "entry", TRUE)

(* The calls stand in three functions, of which only two are executed; in  *)
(* none; behind the last one that is looked at; in wrappers of each other. *)
Special ==
  {Prog(<<Call("f", TRUE, r, TRUE), Call("g", TRUE, r, TRUE), Call("h", TRUE, "entry", TRUE)>>, {}, NoUp, n, "none") :
     r \in {"near", "never"}, n \in [Funcs -> {1, 2}]}
  \cup {Prog(<<Call(NoFunc, TRUE, "entry", TRUE), Call("f", a, "entry", TRUE), Call("g", a, "never", TRUE), Good>>,
             {}, NoUp, Small, "addr") : a \in BOOLEAN}
  \cup {Prog(<<Good, Call("g", TRUE, "entry", TRUE)>>, w, [NoUp EXCEPT !["f"] = "g", !["g"] = "f"], Small, "addr") :
          w \in {{"f"}, {"g"}, Two}}
  \cup {Prog(<< >>, {}, NoUp, Small, "addr")}

Unnamed == [Prog(<<Good>>, {}, NoUp, Small, "addr") EXCEPT !.named = FALSE]
Failing == [Prog(<<Good>>, {}, NoUp, Small, "addr") EXCEPT !.fails = TRUE]
Honest  == Prog(<<Good>>, {}, NoUp, Small, "none")

Of(first, second) == [x \in Binaries |-> IF x = A THEN first ELSE second]

AllWorlds ==
  {[seek |-> "socket", of |-> Of(p, q)] :
     p \in Pairs(BOOLEAN, BOOLEAN, {"addr", "other", "none"}) \cup Special \cup {Failing, Unnamed}, q \in {Failing, Unnamed}}
  \cup {[seek |-> "shm", of |-> Of(p, q)] :
     p \in Pairs({TRUE}, {TRUE}, {"none"}) \cup Special \cup {Failing, Unnamed}, q \in {Failing, Unnamed, Honest}}
  \cup {[seek |-> "socket", of |-> Of(p, Honest)] :
     p \in Pairs({TRUE}, BOOLEAN, {"none"}) \cup Special \cup {Unnamed}}
=============================================================================
