-------------------------- MODULE Rehosting_proofs --------------------------
(***************************************************************************)
(* The safety of what a rehosting hangs on: that the errors located in a   *)
(* trace are those of the service, for any processes, descriptors, files,  *)
(* peers and length of the log, whether it is thinned out or not (Trace);  *)
(* and that a machine of system mode is ready when it is said to be, for   *)
(* any subnets, any number of attempts and any length of a wait            *)
(* (SystemMode).                                                           *)
(***************************************************************************)
EXTENDS Trace, SystemMode, FiniteSetTheorems, SequenceTheorems, WellFoundedInduction, TLAPS

(* Sequences.  A set of numbers has a least one, which is what stands for  *)
(* induction in this module.                                               *)
LEMMA Least ==
  ASSUME NEW T \in SUBSET Nat, T # {}
  PROVE  \E n \in T : \A m \in T : n <= m
<1> DEFINE F == {0 .. m : m \in T}
<1>1. IsWellFoundedOn(StrictSubsetOrdering(Nat), FiniteSubsetsOf(Nat)) BY FS_StrictSubsetOrderingWellFounded
<1>2. F \subseteq FiniteSubsetsOf(Nat) /\ F # {}
  <2>1. \A m \in T : 0 .. m \in SUBSET Nat /\ IsFiniteSet(0 .. m) BY FS_Interval
  <2> QED BY <2>1 DEF FiniteSubsetsOf
<1>3. \E x \in F : \A y \in F : <<y, x>> \notin StrictSubsetOrdering(Nat)
  <2> HIDE DEF F
  <2> QED BY <1>1, <1>2, WFMin
<1>4. PICK n \in T : \A m \in T : <<0 .. m, 0 .. n>> \notin StrictSubsetOrdering(Nat) BY <1>3
<1>5. \A m \in T : m < n => <<0 .. m, 0 .. n>> \in StrictSubsetOrdering(Nat)
  <2> SUFFICES ASSUME NEW m \in T, m < n PROVE <<0 .. m, 0 .. n>> \in StrictSubsetOrdering(Nat) OBVIOUS
  <2>1. 0 .. m \subseteq 0 .. n /\ n \in 0 .. n /\ n \notin 0 .. m /\ 0 .. n \subseteq Nat OBVIOUS
  <2> QED BY <2>1 DEF StrictSubsetOrdering
<1>6. \A m \in T : m \in Nat /\ n \in Nat OBVIOUS
<1>7. \A m \in T : ~(m < n) BY <1>4, <1>5
<1>8. \A m \in T : n <= m BY <1>6, <1>7
<1> QED BY <1>8

(* What holds for 0 and for the next number holds for all, of a set.       *)
LEMMA Induction ==
  ASSUME NEW P, 0 \in P, \A n \in Nat : n \in P => n + 1 \in P
  PROVE  Nat \subseteq P
<1> DEFINE T == {n \in Nat : n \notin P}
<1> SUFFICES ASSUME T # {} PROVE FALSE OBVIOUS
<1>1. PICK n \in T : \A m \in T : n <= m
  <2>1. T \in SUBSET Nat OBVIOUS
  <2> HIDE DEF T
  <2> QED BY <2>1, Least
<1>2. n \in Nat /\ n # 0 BY <1>1
<1>3. n - 1 \in Nat /\ ~(n <= n - 1) /\ (n - 1) + 1 = n BY <1>2
<1>4. n - 1 \in P BY <1>1, <1>3
<1> QED BY <1>1, <1>3, <1>4

LEMMA MaxIs ==
  ASSUME NEW S \in SUBSET Nat, NEW n \in Nat, \A m \in S : m <= n, S # {}
  PROVE  Max(S) \in S /\ \A m \in S : m <= Max(S)
<1> DEFINE T == {m \in Nat : \E k \in S : m = n - k}
<1>1. T \in SUBSET Nat /\ T # {}
  <2>1. PICK k \in S : TRUE OBVIOUS
  <2>2. n - k \in Nat BY <2>1
  <2> QED BY <2>1, <2>2
<1>2. PICK m \in T : \A l \in T : m <= l
  <2> HIDE DEF T
  <2> QED BY <1>1, Least
<1>3. PICK k \in S : m = n - k BY <1>2
<1>4. \A l \in S : l \in Nat /\ n - l \in T OBVIOUS
<1>5. \A l \in S : l <= k BY <1>2, <1>3, <1>4
<1>6. \A l \in S : k >= l BY <1>4, <1>5
<1>7. Max(S) \in S /\ \A l \in S : Max(S) >= l BY <1>6 DEF Max
<1> QED BY <1>4, <1>7

LEMMA MinIs ==
  ASSUME NEW S \in SUBSET Nat, S # {}
  PROVE  Min(S) \in S /\ \A m \in S : Min(S) <= m
BY Least DEF Min

(* An order-preserving enumeration of a set of numbers.                    *)
Order(c, n, S) ==
  /\ c \in [1 .. n -> S]
  /\ \A i, j \in 1 .. n : i < j => c[i] < c[j]
  /\ \A e \in S : \E k \in 1 .. n : c[k] = e
ListsAt(x, s, S) == \E n \in Nat : \E c : Order(c, n, S) /\ x = [k \in 1 .. n |-> s[c[k]]]

PickEq(g, s, at, n) ==
  g = [m \in 0 .. n |-> IF m = 0 THEN << >> ELSE IF m \in at THEN Append(g[m - 1], s[m]) ELSE g[m - 1]]

LEMMA PickGrows ==
  ASSUME NEW s, NEW at, NEW n \in Nat, NEW f, PickEq(f, s, at, n)
  PROVE  \E g : PickEq(g, s, at, n + 1)
<1> DEFINE N == n + 1
           g == [m \in 0 .. N |-> IF m < N THEN f[m] ELSE IF N \in at THEN Append(f[n], s[N]) ELSE f[n]]
           E(h, m) == IF m = 0 THEN << >> ELSE IF m \in at THEN Append(h[m - 1], s[m]) ELSE h[m - 1]
<1>1. \A m \in 0 .. n : f[m] = E(f, m) BY DEF PickEq
<1>2. DOMAIN g = 0 .. N /\ \A m \in 0 .. n : g[m] = f[m]
  <2>1. \A m \in 0 .. n : m \in 0 .. N /\ m < N OBVIOUS
  <2> QED BY <2>1
<1>3. g[N] = IF N \in at THEN Append(f[n], s[N]) ELSE f[n]
  <2>1. N \in 0 .. N /\ ~(N < N) OBVIOUS
  <2> QED BY <2>1
<1> HIDE DEF g
<1>4. \A m \in 0 .. N : g[m] = E(g, m)
  <2> SUFFICES ASSUME NEW m \in 0 .. N PROVE g[m] = E(g, m) OBVIOUS
  <2>1. CASE m = N
    <3>1. N # 0 /\ N - 1 = n /\ n \in 0 .. n OBVIOUS
    <3> QED BY <1>2, <1>3, <2>1, <3>1
  <2>2. CASE m # N
    <3>1. m \in 0 .. n /\ (m # 0 => m - 1 \in 0 .. n) BY <2>2
    <3> QED BY <1>1, <1>2, <3>1
  <2> QED BY <2>1, <2>2
<1>5. g = [m \in 0 .. N |-> E(g, m)]
  <2>1. g = [m \in 0 .. N |-> g[m]]
    <3>1. DOMAIN g = 0 .. N BY <1>2
    <3> QED BY <3>1 DEF g
  <2> HIDE DEF E, N
  <2>2. [m \in 0 .. N |-> g[m]] = [m \in 0 .. N |-> E(g, m)] BY <1>4, Zenon
  <2> QED BY <2>1, <2>2
<1> QED BY <1>5 DEF PickEq

LEMMA PickExists ==
  ASSUME NEW s, NEW at, NEW n \in Nat
  PROVE  \E g : PickEq(g, s, at, n)
<1> DEFINE P == {m \in Nat : \E g : PickEq(g, s, at, m)}
<1>1. 0 \in P
  <2> DEFINE g == [m \in 0 .. 0 |-> << >>]
  <2>1. \A m \in 0 .. 0 : m = 0 OBVIOUS
  <2>2. PickEq(g, s, at, 0) BY <2>1 DEF PickEq
  <2> QED BY <2>2
<1>2. \A m \in Nat : m \in P => m + 1 \in P BY PickGrows
<1> HIDE DEF P
<1>3. Nat \subseteq P BY <1>1, <1>2, Induction
<1> QED BY <1>3 DEF P

LEMMA PickIs ==
  ASSUME NEW s, NEW at, Max({0} \cup at) \in Nat
  PROVE  \E g : PickEq(g, s, at, Max({0} \cup at)) /\ Pick(s, at) = g[Max({0} \cup at)]
<1> DEFINE n == Max({0} \cup at)
<1> SUFFICES \E g : PickEq(g, s, at, n) /\ Pick(s, at) = g[n] OBVIOUS
<1>0. n \in Nat OBVIOUS
<1> HIDE DEF n
<1>1. \E g : PickEq(g, s, at, n) BY <1>0, PickExists
<1> DEFINE g == CHOOSE h : PickEq(h, s, at, n)
<1>2. PickEq(g, s, at, n) BY <1>1, Zenon
<1>3. Pick(s, at) = g[n] BY Zenon DEF Pick, PickEq, n
<1> QED BY <1>2, <1>3

LEMMA ListsMore ==
  ASSUME NEW s, NEW at, NEW m \in Nat, NEW x, ListsAt(x, s, at \cap 1 .. m), m + 1 \in at
  PROVE  ListsAt(Append(x, s[m + 1]), s, at \cap 1 .. (m + 1))
<1> DEFINE M == m + 1
<1>n. PICK n \in Nat : \E c : Order(c, n, at \cap 1 .. m) /\ x = [k \in 1 .. n |-> s[c[k]]] BY DEF ListsAt
<1>1. PICK c : Order(c, n, at \cap 1 .. m) /\ x = [k \in 1 .. n |-> s[c[k]]] BY <1>n
<1> DEFINE d == [k \in 1 .. n + 1 |-> IF k = n + 1 THEN M ELSE c[k]]
           y == [k \in 1 .. n + 1 |-> s[d[k]]]
<1>2. /\ c \in [1 .. n -> at \cap 1 .. m]
      /\ \A i, j \in 1 .. n : i < j => c[i] < c[j]
      /\ \A e \in at \cap 1 .. m : \E k \in 1 .. n : c[k] = e
  BY <1>1 DEF Order
<1>3. \A k \in 1 .. n + 1 : k # n + 1 => k \in 1 .. n OBVIOUS
<1>4. DOMAIN d = 1 .. n + 1 /\ d[n + 1] = M /\ \A k \in 1 .. n : d[k] = c[k]
  <2>1. n + 1 \in 1 .. n + 1 /\ \A k \in 1 .. n : k \in 1 .. n + 1 /\ k # n + 1 OBVIOUS
  <2> QED BY <2>1
<1> HIDE DEF d
<1>5. Order(d, n + 1, at \cap 1 .. M)
  <2>1. M \in 1 .. M /\ \A e : e \in at \cap 1 .. m => e \in at \cap 1 .. M /\ e < M /\ e \in Nat OBVIOUS
  <2>2. \A k \in 1 .. n + 1 : d[k] \in at \cap 1 .. M BY <1>2, <1>3, <1>4, <2>1
  <2>3. d \in [1 .. n + 1 -> at \cap 1 .. M]
    <3>1. d = [k \in 1 .. n + 1 |-> d[k]] BY <1>4 DEF d
    <3> QED BY <2>2, <3>1
  <2>4. \A i, j \in 1 .. n + 1 : i < j => d[i] < d[j]
    <3> SUFFICES ASSUME NEW i \in 1 .. n + 1, NEW j \in 1 .. n + 1, i < j PROVE d[i] < d[j] OBVIOUS
    <3>1. i \in 1 .. n OBVIOUS
    <3>2. CASE j = n + 1 BY <1>2, <1>4, <2>1, <3>1, <3>2
    <3>3. CASE j # n + 1 BY <1>2, <1>3, <1>4, <3>1, <3>3
    <3> QED BY <3>2, <3>3
  <2>5. \A e \in at \cap 1 .. M : \E k \in 1 .. n + 1 : d[k] = e
    <3> SUFFICES ASSUME NEW e \in at \cap 1 .. M PROVE \E k \in 1 .. n + 1 : d[k] = e OBVIOUS
    <3>1. CASE e = M BY <1>4, <3>1
    <3>2. CASE e # M
      <4>1. e \in at \cap 1 .. m BY <3>2
      <4>2. PICK k \in 1 .. n : c[k] = e BY <1>2, <4>1
      <4>3. k \in 1 .. n + 1 OBVIOUS
      <4> QED BY <1>4, <4>2, <4>3
    <3> QED BY <3>1, <3>2
  <2> QED BY <2>3, <2>4, <2>5 DEF Order
<1>6. Append(x, s[M]) = y
  <2> DEFINE S == {s[e] : e \in at \cap 1 .. M}
  <2>1. \A k \in 1 .. n : s[c[k]] \in S
    <3>1. \A k \in 1 .. n : c[k] \in at \cap 1 .. M BY <1>2
    <3> QED BY <3>1
  <2>2. \A k \in 1 .. n + 1 : s[d[k]] \in S BY <1>5 DEF Order
  <2>3. s[M] \in S
    <3>1. M \in at \cap 1 .. M OBVIOUS
    <3> QED BY <3>1
  <2> HIDE DEF S
  <2>4. x \in Seq(S) /\ Len(x) = n /\ \A k \in 1 .. n : x[k] = s[c[k]] BY <1>1, <2>1
  <2>5. y \in Seq(S) /\ Len(y) = n + 1 /\ \A k \in 1 .. n + 1 : y[k] = s[d[k]] BY <2>2
  <2> HIDE DEF y, M
  <2>6. Append(x, s[M]) \in Seq(S) /\ Len(Append(x, s[M])) = n + 1 BY <2>3, <2>4
  <2>7. \A k \in 1 .. n + 1 : Append(x, s[M])[k] = y[k]
    <3> SUFFICES ASSUME NEW k \in 1 .. n + 1 PROVE Append(x, s[M])[k] = y[k] OBVIOUS
    <3>1. CASE k = n + 1 BY <1>4, <2>3, <2>4, <2>5, <3>1
    <3>2. CASE k # n + 1 BY <1>3, <1>4, <2>3, <2>4, <2>5, <3>2
    <3> QED BY <3>1, <3>2
  <2> QED BY <2>5, <2>6, <2>7, SeqEqual
<1>7. n + 1 \in Nat OBVIOUS
<1> QED BY <1>5, <1>6, <1>7 DEF ListsAt

(* Pick lists what is at the places, in order, and nothing else.           *)
LEMMA PickLists ==
  ASSUME NEW s, NEW at, NEW N \in Nat, at \subseteq 1 .. N
  PROVE  ListsAt(Pick(s, at), s, at)
<1> DEFINE n == Max({0} \cup at)
<1>1. n \in {0} \cup at /\ \A m \in at : m <= n
  <2>1. {0} \cup at \in SUBSET Nat /\ \A m \in {0} \cup at : m <= N OBVIOUS
  <2> HIDE DEF n
  <2>2. n \in {0} \cup at /\ \A m \in {0} \cup at : m <= n BY <2>1, MaxIs DEF n
  <2> QED BY <2>2
<1>2. n \in Nat /\ at \cap 1 .. n = at
  <2> HIDE DEF n
  <2>1. n \in Nat BY <1>1
  <2>2. \A m \in at : m \in Nat /\ 1 <= m /\ m <= n BY <1>1
  <2>3. \A m \in at : m \in 1 .. n BY <2>1, <2>2
  <2> QED BY <2>1, <2>3
<1>3. PICK g : PickEq(g, s, at, n) /\ Pick(s, at) = g[n]
  <2> HIDE DEF n
  <2> QED BY <1>2, PickIs DEF n
<1> HIDE DEF n
<1> DEFINE P == {m \in Nat : m <= n => ListsAt(g[m], s, at \cap 1 .. m)}
<1>4. \A m \in 0 .. n : g[m] = IF m = 0 THEN << >> ELSE IF m \in at THEN Append(g[m - 1], s[m]) ELSE g[m - 1]
  BY <1>3 DEF PickEq
<1>5. 0 \in P
  <2>1. g[0] = << >> BY <1>2, <1>4
  <2> DEFINE c == [k \in 1 .. 0 |-> 0]
  <2>2. 1 .. 0 = {} OBVIOUS
  <2>3. Order(c, 0, {}) BY <2>2 DEF Order
  <2>4. at \cap 1 .. 0 = {} BY <2>2
  <2>5. << >> = [k \in 1 .. 0 |-> s[c[k]]] BY <2>2
  <2>6. ListsAt(<< >>, s, {}) BY <2>3, <2>5, 0 \in Nat DEF ListsAt
  <2> QED BY <2>1, <2>4, <2>6
<1>6. \A m \in Nat : m \in P => m + 1 \in P
  <2> SUFFICES ASSUME NEW m \in Nat, m \in P, m + 1 <= n PROVE ListsAt(g[m + 1], s, at \cap 1 .. (m + 1)) OBVIOUS
  <2>1. ListsAt(g[m], s, at \cap 1 .. m) BY <1>2
  <2>2. m + 1 \in 0 .. n /\ m + 1 # 0 /\ (m + 1) - 1 = m BY <1>2
  <2>3. CASE m + 1 \in at
    <3>1. g[m + 1] = Append(g[m], s[m + 1]) BY <1>4, <2>2, <2>3
    <3> DEFINE x == g[m]
    <3>2. ListsAt(x, s, at \cap 1 .. m) BY <2>1
    <3> HIDE DEF P, x
    <3>3. ListsAt(Append(x, s[m + 1]), s, at \cap 1 .. (m + 1)) BY <2>3, <3>2, ListsMore
    <3> QED BY <3>1, <3>3 DEF x
  <2>4. CASE m + 1 \notin at
    <3>1. g[m + 1] = g[m] BY <1>4, <2>2, <2>4
    <3>2. at \cap 1 .. (m + 1) = at \cap 1 .. m BY <2>4
    <3> QED BY <2>1, <3>1, <3>2
  <2> QED BY <2>3, <2>4
<1> HIDE DEF P
<1>7. n \in P BY <1>2, <1>5, <1>6, Induction
<1> QED BY <1>2, <1>3, <1>7 DEF P

(* So it has as many elements as there are places, whatever these are.     *)
LEMMA ListIs ==
  ASSUME NEW x, NEW s, NEW at, ListsAt(x, s, at)
  PROVE  /\ \E n \in Nat : DOMAIN x = 1 .. n
         /\ x = << >> => at = {}
         /\ \A S : (\A i \in at : s[i] \in S) => x \in Seq(S)
<1>n. PICK n \in Nat : \E c : Order(c, n, at) /\ x = [k \in 1 .. n |-> s[c[k]]] BY DEF ListsAt
<1>1. PICK c : Order(c, n, at) /\ x = [k \in 1 .. n |-> s[c[k]]] BY <1>n
<1>2. /\ c \in [1 .. n -> at]
      /\ \A e \in at : \E k \in 1 .. n : c[k] = e
  BY <1>1 DEF Order
<1>3. DOMAIN x = 1 .. n BY <1>1
<1>4. x = << >> => at = {}
  <2>1. x = << >> => 1 .. n = {} BY <1>3
  <2> QED BY <1>2, <2>1
<1>5. \A S : (\A i \in at : s[i] \in S) => x \in Seq(S)
  <2> SUFFICES ASSUME NEW S, \A i \in at : s[i] \in S PROVE x \in Seq(S) OBVIOUS
  <2>1. \A k \in 1 .. n : s[c[k]] \in S BY <1>2
  <2> QED BY <1>1, <2>1
<1> QED BY <1>3, <1>4, <1>5
-----------------------------------------------------------------------------
(* The worklist.                                                           *)
FlattenEq(g, seqs, n) == g = [i \in 1 .. n |-> IF i = 1 THEN seqs[i] ELSE g[i - 1] \o seqs[i]]

LEMMA FlattenGrows ==
  ASSUME NEW seqs, NEW n \in Nat, NEW f, FlattenEq(f, seqs, n)
  PROVE  \E g : FlattenEq(g, seqs, n + 1)
<1> DEFINE N == n + 1
           g == [m \in 1 .. N |-> IF m < N THEN f[m] ELSE IF N = 1 THEN seqs[N] ELSE f[n] \o seqs[N]]
           E(h, m) == IF m = 1 THEN seqs[m] ELSE h[m - 1] \o seqs[m]
<1>1. \A m \in 1 .. n : f[m] = E(f, m) BY DEF FlattenEq
<1>2. DOMAIN g = 1 .. N /\ \A m \in 1 .. n : g[m] = f[m]
  <2>1. \A m \in 1 .. n : m \in 1 .. N /\ m < N OBVIOUS
  <2> QED BY <2>1
<1>3. g[N] = IF N = 1 THEN seqs[N] ELSE f[n] \o seqs[N]
  <2>1. N \in 1 .. N /\ ~(N < N) OBVIOUS
  <2> QED BY <2>1
<1> HIDE DEF g
<1>4. \A m \in 1 .. N : g[m] = E(g, m)
  <2> SUFFICES ASSUME NEW m \in 1 .. N PROVE g[m] = E(g, m) OBVIOUS
  <2>1. CASE m = N
    <3>1. N - 1 = n /\ (N # 1 => n \in 1 .. n) OBVIOUS
    <3> HIDE DEF N
    <3> QED BY <1>2, <1>3, <2>1, <3>1
  <2>2. CASE m # N
    <3>1. m \in 1 .. n /\ (m # 1 => m - 1 \in 1 .. n) BY <2>2
    <3> QED BY <1>1, <1>2, <3>1
  <2> QED BY <2>1, <2>2
<1>5. g = [m \in 1 .. N |-> E(g, m)]
  <2>1. g = [m \in 1 .. N |-> g[m]]
    <3>1. DOMAIN g = 1 .. N BY <1>2
    <3> QED BY <3>1 DEF g
  <2> HIDE DEF E, N
  <2>2. [m \in 1 .. N |-> g[m]] = [m \in 1 .. N |-> E(g, m)] BY <1>4, Zenon
  <2> QED BY <2>1, <2>2
<1> QED BY <1>5 DEF FlattenEq

LEMMA FlattenIs ==
  ASSUME NEW seqs, NEW n, n = Len(seqs), n \in Nat, n # 0
  PROVE  \E g : FlattenEq(g, seqs, n) /\ FlattenSeq(seqs) = g[n]
<1> DEFINE P == {m \in Nat : \E g : FlattenEq(g, seqs, m)}
<1>1. 0 \in P
  <2> DEFINE g == [i \in 1 .. 0 |-> 0]
  <2>1. FlattenEq(g, seqs, 0) BY DEF FlattenEq
  <2> QED BY <2>1
<1>2. \A m \in Nat : m \in P => m + 1 \in P BY FlattenGrows
<1> HIDE DEF P
<1>3. Nat \subseteq P BY <1>1, <1>2, Induction
<1>4. \E g : FlattenEq(g, seqs, n) BY <1>3 DEF P
<1> DEFINE g == CHOOSE h : FlattenEq(h, seqs, n)
<1>5. FlattenEq(g, seqs, n) BY <1>4, Zenon
<1>6. FlattenSeq(seqs) = g[n] BY Zenon DEF FlattenSeq, FlattenEq
<1> QED BY <1>5, <1>6

LEMMA FlattenType ==
  ASSUME NEW S, NEW seqs \in Seq(Seq(S))
  PROVE  FlattenSeq(seqs) \in Seq(S)
<1> DEFINE n == Len(seqs)
<1>1. n \in Nat /\ \A i \in 1 .. n : seqs[i] \in Seq(S) OBVIOUS
<1>2. CASE n = 0
  <2>1. seqs = << >> BY <1>2
  <2>2. FlattenSeq(seqs) = seqs BY <1>2 DEF FlattenSeq
  <2>3. << >> \in Seq(S) OBVIOUS
  <2> HIDE DEF n
  <2> QED BY <2>1, <2>2, <2>3
<1>3. CASE n # 0
  <2>1. PICK g : FlattenEq(g, seqs, n) /\ FlattenSeq(seqs) = g[n] BY <1>1, <1>3, FlattenIs
  <2>2. \A i \in 1 .. n : g[i] = IF i = 1 THEN seqs[i] ELSE g[i - 1] \o seqs[i] BY <2>1 DEF FlattenEq
  <2> HIDE DEF n
  <2> DEFINE P == {m \in Nat : m + 1 <= n => g[m + 1] \in Seq(S)}
  <2>3. 0 \in P
    <3>1. g[1] = seqs[1] /\ 1 \in 1 .. n BY <1>1, <1>3, <2>2
    <3> QED BY <1>1, <3>1
  <2>4. \A m \in Nat : m \in P => m + 1 \in P
    <3> SUFFICES ASSUME NEW m \in Nat, m \in P, (m + 1) + 1 <= n PROVE g[(m + 1) + 1] \in Seq(S) OBVIOUS
    <3> DEFINE k == (m + 1) + 1
    <3>1. k \in 1 .. n /\ k # 1 /\ k - 1 = m + 1 /\ m + 1 <= n BY <1>1
    <3>2. g[k] = g[m + 1] \o seqs[k] BY <2>2, <3>1
    <3>3. g[m + 1] \in Seq(S) /\ seqs[k] \in Seq(S) BY <1>1, <3>1
    <3> QED BY <3>2, <3>3
  <2> HIDE DEF P
  <2>5. n - 1 \in P
    <3>1. n - 1 \in Nat BY <1>1, <1>3
    <3>2. Nat \subseteq P BY <2>3, <2>4, Induction
    <3> QED BY <3>1, <3>2
  <2>6. (n - 1) + 1 = n /\ n <= n BY <1>1
  <2>7. g[(n - 1) + 1] \in Seq(S)
    <3> DEFINE m == n - 1
    <3>1. m \in P /\ m + 1 <= n BY <2>5, <2>6
    <3> HIDE DEF m
    <3>2. g[m + 1] \in Seq(S) BY <3>1 DEF P
    <3> QED BY <3>2 DEF m
  <2> QED BY <2>1, <2>6, <2>7
<1> QED BY <1>2, <1>3

Block(s, g, i) == FlattenSeq(Reverse(Pick([j \in Forks(s, i) |-> g[j]], Forks(s, i)))) \o <<Child(s, i)>>
BlocksEq(g, s, b) == g = [i \in b .. Len(s) |-> Block(s, g, i)]

(* The block of a process depends on those of later forks only.            *)
LEMMA SameBlock ==
  ASSUME NEW s, NEW f, NEW g, NEW i, \A j \in i + 1 .. Len(s) : f[j] = g[j]
  PROVE  Block(s, f, i) = Block(s, g, i)
<1>1. \A j \in Forks(s, i) : f[j] = g[j] BY DEF Forks
<1>2. [j \in Forks(s, i) |-> f[j]] = [j \in Forks(s, i) |-> g[j]] BY <1>1
<1> QED BY <1>2 DEF Block

LEMMA BlocksGrow ==
  ASSUME NEW s, Len(s) \in Nat, NEW b \in 0 .. Len(s), NEW f, BlocksEq(f, s, b + 1)
  PROVE  \E g : BlocksEq(g, s, b)
<1> DEFINE n == Len(s)
           g == [i \in b .. n |-> IF i = b THEN Block(s, f, b) ELSE f[i]]
<1>1. \A i \in b + 1 .. n : i \in b .. n /\ i # b OBVIOUS
<1>2. \A i \in b .. n : i # b => i \in b + 1 .. n OBVIOUS
<1>3. b \in b .. n /\ b \in Nat OBVIOUS
<1>4. \A i \in b + 1 .. n : f[i] = Block(s, f, i) BY DEF BlocksEq
<1>5. DOMAIN g = b .. n /\ g[b] = Block(s, f, b) /\ \A i \in b + 1 .. n : g[i] = f[i] BY <1>1, <1>3
<1>6. g = [i \in b .. n |-> g[i]] OBVIOUS
<1> HIDE DEF g, n
<1>7. \A i \in b .. n : g[i] = Block(s, g, i)
  <2> SUFFICES ASSUME NEW i \in b .. n PROVE g[i] = Block(s, g, i) OBVIOUS
  <2>1. \A j \in i + 1 .. n : j \in b + 1 .. n
    <3>1. n \in Nat BY DEF n
    <3> QED BY <1>3, <3>1
  <2>2. \A j \in i + 1 .. Len(s) : f[j] = g[j] BY <1>5, <2>1 DEF n
  <2>3. Block(s, f, i) = Block(s, g, i) BY <2>2, SameBlock
  <2>4. g[i] = Block(s, f, i) BY <1>2, <1>4, <1>5
  <2> QED BY <2>3, <2>4
<1>8. g = [i \in b .. n |-> Block(s, g, i)]
  <2>1. [i \in b .. n |-> g[i]] = [i \in b .. n |-> Block(s, g, i)] BY <1>7, Zenon
  <2> QED BY <1>6, <2>1
<1> QED BY <1>8 DEF BlocksEq, n

LEMMA DescendantsIs ==
  ASSUME NEW s, Len(s) \in Nat
  PROVE  \E g : BlocksEq(g, s, 0) /\ Descendants(s) = g[0]
<1> DEFINE n == Len(s)
           P == {k \in Nat : k <= n + 1 => \E g : BlocksEq(g, s, (n + 1) - k)}
<1>1. 0 \in P
  <2>1. n + 1 .. n = {} /\ (n + 1) - 0 = n + 1 OBVIOUS
  <2> DEFINE g == [i \in n + 1 .. n |-> 0]
  <2>2. g = [i \in n + 1 .. n |-> Block(s, g, i)] BY <2>1
  <2>3. BlocksEq(g, s, n + 1) BY <2>2 DEF BlocksEq
  <2> QED BY <2>1, <2>3
<1>2. \A k \in Nat : k \in P => k + 1 \in P
  <2> SUFFICES ASSUME NEW k \in Nat, k \in P, k + 1 <= n + 1 PROVE \E g : BlocksEq(g, s, (n + 1) - (k + 1)) OBVIOUS
  <2> DEFINE b == (n + 1) - (k + 1)
  <2>1. b \in 0 .. n /\ b + 1 = (n + 1) - k /\ k <= n + 1 OBVIOUS
  <2>2. PICK f : BlocksEq(f, s, b + 1) BY <2>1
  <2> HIDE DEF b, P
  <2> QED BY <2>1, <2>2, BlocksGrow DEF b
<1> HIDE DEF P
<1>3. n + 1 \in P BY <1>1, <1>2, Induction
<1>4. \E g : BlocksEq(g, s, 0)
  <2>1. (n + 1) - (n + 1) = 0 /\ n + 1 <= n + 1 OBVIOUS
  <2> QED BY <1>3, <2>1 DEF P
<1> DEFINE g == CHOOSE h : BlocksEq(h, s, 0)
<1>5. BlocksEq(g, s, 0) BY <1>4, Zenon
<1>6. Descendants(s) = g[0] BY Zenon DEF Descendants, BlocksEq, Block
<1> QED BY <1>5, <1>6

(* The worklist of any log is a list.                                      *)
Children(s) == {Child(s, i) : i \in 0 .. Len(s)}

LEMMA DescendantsType ==
  ASSUME NEW s, Len(s) \in Nat
  PROVE  Descendants(s) \in Seq(Children(s))
<1> DEFINE n == Len(s)
           X == Children(s)
<1>1. PICK g : BlocksEq(g, s, 0) /\ Descendants(s) = g[0] BY DescendantsIs
<1>2. \A i \in 0 .. n : g[i] = Block(s, g, i) BY <1>1 DEF BlocksEq
<1>3. \A i \in 0 .. n : Child(s, i) \in X BY DEF Children
<1> HIDE DEF X
<1> DEFINE P == {k \in Nat : \A i \in 0 .. n : i >= (n + 1) - k => g[i] \in Seq(X)}
<1>4. 0 \in P
  <2>1. \A i \in 0 .. n : ~(i >= (n + 1) - 0) OBVIOUS
  <2> QED BY <2>1
<1>5. \A k \in Nat : k \in P => k + 1 \in P
  <2> SUFFICES ASSUME NEW k \in Nat, k \in P PROVE k + 1 \in P OBVIOUS
  <2> SUFFICES ASSUME NEW i \in 0 .. n, i >= (n + 1) - (k + 1) PROVE g[i] \in Seq(X)
    <3>1. k + 1 \in Nat OBVIOUS
    <3> QED BY <3>1
  <2>1. \A j \in i + 1 .. n : j \in 0 .. n /\ j >= (n + 1) - k OBVIOUS
  <2>2. \A j \in i + 1 .. n : g[j] \in Seq(X) BY <2>1
  <2> DEFINE F == Forks(s, i)
             blocks == [j \in F |-> g[j]]
             x == Pick(blocks, F)
  <2>3. F \subseteq i + 1 .. n /\ F \subseteq 1 .. n
    <3>1. F \subseteq i + 1 .. n BY DEF Forks
    <3>2. i + 1 .. n \subseteq 1 .. n OBVIOUS
    <3> QED BY <3>1, <3>2
  <2>4. \A j \in F : blocks[j] \in Seq(X) BY <2>2, <2>3
  <2> HIDE DEF F, blocks, P
  <2>5. ListsAt(x, blocks, F) BY <2>3, PickLists
  <2>6. x \in Seq(Seq(X)) BY <2>4, <2>5, ListIs
  <2> HIDE DEF x
  <2>7. Reverse(x) \in Seq(Seq(X))
    <3>1. Len(x) \in Nat /\ \A l \in 1 .. Len(x) : x[l] \in Seq(X) /\ (Len(x) - l) + 1 \in 1 .. Len(x) BY <2>6
    <3>2. \A l \in 1 .. Len(x) : x[(Len(x) - l) + 1] \in Seq(X) BY <3>1
    <3> QED BY <3>1, <3>2 DEF Reverse
  <2>8. FlattenSeq(Reverse(x)) \in Seq(X) BY <2>7, FlattenType
  <2>9. g[i] = FlattenSeq(Reverse(x)) \o <<Child(s, i)>> BY <1>2 DEF Block, x, blocks, F
  <2>10. <<Child(s, i)>> \in Seq(X) BY <1>3
  <2> QED BY <2>8, <2>9, <2>10
<1> HIDE DEF P
<1>6. n + 1 \in P BY <1>4, <1>5, Induction
<1>7. 0 \in 0 .. n /\ 0 >= (n + 1) - (n + 1) OBVIOUS
<1> QED BY <1>1, <1>6, <1>7 DEF P, X

LEMMA WorklistType ==
  ASSUME NEW s, Len(s) \in Nat
  PROVE  Worklist(s) \in Seq(Children(s))
<1> DEFINE all == Descendants(s)
           X == Children(s)
           crashed == {k \in DOMAIN all : Crashed(s, all[k])}
           failed == {k \in DOMAIN all : FailedExit(s, all[k])}
<1>1. all \in Seq(X) BY DescendantsType
<1>2. Worklist(s) = IF crashed # {} THEN <<all[Min(crashed)]>>
                    ELSE IF failed # {} THEN <<all[Min(failed)]>> \o Pick(all, DOMAIN all \ {Min(failed)})
                    ELSE all
  BY DEF Worklist
<1> HIDE DEF all, X
<1>3. DOMAIN all = 1 .. Len(all) /\ Len(all) \in Nat /\ \A k \in DOMAIN all : k \in Nat /\ all[k] \in X BY <1>1
<1>4. crashed \in SUBSET Nat /\ failed \in SUBSET Nat BY <1>3
<1>5. CASE crashed # {}
  <2>1. Min(crashed) \in DOMAIN all
    <3>1. Min(crashed) \in crashed
      <4> HIDE DEF crashed
      <4> QED BY <1>4, <1>5, MinIs
    <3> QED BY <3>1
  <2>2. <<all[Min(crashed)]>> \in Seq(X) BY <1>3, <2>1
  <2> QED BY <1>2, <1>5, <2>2 DEF X
<1>6. CASE crashed = {} /\ failed # {}
  <2>1. Min(failed) \in DOMAIN all
    <3>1. Min(failed) \in failed
      <4> HIDE DEF failed
      <4> QED BY <1>4, <1>6, MinIs
    <3> QED BY <3>1
  <2>2. <<all[Min(failed)]>> \in Seq(X) BY <1>3, <2>1
  <2> DEFINE at == DOMAIN all \ {Min(failed)}
             x == Pick(all, at)
  <2>3. at \subseteq 1 .. Len(all) /\ Len(all) \in Nat BY <1>3
  <2>4. \A k \in at : all[k] \in X BY <1>3
  <2> HIDE DEF at
  <2>5. ListsAt(x, all, at) BY <2>3, PickLists
  <2> HIDE DEF x
  <2>6. x \in Seq(X) BY <2>4, <2>5, ListIs
  <2> QED BY <1>2, <1>6, <2>2, <2>6 DEF X, x, at
<1>7. CASE crashed = {} /\ failed = {} BY <1>1, <1>2, <1>7 DEF X
<1> QED BY <1>5, <1>6, <1>7
-----------------------------------------------------------------------------
(* The log without its repetitions.  A line that is no close, or any if no *)
(* closes were lost, is in it as the last of its run or as what is like it.*)
Clear(i) == log[i].call # "close" \/ ~Blurred
InRun(i, j) == \A k \in i .. j - 1 : Joins(log[k], log[k + 1])
Alike(i, j) == \A k \in i .. j : SameText(log[i], log[k])

LEMMA SameTextIs ==
  ASSUME NEW a, NEW b, SameText(a, b)
  PROVE  /\ a.call = b.call /\ a.fd = b.fd /\ a.what = b.what /\ a.ret = b.ret
         /\ a.call # "signal" => a.pid = b.pid
BY DEF SameText, Text

LEMMA RunIsAlike ==
  ASSUME Len(log) \in Nat, Merges, NEW i \in 1 .. Len(log), NEW j \in i .. Len(log), InRun(i, j)
  PROVE  log[i].call = log[j].call /\ (Clear(i) => Alike(i, j))
<1> DEFINE P == {d \in Nat : i + d <= j => log[i].call = log[i + d].call /\ (Clear(i) => SameText(log[i], log[i + d]))}
<1>1. 0 \in P
  <2>1. i + 0 = i OBVIOUS
  <2>2. SameText(log[i], log[i]) BY DEF SameText
  <2> QED BY <2>1, <2>2
<1>2. \A d \in Nat : d \in P => d + 1 \in P
  <2> SUFFICES ASSUME NEW d \in Nat, d \in P, i + (d + 1) <= j
               PROVE  log[i].call = log[i + (d + 1)].call /\ (Clear(i) => SameText(log[i], log[i + (d + 1)]))
    OBVIOUS
  <2> DEFINE k == i + d
  <2>1. k \in i .. j - 1 /\ k <= j /\ k \in 1 .. Len(log) - 1 /\ i + (d + 1) = k + 1 OBVIOUS
  <2>2. log[i].call = log[k].call /\ (Clear(i) => SameText(log[i], log[k])) BY <2>1
  <2>3. Joins(log[k], log[k + 1]) BY <2>1 DEF InRun
  <2> HIDE DEF k, P
  <2>4. SameText(log[k], log[k + 1]) \/ (log[k].call = "close" /\ log[k + 1].call = "close") BY <2>3 DEF Joins
  <2>5. log[k].call = log[k + 1].call BY <2>4, SameTextIs
  <2>6. Clear(i) => SameText(log[k], log[k + 1])
    <3>1. CASE log[i].call # "close" BY <2>2, <2>4, <3>1
    <3>2. CASE ~Blurred BY <2>1, <2>3, <3>2 DEF Blurred
    <3> QED BY <3>1, <3>2 DEF Clear
  <2>7. Clear(i) => SameText(log[i], log[k + 1]) BY <2>2, <2>6 DEF SameText
  <2> QED BY <2>1, <2>2, <2>5, <2>7
<1> HIDE DEF P
<1>3. Nat \subseteq P BY <1>1, <1>2, Induction
<1>4. \A k \in i .. j : log[i].call = log[k].call /\ (Clear(i) => SameText(log[i], log[k]))
  <2> SUFFICES ASSUME NEW k \in i .. j PROVE log[i].call = log[k].call /\ (Clear(i) => SameText(log[i], log[k])) OBVIOUS
  <2> DEFINE d == k - i
  <2>1. d \in Nat /\ i + d = k /\ k <= j OBVIOUS
  <2> HIDE DEF d
  <2>2. d \in P BY <1>3, <2>1
  <2> QED BY <2>1, <2>2 DEF P
<1>5. j \in i .. j OBVIOUS
<1> QED BY <1>4, <1>5 DEF Alike

(* Where a run starts and ends.                                            *)
LEMMA RunStartIs ==
  ASSUME Len(log) \in Nat, NEW i \in 1 .. Len(log)
  PROVE  RunStart(log, i) \in 1 .. i /\ InRun(RunStart(log, i), i)
<1> DEFINE S == {j \in 1 .. i : InRun(j, i)}
<1>1. i .. i - 1 = {} /\ i \in 1 .. i OBVIOUS
<1>2. S \in SUBSET Nat /\ S # {} BY <1>1 DEF InRun
<1>3. RunStart(log, i) = Min(S) BY DEF RunStart, InRun
<1>4. Min(S) \in S
  <2> HIDE DEF S
  <2> QED BY <1>2, MinIs
<1> QED BY <1>3, <1>4

LEMMA RunEndIs ==
  ASSUME Len(log) \in Nat, NEW i \in 1 .. Len(log)
  PROVE  LET e == RunEnd(log, i) IN e \in i .. Len(log) /\ InRun(i, e) /\ RunEnd(log, e) = e
<1> DEFINE N == Len(log)
           S(m) == {j \in m .. N : InRun(m, j)}
           e == RunEnd(log, i)
<1>1. \A m \in 1 .. N : RunEnd(log, m) \in S(m) /\ \A j \in S(m) : j <= RunEnd(log, m)
  <2> SUFFICES ASSUME NEW m \in 1 .. N PROVE RunEnd(log, m) \in S(m) /\ \A j \in S(m) : j <= RunEnd(log, m) OBVIOUS
  <2>1. m .. m - 1 = {} /\ m \in m .. N OBVIOUS
  <2>2. S(m) \in SUBSET Nat /\ S(m) # {} /\ \A j \in S(m) : j <= N BY <2>1 DEF InRun
  <2>3. RunEnd(log, m) = Max(S(m)) BY DEF RunEnd, InRun
  <2> HIDE DEF S
  <2> QED BY <2>2, <2>3, MaxIs
<1>2. e \in i .. N /\ InRun(i, e) BY <1>1
<1> HIDE DEF e
<1>3. e \in 1 .. N BY <1>2
<1> DEFINE f == RunEnd(log, e)
<1>4. f \in e .. N /\ InRun(e, f) BY <1>1, <1>3
<1> HIDE DEF f
<1>5. InRun(i, f)
  <2>1. \A k \in i .. f - 1 : k \in i .. e - 1 \/ k \in e .. f - 1 BY <1>2, <1>4
  <2> QED BY <1>2, <1>4, <2>1 DEF InRun
<1>6. f \in i .. N BY <1>2, <1>4
<1>7. f <= e BY <1>1, <1>5, <1>6 DEF e
<1>8. f = e BY <1>2, <1>4, <1>7
<1> QED BY <1>2, <1>8 DEF e, f

(* x is a thinned log: line k of it is line c[k] of the log.               *)
Thinned(x, n, c) ==
  /\ DOMAIN x = 1 .. n /\ c \in [1 .. n -> DOMAIN log] /\ \A k, l \in 1 .. n : k < l => c[k] < c[l]
  /\ \A k \in 1 .. n : x[k].call = log[c[k]].call /\ (Clear(c[k]) => SameText(x[k], log[c[k]]))
  /\ \A i \in DOMAIN log : Clear(i) => \E k \in 1 .. n : i <= c[k] /\ Alike(i, c[k])

LEMMA ThinnedLog ==
  ASSUME Len(log) \in Nat, DOMAIN log = 1 .. Len(log)
  PROVE  \E n \in Nat : \E c : Thinned(TraceLog, n, c)
<1> DEFINE N == Len(log)
<1>1. CASE ~Merges
  <2> DEFINE c == [k \in 1 .. N |-> k]
  <2>1. \A k \in 1 .. N : log[k].call = log[c[k]].call /\ SameText(log[k], log[c[k]]) BY DEF SameText
  <2>2. \A i \in 1 .. N : i <= c[i] /\ Alike(i, c[i])
    <3> SUFFICES ASSUME NEW i \in 1 .. N PROVE i <= c[i] /\ Alike(i, c[i]) OBVIOUS
    <3>1. \A k \in i .. i : k = i OBVIOUS
    <3> QED BY <3>1 DEF Alike, SameText
  <2>3. TraceLog = log BY <1>1 DEF TraceLog
  <2>4. c \in [1 .. N -> 1 .. N] /\ \A k, l \in 1 .. N : k < l => c[k] < c[l] OBVIOUS
  <2> HIDE DEF c
  <2>5. Thinned(log, N, c) BY <2>1, <2>2, <2>4 DEF Thinned
  <2> QED BY <2>3, <2>5
<1>2. CASE Merges
  <2> DEFINE at == {i \in 1 .. N : RunEnd(log, i) - RunStart(log, i) + 1 < Collapse \/ i = RunEnd(log, i)}
             s == [i \in 1 .. N |-> log[RunStart(log, i)]]
             x == Pick(s, at)
  <2>1. TraceLog = x BY <1>2 DEF TraceLog, Merged
  <2>2. at \subseteq 1 .. N /\ \A i \in 1 .. N : i = RunEnd(log, i) => i \in at OBVIOUS
  <2>3. \A i \in 1 .. N : s[i] = log[RunStart(log, i)] OBVIOUS
  <2> HIDE DEF at, s
  <2>4. ListsAt(x, s, at) BY <2>2, PickLists
  <2> HIDE DEF x
  <2>n. PICK n \in Nat : \E c : Order(c, n, at) /\ x = [k \in 1 .. n |-> s[c[k]]] BY <2>4 DEF ListsAt
  <2>5. PICK c : Order(c, n, at) /\ x = [k \in 1 .. n |-> s[c[k]]] BY <2>n
  <2>6. DOMAIN x = 1 .. n /\ \A k \in 1 .. n : x[k] = s[c[k]] BY <2>5
  <2>7. /\ c \in [1 .. n -> at] /\ \A k, l \in 1 .. n : k < l => c[k] < c[l]
        /\ \A e \in at : \E k \in 1 .. n : c[k] = e
    BY <2>5 DEF Order
  <2>8. \A k \in 1 .. n : x[k].call = log[c[k]].call /\ (Clear(c[k]) => SameText(x[k], log[c[k]]))
    <3> SUFFICES ASSUME NEW k \in 1 .. n
                 PROVE  x[k].call = log[c[k]].call /\ (Clear(c[k]) => SameText(x[k], log[c[k]]))
      OBVIOUS
    <3> DEFINE i == c[k]
               r == RunStart(log, i)
    <3>1. i \in 1 .. N BY <2>2, <2>7
    <3>2. x[k] = log[r] BY <2>3, <2>6, <3>1
    <3> HIDE DEF i
    <3>3. r \in 1 .. i /\ InRun(r, i) BY <3>1, RunStartIs
    <3> HIDE DEF r
    <3>4. r \in 1 .. N /\ i \in r .. N BY <3>1, <3>3
    <3>5. log[r].call = log[i].call /\ (Clear(r) => Alike(r, i)) BY <1>2, <3>3, <3>4, RunIsAlike
    <3>6. Clear(i) => Clear(r) BY <3>5 DEF Clear
    <3>7. i \in r .. i BY <3>1, <3>3
    <3>8. Clear(i) => SameText(log[r], log[i]) BY <3>5, <3>6, <3>7 DEF Alike
    <3> QED BY <3>2, <3>5, <3>8 DEF i
  <2>9. \A i \in 1 .. N : Clear(i) => \E k \in 1 .. n : i <= c[k] /\ Alike(i, c[k])
    <3> SUFFICES ASSUME NEW i \in 1 .. N, Clear(i) PROVE \E k \in 1 .. n : i <= c[k] /\ Alike(i, c[k]) OBVIOUS
    <3> DEFINE e == RunEnd(log, i)
    <3>1. e \in i .. N /\ InRun(i, e) /\ RunEnd(log, e) = e BY RunEndIs
    <3> HIDE DEF e
    <3>2. e \in 1 .. N BY <3>1
    <3>3. Alike(i, e) BY <1>2, <3>1, RunIsAlike
    <3>4. e \in at BY <2>2, <3>1, <3>2
    <3>5. PICK k \in 1 .. n : c[k] = e BY <2>7, <3>4
    <3> QED BY <3>1, <3>3, <3>5
  <2>10. c \in [1 .. n -> 1 .. N] BY <2>2, <2>7
  <2>11. Thinned(x, n, c) BY <2>6, <2>7, <2>8, <2>9, <2>10 DEF Thinned
  <2> QED BY <2>1, <2>11
<1> QED BY <1>1, <1>2
(* The events of a process: line k of h is line d[k] of the log.           *)
Traced(h, p, n, d) ==
  /\ DOMAIN h = 1 .. n /\ d \in [1 .. n -> DOMAIN log] /\ \A k, l \in 1 .. n : k < l => d[k] < d[l]
  /\ \A k \in 1 .. n :
       /\ h[k].call = log[d[k]].call /\ (Clear(d[k]) => SameText(h[k], log[d[k]]))
       /\ h[k].call # "signal" /\ Clear(d[k]) => log[d[k]].pid = p
  /\ \A i \in DOMAIN log :
       Clear(i) /\ log[i].pid = p /\ log[i].call # "signal" /\ Kept(log[i])
         => \E k \in 1 .. n : i <= d[k] /\ Alike(i, d[k])

LEMMA TracedEvents ==
  ASSUME Len(log) \in Nat, DOMAIN log = 1 .. Len(log), NEW p
  PROVE  \E n \in Nat : \E d : Traced(Events(TraceLog, p), p, n, d)
<1> DEFINE x == TraceLog
<1>n. PICK m \in Nat : \E c : Thinned(x, m, c) BY ThinnedLog
<1>1. PICK c : Thinned(x, m, c) BY <1>n
<1> HIDE DEF x
<1> DEFINE at == {i \in 1 .. m : Owner(x, i) = p /\ Kept(x[i])}
           h == Pick(x, at)
<1>2. Events(x, p) = h BY <1>1 DEF Events, Thinned
<1>3. at \subseteq 1 .. m OBVIOUS
<1>4. \A i \in 1 .. m : i \in at <=> Owner(x, i) = p /\ Kept(x[i]) OBVIOUS
<1> HIDE DEF at
<1>5. ListsAt(h, x, at) BY <1>3, PickLists
<1> HIDE DEF h
<1>e. PICK n \in Nat : \E e : Order(e, n, at) /\ h = [k \in 1 .. n |-> x[e[k]]] BY <1>5 DEF ListsAt
<1>6. PICK e : Order(e, n, at) /\ h = [k \in 1 .. n |-> x[e[k]]] BY <1>e
<1>7. /\ e \in [1 .. n -> at] /\ \A k, l \in 1 .. n : k < l => e[k] < e[l]
      /\ \A i \in at : \E k \in 1 .. n : e[k] = i
  BY <1>6 DEF Order
<1>8. /\ c \in [1 .. m -> DOMAIN log] /\ \A k, l \in 1 .. m : k < l => c[k] < c[l]
      /\ \A k \in 1 .. m : x[k].call = log[c[k]].call /\ (Clear(c[k]) => SameText(x[k], log[c[k]]))
      /\ \A i \in DOMAIN log : Clear(i) => \E k \in 1 .. m : i <= c[k] /\ Alike(i, c[k])
  BY <1>1 DEF Thinned
<1> DEFINE d == [k \in 1 .. n |-> c[e[k]]]
<1>9. \A k \in 1 .. n : e[k] \in 1 .. m /\ e[k] \in at /\ h[k] = x[e[k]] BY <1>3, <1>6, <1>7
<1>10. d \in [1 .. n -> DOMAIN log] /\ \A k \in 1 .. n : d[k] = c[e[k]] BY <1>8, <1>9
<1> HIDE DEF d
<1>11. \A k, l \in 1 .. n : k < l => d[k] < d[l] BY <1>7, <1>8, <1>9, <1>10
<1>12. \A k \in 1 .. n :
         /\ h[k].call = log[d[k]].call /\ (Clear(d[k]) => SameText(h[k], log[d[k]]))
         /\ h[k].call # "signal" /\ Clear(d[k]) => log[d[k]].pid = p
  <2> SUFFICES ASSUME NEW k \in 1 .. n
               PROVE  /\ h[k].call = log[d[k]].call /\ (Clear(d[k]) => SameText(h[k], log[d[k]]))
                      /\ h[k].call # "signal" /\ Clear(d[k]) => log[d[k]].pid = p
    OBVIOUS
  <2>1. h[k].call = log[d[k]].call /\ (Clear(d[k]) => SameText(h[k], log[d[k]])) BY <1>8, <1>9, <1>10
  <2>2. Owner(x, e[k]) = p BY <1>4, <1>9
  <2>3. h[k].call # "signal" => h[k].pid = p BY <1>9, <2>2 DEF Owner
  <2>4. h[k].call # "signal" /\ Clear(d[k]) => log[d[k]].pid = p
    <3> SUFFICES ASSUME h[k].call # "signal", Clear(d[k]) PROVE log[d[k]].pid = p OBVIOUS
    <3>1. h[k].pid = log[d[k]].pid BY <2>1, SameTextIs
    <3> QED BY <2>3, <3>1
  <2> QED BY <2>1, <2>4
<1>13. \A i \in DOMAIN log :
         Clear(i) /\ log[i].pid = p /\ log[i].call # "signal" /\ Kept(log[i])
           => \E k \in 1 .. n : i <= d[k] /\ Alike(i, d[k])
  <2> SUFFICES ASSUME NEW i \in DOMAIN log, Clear(i), log[i].pid = p, log[i].call # "signal", Kept(log[i])
               PROVE  \E k \in 1 .. n : i <= d[k] /\ Alike(i, d[k])
    OBVIOUS
  <2>1. PICK l \in 1 .. m : i <= c[l] /\ Alike(i, c[l]) BY <1>8
  <2> DEFINE j == c[l]
  <2>2. j \in DOMAIN log /\ j \in i .. j
    <3>1. j \in DOMAIN log BY <1>8
    <3> QED BY <2>1, <3>1
  <2>3. SameText(log[i], log[j]) BY <2>1, <2>2 DEF Alike
  <2>4. SameText(x[l], log[j]) \/ ~Clear(j) BY <1>8
  <2> HIDE DEF j
  <2>5. log[j].call = log[i].call /\ log[j].ret = log[i].ret /\ log[j].pid = p BY <2>3, SameTextIs
  <2>6. Clear(j) BY <2>5 DEF Clear
  <2>7. x[l].call = log[i].call /\ x[l].ret = log[i].ret /\ x[l].pid = p BY <2>4, <2>5, <2>6, SameTextIs
  <2>8. Owner(x, l) = p /\ Kept(x[l]) BY <2>7 DEF Owner, Kept
  <2>9. PICK k \in 1 .. n : e[k] = l BY <1>4, <1>7, <2>8
  <2>10. d[k] = j BY <1>10, <2>9 DEF j
  <2> QED BY <2>1, <2>10 DEF j
<1>14. Traced(h, p, n, d) BY <1>6, <1>10, <1>11, <1>12, <1>13 DEF Traced
<1> QED BY <1>2, <1>14 DEF x

(* Between two events there are at least as many lines of the log.         *)
LEMMA NoFartherApart ==
  ASSUME NEW n \in Nat, NEW d \in [1 .. n -> Nat], \A k, l \in 1 .. n : k < l => d[k] < d[l],
         NEW a \in 1 .. n, NEW b \in a .. n
  PROVE  b - a <= d[b] - d[a]
<1> DEFINE P == {m \in Nat : a + m <= n => m <= d[a + m] - d[a]}
<1>1. 0 \in P
  <2>1. a + 0 = a /\ d[a] \in Nat OBVIOUS
  <2> QED BY <2>1
<1>2. \A m \in Nat : m \in P => m + 1 \in P
  <2> SUFFICES ASSUME NEW m \in Nat, m \in P, a + (m + 1) <= n PROVE m + 1 <= d[a + (m + 1)] - d[a] OBVIOUS
  <2> DEFINE k == a + m
             l == a + (m + 1)
  <2>1. k \in 1 .. n /\ l \in 1 .. n /\ k < l /\ k <= n OBVIOUS
  <2>2. m <= d[k] - d[a] BY <2>1
  <2> HIDE DEF k, l, P
  <2>3. d[k] \in Nat /\ d[l] \in Nat /\ d[a] \in Nat /\ d[k] < d[l] BY <2>1
  <2> QED BY <2>2, <2>3 DEF l
<1> HIDE DEF P
<1> DEFINE m == b - a
<1>3. m \in Nat /\ a + m = b /\ b <= n OBVIOUS
<1> HIDE DEF m
<1>4. m \in P BY <1>1, <1>2, <1>3, Induction
<1> QED BY <1>3, <1>4 DEF P, m
-----------------------------------------------------------------------------
(* What is true of the log, the descriptors and the processes after any    *)
(* number of calls.                                                        *)
SocketCall == {"connect", "recv", "recvfrom", "select", "poll"}
OnFdCall == {"read", "close"} \cup SocketCall
Gives(line) == line.call = "socket" \/ IsOpened(line)
Closes(i, p, fd) == log[i].call = "close" /\ log[i].pid = p /\ log[i].fd = fd
KeptOpen(i, to) == Gives(log[i]) /\ \A c \in i + 1 .. to : ~Closes(c, log[i].pid, log[i].fd)

(* A descriptor was given by a line of the log; the object of a line that  *)
(* uses one was.                                                           *)
GivenInv ==
  /\ \A i \in DOMAIN log : Gives(log[i]) => log[i].on = i /\ log[i].fd \in Fd
  /\ \A i \in DOMAIN log : log[i].call \in OnFdCall =>
       /\ log[i].on \in 1 .. i - 1 /\ Gives(log[log[i].on]) /\ log[log[i].on].fd = log[i].fd
       /\ log[i].call \in SocketCall => log[log[i].on].call = "socket"
  /\ \A p \in Pid : \A fd \in DOMAIN fds[p] :
       /\ fds[p][fd].born \in DOMAIN log /\ Gives(log[fds[p][fd].born]) /\ log[fds[p][fd].born].fd = fd
       /\ fds[p][fd].kind = "socket" => log[fds[p][fd].born].call = "socket"

(* What a process has opened and not closed is there; what it uses is what *)
(* it opened, until it closes it.                                          *)
OpenInv ==
  /\ \A i \in DOMAIN log : KeptOpen(i, Len(log)) =>
       log[i].fd \in DOMAIN fds[log[i].pid] /\ fds[log[i].pid][log[i].fd].born = i
  /\ \A i, j \in DOMAIN log :
       i < j /\ KeptOpen(i, j - 1) /\ log[j].call \in OnFdCall /\ log[j].pid = log[i].pid /\ log[j].fd = log[i].fd
         => log[j].on = i

(* What it has closed is gone, and it does not close it twice in a row.    *)
ClosedInv ==
  /\ \A i \in DOMAIN log : log[i].call = "close" =>
       /\ \A fd \in DOMAIN fds[log[i].pid] : fds[log[i].pid][fd].born # log[i].on
       /\ i = Len(log) => log[i].fd \notin DOMAIN fds[log[i].pid]
  /\ \A i, j \in DOMAIN log :
       i < j /\ log[i].call = "close" /\ log[j].pid = log[i].pid =>
         /\ log[j].on # log[i].on
         /\ j = i + 1 => ~Closes(j, log[i].pid, log[i].fd)

(* A process writes only while it runs.                                    *)
Stopped == {"end", "blocked"}
ProcessInv ==
  /\ \A i \in DOMAIN log : state[log[i].pid] # "unborn"
  /\ \A i \in DOMAIN log : log[i].ret \in Stopped => state[log[i].pid] # "runs"
  /\ \A i, j \in DOMAIN log : i < j /\ log[j].pid = log[i].pid => log[i].ret \notin Stopped

(* The results that the properties are about, and what the files and the   *)
(* peers have to do with them.                                             *)
ResultInv ==
  \A i \in DOMAIN log :
    /\ log[i].ret = "refused" => log[i].call = "connect"
    /\ log[i].ret = "blocked" => log[i].call \in Waiting
    /\ log[i].call = "signal" => log[i].ret = "end"
    /\ log[i].call = "exit" => log[i].ret = "end"
    /\ log[i].call = "open" /\ log[i].ret = "missing" => content[log[i].what] = "missing"
    /\ log[i].call = "connect" => log[i].fd \in DOMAIN connectFd

FirstInv == tracePc = "run" /\ round = 1 => fixed = {} /\ found = None

(* What a call adds to the log and does to the descriptors: one it gives,  *)
(* one it closes, and those that a child has of its parent.                *)
LineOK(line) ==
  /\ line.pid \in Pid /\ line.fd \in Nat /\ line.on \in Nat
  /\ line.call = "open" => line.what \in File
  /\ line.call = "ioctl" => line.what \in Device
NewLine(l) ==
  /\ log' = Append(log, l) /\ LineOK(l)
  /\ Gives(l) => l.fd \in Fd /\ l.on = Len(log) + 1
  /\ l.call \in OnFdCall =>
       /\ l.fd \in DOMAIN fds[l.pid] /\ l.on = fds[l.pid][l.fd].born
       /\ l.call \in SocketCall => fds[l.pid][l.fd].kind = "socket"
  /\ ~Gives(l) /\ l.call \notin OnFdCall => l.on = 0
  /\ l.ret = "refused" => l.call = "connect"
  /\ l.ret = "blocked" => l.call \in Waiting
  /\ l.call \in {"signal", "exit"} => l.ret = "end"
  /\ l.call = "open" /\ l.ret = "missing" => content[l.what] = "missing"
Files(l) ==
  /\ fds' \in [Pid -> Range(fds')] /\ \A q \in Pid : IsTable(fds'[q])
  /\ Gives(l) => l.fd \in DOMAIN fds'[l.pid] /\ fds'[l.pid][l.fd].born = Len(log) + 1
  /\ \A q \in Pid : \A fd \in DOMAIN fds'[q] :
       \/ /\ q = l.pid /\ fd = l.fd /\ Gives(l) /\ fds'[q][fd].born = Len(log) + 1
          /\ fds'[q][fd].kind = "socket" => l.call = "socket"
       \/ \E r \in Pid : /\ r = q \/ state[q] = "unborn"
                         /\ fd \in DOMAIN fds[r] /\ fds'[q][fd].born = fds[r][fd].born
                         /\ fds'[q][fd].kind = fds[r][fd].kind
                         /\ ~(l.call = "close" /\ q = l.pid /\ fd = l.fd)
  /\ \A q \in Pid : \A fd \in DOMAIN fds[q] :
       \/ state[q] = "unborn" \/ (l.call = "close" /\ q = l.pid /\ fd = l.fd)
       \/ fd \in DOMAIN fds'[q] /\ fds'[q][fd].born = fds[q][fd].born
Others(l) ==
  /\ state' \in [Pid -> {"unborn", "runs", "blocked", "gone"}] /\ state[l.pid] = "runs" /\ state'[l.pid] # "unborn"
  /\ l.ret \in Stopped => state'[l.pid] # "runs"
  /\ \A q \in Pid : q # l.pid => state'[q] = state[q] \/ (state[q] = "unborn" /\ state'[q] = "runs")
  /\ connectFd' \in [DOMAIN connectFd' -> Service] /\ DOMAIN connectFd' \subseteq Fd
  /\ DOMAIN connectFd \subseteq DOMAIN connectFd' /\ (l.call = "connect" => l.fd \in DOMAIN connectFd')
  /\ atEnd' \subseteq Nat /\ firmware' = firmware /\ locator' = locator /\ tracePc = "run"
Step(l) == NewLine(l) /\ Files(l) /\ Others(l)

LEMMA WithType ==
  ASSUME NEW f, NEW d, NEW S, NEW x \in S, \A e \in DOMAIN f : f[e] \in S
  PROVE  With(f, d, x) \in [DOMAIN f \cup {d} -> S]
BY DEF With

LEMMA LogType ==
  ASSUME TraceTypeOK
  PROVE  Len(log) \in Nat /\ DOMAIN log = 1 .. Len(log)
BY DEF TraceTypeOK

LEMMA FilesType ==
  ASSUME TraceTypeOK, NEW p \in Pid
  PROVE  /\ fds \in [Pid -> Range(fds)] /\ DOMAIN fds[p] \subseteq Fd
         /\ \A fd \in DOMAIN fds[p] : fds[p][fd] \in Object /\ fd \in Nat
BY NumberAssumption DEF TraceTypeOK, IsTable

(* A process of which the descriptors change, and the others.              *)
LEMMA Changed ==
  ASSUME TraceTypeOK, NEW p \in Pid, NEW t, IsTable(t), fds' = [fds EXCEPT ![p] = t]
  PROVE  /\ fds' \in [Pid -> Range(fds')] /\ \A q \in Pid : IsTable(fds'[q])
         /\ fds'[p] = t /\ \A q \in Pid : q # p => fds'[q] = fds[q]
<1>1. fds \in [Pid -> Range(fds)] /\ \A q \in Pid : IsTable(fds[q]) BY DEF TraceTypeOK
<1>2. DOMAIN fds' = Pid /\ fds'[p] = t /\ \A q \in Pid : q # p => fds'[q] = fds[q] BY <1>1
<1>3. \A q \in Pid : IsTable(fds'[q]) BY <1>1, <1>2
<1>4. fds' \in [Pid -> Range(fds')]
  <2>1. fds' = [q \in Pid |-> fds'[q]] BY <1>1
  <2>2. \A q \in Pid : fds'[q] \in Range(fds') BY <1>2 DEF Range
  <2> QED BY <2>1, <2>2
<1> QED BY <1>2, <1>3, <1>4

LEMMA GiveIs ==
  ASSUME TraceTypeOK, NEW p \in Pid, NEW o \in Object, FreeFd(p) # {}, Give(p, o)
  PROVE  LET m == Min(FreeFd(p)) IN
         /\ fds' \in [Pid -> Range(fds')] /\ \A q \in Pid : IsTable(fds'[q])
         /\ m \in Fd /\ m \in Nat /\ m \notin DOMAIN fds[p]
         /\ DOMAIN fds'[p] = DOMAIN fds[p] \cup {m} /\ fds'[p][m] = o
         /\ \A fd \in DOMAIN fds[p] : fds'[p][fd] = fds[p][fd]
         /\ \A q \in Pid : q # p => fds'[q] = fds[q]
<1> DEFINE m == Min(FreeFd(p))
           t == With(fds[p], m, o)
<1>1. FreeFd(p) \in SUBSET Nat BY NumberAssumption DEF FreeFd
<1>2. m \in FreeFd(p) BY <1>1, MinIs
<1> HIDE DEF m
<1>3. m \in Fd /\ m \in Nat /\ m \notin DOMAIN fds[p] BY <1>1, <1>2 DEF FreeFd
<1>4. DOMAIN fds[p] \subseteq Fd /\ \A fd \in DOMAIN fds[p] : fds[p][fd] \in Object BY FilesType
<1>5. IsTable(t)
  <2>1. DOMAIN t = DOMAIN fds[p] \cup {m} BY DEF With
  <2>2. t \in [DOMAIN t -> Object]
    <3> DEFINE D == DOMAIN t
    <3> HIDE DEF D, t
    <3>1. D = DOMAIN fds[p] \cup {m} BY <2>1 DEF D
    <3>2. t \in [D -> Object]
      <4> DEFINE f == fds[p]
      <4>1. \A e \in DOMAIN f : f[e] \in Object BY <1>4
      <4> HIDE DEF f
      <4>2. With(f, m, o) \in [DOMAIN f \cup {m} -> Object] BY <4>1, WithType
      <4> QED BY <3>1, <4>2 DEF t, f
    <3> QED BY <3>2 DEF D
  <2> QED BY <1>3, <1>4, <2>1, <2>2 DEF IsTable
<1>6. fds' = [fds EXCEPT ![p] = t] BY FilesType DEF Give, m
<1> HIDE DEF t
<1>7. /\ fds' \in [Pid -> Range(fds')] /\ \A q \in Pid : IsTable(fds'[q])
      /\ fds'[p] = t /\ \A q \in Pid : q # p => fds'[q] = fds[q]
  BY <1>5, <1>6, Changed
<1>8. DOMAIN t = DOMAIN fds[p] \cup {m} /\ t[m] = o /\ \A fd \in DOMAIN fds[p] : t[fd] = fds[p][fd]
  <2> DEFINE f == fds[p]
  <2>1. m \notin DOMAIN f BY <1>3
  <2> HIDE DEF f
  <2>2. DOMAIN With(f, m, o) = DOMAIN f \cup {m} /\ With(f, m, o)[m] = o BY DEF With
  <2>3. \A e \in DOMAIN f : With(f, m, o)[e] = f[e] BY <2>1 DEF With
  <2> QED BY <2>2, <2>3 DEF t, f
<1> QED BY <1>3, <1>7, <1>8 DEF m

LEMMA LinkIs ==
  ASSUME TraceTypeOK, NEW p \in Pid, NEW fd \in DOMAIN fds[p], Link(p, fd)
  PROVE  /\ fds' \in [Pid -> Range(fds')] /\ \A q \in Pid : IsTable(fds'[q])
         /\ \A q \in Pid : DOMAIN fds'[q] = DOMAIN fds[q]
         /\ \A q \in Pid : \A d \in DOMAIN fds[q] : fds'[q][d].born = fds[q][d].born /\ fds'[q][d].kind = fds[q][d].kind
<1> DEFINE t == [fds[p] EXCEPT ![fd].linked = TRUE]
<1>1. fds' = [fds EXCEPT ![p] = t] BY FilesType DEF Link
<1>2. DOMAIN fds[p] \subseteq Fd /\ \A d \in DOMAIN fds[p] : fds[p][d] \in Object BY FilesType
<1>3. fds[p] \in [DOMAIN fds[p] -> Object] BY DEF TraceTypeOK, IsTable
<1>4. DOMAIN t = DOMAIN fds[p] /\ \A d \in DOMAIN fds[p] :
        t[d] \in Object /\ t[d].born = fds[p][d].born /\ t[d].kind = fds[p][d].kind
  BY <1>2, <1>3 DEF Object
<1>5. t \in [DOMAIN t -> Object] BY <1>3, <1>4
<1> HIDE DEF t
<1>6. IsTable(t) BY <1>2, <1>4, <1>5 DEF IsTable
<1>7. /\ fds' \in [Pid -> Range(fds')] /\ \A q \in Pid : IsTable(fds'[q])
      /\ fds'[p] = t /\ \A q \in Pid : q # p => fds'[q] = fds[q]
  BY <1>1, <1>6, Changed
<1> QED BY <1>4, <1>7

LEMMA TakeIs ==
  ASSUME TraceTypeOK, NEW p \in Pid, NEW fd \in DOMAIN fds[p], Take(p, fd)
  PROVE  /\ fds' \in [Pid -> Range(fds')] /\ \A q \in Pid : IsTable(fds'[q])
         /\ DOMAIN fds'[p] = DOMAIN fds[p] \ {fd} /\ \A d \in DOMAIN fds[p] : d # fd => fds'[p][d] = fds[p][d]
         /\ \A q \in Pid : q # p => fds'[q] = fds[q]
<1> DEFINE t == [d \in DOMAIN fds[p] \ {fd} |-> fds[p][d]]
<1>1. fds' = [fds EXCEPT ![p] = t] BY FilesType DEF Take
<1>2. DOMAIN fds[p] \subseteq Fd /\ \A d \in DOMAIN fds[p] : fds[p][d] \in Object BY FilesType
<1>3. IsTable(t) BY <1>2 DEF IsTable
<1>4. DOMAIN t = DOMAIN fds[p] \ {fd} /\ \A d \in DOMAIN fds[p] : d # fd => t[d] = fds[p][d] OBVIOUS
<1> HIDE DEF t
<1>5. /\ fds' \in [Pid -> Range(fds')] /\ \A q \in Pid : IsTable(fds'[q])
      /\ fds'[p] = t /\ \A q \in Pid : q # p => fds'[q] = fds[q]
  BY <1>1, <1>3, Changed
<1> QED BY <1>4, <1>5
-----------------------------------------------------------------------------
(* Every call is such a step.                                              *)
LEMMA SameFiles ==
  ASSUME TraceTypeOK, fds' = fds, NEW l, ~Gives(l), l.call # "close"
  PROVE  Files(l)
<1>1. fds \in [Pid -> Range(fds)] /\ \A q \in Pid : IsTable(fds[q]) BY DEF TraceTypeOK
<1>2. fds' \in [Pid -> Range(fds')] /\ \A q \in Pid : IsTable(fds'[q]) BY <1>1
<1>3. \A q \in Pid : \A fd \in DOMAIN fds'[q] :
        \E r \in Pid : /\ r = q \/ state[q] = "unborn"
                       /\ fd \in DOMAIN fds[r] /\ fds'[q][fd].born = fds[r][fd].born
                       /\ fds'[q][fd].kind = fds[r][fd].kind
                       /\ ~(l.call = "close" /\ q = l.pid /\ fd = l.fd)
  OBVIOUS
<1>4. \A q \in Pid : \A fd \in DOMAIN fds[q] : fd \in DOMAIN fds'[q] /\ fds'[q][fd].born = fds[q][fd].born OBVIOUS
<1> QED BY <1>2, <1>3, <1>4 DEF Files

LEMMA LinkedFiles ==
  ASSUME TraceTypeOK, NEW l, l.pid \in Pid, l.fd \in DOMAIN fds[l.pid], Link(l.pid, l.fd), ~Gives(l), l.call # "close"
  PROVE  Files(l)
<1> DEFINE p == l.pid
           d == l.fd
<1>1. p \in Pid /\ d \in DOMAIN fds[p] /\ Link(p, d) OBVIOUS
<1> HIDE DEF p, d
<1>2. /\ fds' \in [Pid -> Range(fds')] /\ \A q \in Pid : IsTable(fds'[q])
      /\ \A q \in Pid : DOMAIN fds'[q] = DOMAIN fds[q]
      /\ \A q \in Pid : \A e \in DOMAIN fds[q] : fds'[q][e].born = fds[q][e].born /\ fds'[q][e].kind = fds[q][e].kind
  BY <1>1, LinkIs
<1>3. \A q \in Pid : \A fd \in DOMAIN fds'[q] :
        \E r \in Pid : /\ r = q \/ state[q] = "unborn"
                       /\ fd \in DOMAIN fds[r] /\ fds'[q][fd].born = fds[r][fd].born
                       /\ fds'[q][fd].kind = fds[r][fd].kind
                       /\ ~(l.call = "close" /\ q = l.pid /\ fd = l.fd)
  BY <1>2
<1>4. \A q \in Pid : \A fd \in DOMAIN fds[q] : fd \in DOMAIN fds'[q] /\ fds'[q][fd].born = fds[q][fd].born BY <1>2
<1> QED BY <1>2, <1>3, <1>4 DEF Files

LEMMA SameOthers ==
  ASSUME TraceTypeOK, NEW l, l.pid \in Pid, state[l.pid] = "runs", tracePc = "run", state' = state, atEnd' \subseteq Nat,
         connectFd' = connectFd, firmware' = firmware, locator' = locator, l.ret \notin Stopped, l.call # "connect"
  PROVE  Others(l)
<1>1. /\ state \in [Pid -> {"unborn", "runs", "blocked", "gone"}]
      /\ connectFd \in [DOMAIN connectFd -> Service] /\ DOMAIN connectFd \subseteq Fd
  BY DEF TraceTypeOK
<1>2. state' \in [Pid -> {"unborn", "runs", "blocked", "gone"}] /\ state'[l.pid] # "unborn" BY <1>1
<1>3. connectFd' \in [DOMAIN connectFd' -> Service] /\ DOMAIN connectFd' \subseteq Fd BY <1>1
<1>4. \A q \in Pid : state'[q] = state[q] OBVIOUS
<1> QED BY <1>2, <1>3, <1>4 DEF Others

(* A process that stops, or waits.                                         *)
LEMMA StopOthers ==
  ASSUME TraceTypeOK, NEW p \in Pid, NEW to \in {"blocked", "gone"}, NEW l, l.pid = p, state[p] = "runs", tracePc = "run",
         state' = [state EXCEPT ![p] = to], atEnd' = atEnd,
         connectFd' = connectFd, firmware' = firmware, locator' = locator, l.call # "connect"
  PROVE  Others(l)
<1>1. /\ state \in [Pid -> {"unborn", "runs", "blocked", "gone"}] /\ atEnd \subseteq Nat
      /\ connectFd \in [DOMAIN connectFd -> Service] /\ DOMAIN connectFd \subseteq Fd
  BY DEF TraceTypeOK
<1>2. state' \in [Pid -> {"unborn", "runs", "blocked", "gone"}] /\ state'[p] = to BY <1>1
<1>3. \A q \in Pid : q # p => state'[q] = state[q] BY <1>1
<1>4. connectFd' \in [DOMAIN connectFd' -> Service] /\ DOMAIN connectFd' \subseteq Fd /\ atEnd' \subseteq Nat BY <1>1
<1> QED BY <1>2, <1>3, <1>4 DEF Others

(* A call that is about no descriptor.                                     *)
Plain == {"ioctl", "shmat", "exec", "exit", "signal", "fork"}

LEMMA PlainLine ==
  ASSUME NEW p \in Pid, NEW call \in Plain, NEW what, NEW ret, Write(p, call, 0, what, ret, 0),
         call = "ioctl" => what \in Device, ret \notin {"refused", "blocked"}, call \in {"signal", "exit"} => ret = "end"
  PROVE  LET l == [pid |-> p, call |-> call, fd |-> 0, what |-> what, ret |-> ret, on |-> 0]
         IN  NewLine(l) /\ l.pid = p /\ l.ret = ret /\ ~Gives(l) /\ l.call # "close" /\ l.call # "connect"
<1> DEFINE l == [pid |-> p, call |-> call, fd |-> 0, what |-> what, ret |-> ret, on |-> 0]
<1>1. l.pid = p /\ l.call = call /\ l.fd = 0 /\ l.what = what /\ l.ret = ret /\ l.on = 0 OBVIOUS
<1>2. log' = Append(log, l) BY DEF Write
<1> HIDE DEF l
<1>3. l.call \notin OnFdCall /\ l.call \notin {"open", "socket", "connect", "close"} BY <1>1 DEF Plain, OnFdCall, SocketCall
<1>4. ~Gives(l) BY <1>3 DEF Gives, IsOpened
<1>5. LineOK(l) BY <1>1, <1>3 DEF LineOK
<1>6. NewLine(l) BY <1>1, <1>2, <1>3, <1>4, <1>5 DEF NewLine
<1> QED BY <1>1, <1>3, <1>4, <1>6 DEF l

(* One that uses a descriptor.                                             *)
LEMMA FdLine ==
  ASSUME TraceTypeOK, NEW p \in Pid, NEW fd \in DOMAIN fds[p], NEW call \in OnFdCall, NEW ret, 
         Write(p, call, fd, "", ret, fds[p][fd].born), call \in SocketCall => fds[p][fd].kind = "socket",
         ret = "refused" => call = "connect", ret = "blocked" => call \in Waiting
  PROVE  LET l == [pid |-> p, call |-> call, fd |-> fd, what |-> "", ret |-> ret, on |-> fds[p][fd].born]
         IN  NewLine(l) /\ l.pid = p /\ l.fd = fd /\ l.call = call /\ l.ret = ret /\ ~Gives(l)
<1> DEFINE o == fds[p][fd].born
           l == [pid |-> p, call |-> call, fd |-> fd, what |-> "", ret |-> ret, on |-> o]
<1>1. l.pid = p /\ l.call = call /\ l.fd = fd /\ l.ret = ret /\ l.on = o OBVIOUS
<1>2. log' = Append(log, l) BY DEF Write
<1>3. o \in Nat /\ fd \in Nat BY FilesType DEF Object
<1> HIDE DEF l
<1>4. l.call \notin {"open", "socket", "ioctl", "signal", "exit"} BY <1>1 DEF OnFdCall, SocketCall
<1>5. ~Gives(l) BY <1>4 DEF Gives, IsOpened
<1>6. LineOK(l) BY <1>1, <1>3, <1>4 DEF LineOK
<1>7. NewLine(l) BY <1>1, <1>2, <1>4, <1>5, <1>6 DEF NewLine
<1> QED BY <1>1, <1>5, <1>7 DEF l

(* One that gives a descriptor.                                            *)
LEMMA GivingStep ==
  ASSUME TraceTypeOK, NEW p \in Pid, NEW o \in Object, FreeFd(p) # {}, Give(p, o), o.born = Len(log) + 1,
         NEW call, NEW what, call = "socket" \/ (call = "open" /\ what \in File /\ o.kind = "file"),
         Write(p, call, Min(FreeFd(p)), what, "ok", Len(log) + 1), Runs(p), UNCHANGED <<firmware, atEnd, state, connectFd, locator>>
  PROVE  \E l : Step(l)
<1> DEFINE m == Min(FreeFd(p))
           n == Len(log) + 1
           l == [pid |-> p, call |-> call, fd |-> m, what |-> what, ret |-> "ok", on |-> n]
<1>1. l.pid = p /\ l.call = call /\ l.fd = m /\ l.what = what /\ l.ret = "ok" /\ l.on = n OBVIOUS
<1>2. log' = Append(log, l) BY DEF Write
<1>3. /\ fds' \in [Pid -> Range(fds')] /\ \A q \in Pid : IsTable(fds'[q])
      /\ m \in Fd /\ m \in Nat /\ m \notin DOMAIN fds[p]
      /\ DOMAIN fds'[p] = DOMAIN fds[p] \cup {m} /\ fds'[p][m] = o
      /\ \A fd \in DOMAIN fds[p] : fds'[p][fd] = fds[p][fd]
      /\ \A q \in Pid : q # p => fds'[q] = fds[q]
  BY GiveIs
<1>4. n \in Nat BY LogType
<1>5. o.born = n OBVIOUS
<1> HIDE DEF l, m, n
<1>6. Gives(l) /\ l.call \notin OnFdCall /\ l.call \notin {"ioctl", "signal", "exit", "close", "connect"}
  BY <1>1 DEF Gives, IsOpened, OnFdCall, SocketCall
<1>7. LineOK(l) BY <1>1, <1>3, <1>4, <1>6 DEF LineOK
<1>8. NewLine(l)
  <2>1. l.fd \in Fd /\ l.on = Len(log) + 1 BY <1>1, <1>3 DEF n
  <2> QED BY <1>1, <1>2, <1>6, <1>7, <2>1 DEF NewLine
<1>9. Files(l)
  <2>1. l.fd \in DOMAIN fds'[l.pid] /\ fds'[l.pid][l.fd].born = Len(log) + 1 BY <1>1, <1>3, <1>5 DEF n
  <2>2. \A q \in Pid : \A fd \in DOMAIN fds'[q] :
          \/ /\ q = l.pid /\ fd = l.fd /\ Gives(l) /\ fds'[q][fd].born = Len(log) + 1
             /\ fds'[q][fd].kind = "socket" => l.call = "socket"
          \/ \E r \in Pid : /\ r = q \/ state[q] = "unborn"
                            /\ fd \in DOMAIN fds[r] /\ fds'[q][fd].born = fds[r][fd].born
                            /\ fds'[q][fd].kind = fds[r][fd].kind
                            /\ ~(l.call = "close" /\ q = l.pid /\ fd = l.fd)
    <3> SUFFICES ASSUME NEW q \in Pid, NEW fd \in DOMAIN fds'[q], ~(q = l.pid /\ fd = l.fd)
                 PROVE  fd \in DOMAIN fds[q] /\ fds'[q][fd] = fds[q][fd]
      BY <1>1, <1>3, <1>6, <2>1
    <3> QED BY <1>1, <1>3
  <2>3. \A q \in Pid : \A fd \in DOMAIN fds[q] : fd \in DOMAIN fds'[q] /\ fds'[q][fd].born = fds[q][fd].born BY <1>3
  <2> QED BY <1>3, <2>1, <2>2, <2>3 DEF Files
<1>10. Others(l)
  <2>1. atEnd' \subseteq Nat BY DEF TraceTypeOK
  <2>2. l.ret \notin Stopped BY <1>1 DEF Stopped
  <2>3. state[l.pid] = "runs" /\ tracePc = "run" /\ l.pid \in Pid BY <1>1 DEF Runs
  <2> QED BY <1>6, <2>1, <2>2, <2>3, SameOthers DEF firmware, locator
<1> QED BY <1>8, <1>9, <1>10 DEF Step

LEMMA OpenStep ==
  ASSUME TraceTypeOK, NEW p \in Pid, NEW f \in File, Open(p, f)
  PROVE  \E l : Step(l)
<1>1. Runs(p) /\ FreeFd(p) # {} /\ UNCHANGED <<firmware, atEnd, state, connectFd, locator>> BY DEF Open
<1>2. CASE content[f] = "missing"
  <2> DEFINE l == [pid |-> p, call |-> "open", fd |-> 0, what |-> f, ret |-> "missing", on |-> 0]
  <2>1. l.pid = p /\ l.call = "open" /\ l.fd = 0 /\ l.what = f /\ l.ret = "missing" /\ l.on = 0 OBVIOUS
  <2>2. log' = Append(log, l) /\ fds' = fds BY <1>2 DEF Open, Write
  <2> HIDE DEF l
  <2>3. ~Gives(l) /\ l.call \notin OnFdCall BY <2>1 DEF Gives, IsOpened, OnFdCall, SocketCall
  <2>4. LineOK(l) BY <2>1 DEF LineOK
  <2>5. NewLine(l) BY <1>2, <2>1, <2>2, <2>3, <2>4 DEF NewLine
  <2>6. Files(l) BY <2>1, <2>2, <2>3, SameFiles
  <2>7. Others(l)
    <3>1. atEnd' \subseteq Nat BY <1>1 DEF TraceTypeOK
    <3>2. l.ret \notin Stopped /\ l.call # "connect" BY <2>1 DEF Stopped
    <3>3. state[l.pid] = "runs" /\ tracePc = "run" /\ l.pid \in Pid BY <1>1, <2>1 DEF Runs
    <3>4. state' = state /\ connectFd' = connectFd /\ firmware' = firmware /\ locator' = locator BY <1>1
    <3> QED BY <3>1, <3>2, <3>3, <3>4, SameOthers
  <2> QED BY <2>5, <2>6, <2>7 DEF Step
<1>3. CASE content[f] # "missing"
  <2> DEFINE o == Obj("file", f)
  <2>1. Write(p, "open", Min(FreeFd(p)), f, "ok", Len(log) + 1) /\ Give(p, o) BY <1>3 DEF Open
  <2>2. o \in Object /\ o.born = Len(log) + 1 /\ o.kind = "file" BY LogType DEF Obj, Object
  <2> HIDE DEF o
  <2> QED BY <1>1, <2>1, <2>2, GivingStep
<1> QED BY <1>2, <1>3

LEMMA SocketStep ==
  ASSUME TraceTypeOK, NEW p \in Pid, Socket(p)
  PROVE  \E l : Step(l)
<1>1. Runs(p) /\ FreeFd(p) # {} /\ UNCHANGED <<firmware, atEnd, state, connectFd, locator>> BY DEF Socket
<1>2. Write(p, "socket", Min(FreeFd(p)), "", "ok", Len(log) + 1) BY DEF Socket
<1>3. PICK s \in Service : Give(p, Obj("socket", s)) BY DEF Socket
<1> DEFINE o == Obj("socket", s)
<1>4. o \in Object /\ o.born = Len(log) + 1 BY LogType DEF Obj, Object
<1>5. Give(p, o) BY <1>3
<1> HIDE DEF o
<1> QED BY <1>1, <1>2, <1>4, <1>5, GivingStep

(* A call on a descriptor that goes on.                                    *)
LEMMA FdStep ==
  ASSUME TraceTypeOK, NEW p \in Pid, NEW fd \in DOMAIN fds[p], NEW call \in {"read", "recv", "recvfrom", "select"}, NEW ret, 
         ret \notin {"refused", "blocked", "end"}, Write(p, call, fd, "", ret, fds[p][fd].born),
         call \in SocketCall => fds[p][fd].kind = "socket",
         Runs(p), atEnd' \subseteq Nat, UNCHANGED <<firmware, fds, state, connectFd, locator>>
  PROVE  \E l : Step(l)
<1> DEFINE l == [pid |-> p, call |-> call, fd |-> fd, what |-> "", ret |-> ret, on |-> fds[p][fd].born]
<1>1. call \in OnFdCall /\ call # "connect" /\ call # "close" BY DEF OnFdCall, SocketCall
<1>2. NewLine(l) /\ l.pid = p /\ l.fd = fd /\ l.call = call /\ l.ret = ret /\ ~Gives(l) BY <1>1, FdLine
<1> HIDE DEF l
<1>3. Files(l) BY <1>1, <1>2, SameFiles
<1>4. Others(l)
  <2>1. l.ret \notin Stopped /\ l.call # "connect" BY <1>1, <1>2 DEF Stopped
  <2>2. state[l.pid] = "runs" /\ tracePc = "run" /\ l.pid \in Pid BY <1>2 DEF Runs
  <2> QED BY <2>1, <2>2, SameOthers
<1> QED BY <1>2, <1>3, <1>4 DEF Step

LEMMA ReadStep ==
  ASSUME TraceTypeOK, NEW p \in Pid, NEW fd \in Fd, Read(p, fd)
  PROVE  \E l : Step(l)
<1> DEFINE o == fds[p][fd]
<1>1. Runs(p) /\ fd \in DOMAIN fds[p] /\ UNCHANGED <<firmware, fds, state, connectFd, locator>> BY DEF Read
<1>2. atEnd' = atEnd \cup {o.born} BY DEF Read
<1>3. PICK ret \in {"more", "zero"} : Write(p, "read", fd, "", ret, o.born) BY DEF Read
<1>4. o.born \in Nat /\ atEnd \subseteq Nat BY <1>1, FilesType DEF Object, TraceTypeOK
<1>5. atEnd' \subseteq Nat BY <1>2, <1>4
<1>6. ret \notin {"refused", "blocked", "end"} /\ "read" \in {"read", "recv", "recvfrom", "select"} /\ "read" \notin SocketCall
  BY DEF SocketCall
<1> QED BY <1>1, <1>3, <1>5, <1>6, FdStep

LEMMA AwaitStep ==
  ASSUME TraceTypeOK, NEW p \in Pid, NEW fd \in Fd, NEW a \in Answered, Await(p, fd, a.call, a.ret)
  PROVE  \E l : Step(l)
<1> DEFINE call == a.call
           ret == a.ret
<1>1. /\ Runs(p) /\ fd \in DOMAIN fds[p] /\ fds[p][fd].kind = "socket"
      /\ UNCHANGED <<firmware, fds, atEnd, state, connectFd, locator>>
  BY DEF Await, Linked, Sockets, kernel
<1>2. Write(p, call, fd, "", ret, fds[p][fd].born) BY DEF Await
<1>3. call \in {"read", "recv", "recvfrom", "select"} /\ ret \in {"more", "timeout", "reset", "zero"} BY DEF Answered
<1>4. atEnd' \subseteq Nat BY <1>1 DEF TraceTypeOK
<1> HIDE DEF call, ret
<1>5. ret \notin {"refused", "blocked", "end"} BY <1>3
<1> QED BY <1>1, <1>2, <1>3, <1>4, <1>5, FdStep

LEMMA HangStep ==
  ASSUME TraceTypeOK, NEW p \in Pid, NEW fd \in Fd, NEW call \in Waiting, Hang(p, fd, call)
  PROVE  \E l : Step(l)
<1> DEFINE o == fds[p][fd]
           ret == "blocked"
           l == [pid |-> p, call |-> call, fd |-> fd, what |-> "", ret |-> ret, on |-> fds[p][fd].born]
<1>1. /\ Runs(p) /\ fd \in DOMAIN fds[p] /\ o.kind = "socket" /\ state' = [state EXCEPT ![p] = "blocked"]
      /\ UNCHANGED <<firmware, fds, atEnd, locator>>
  BY DEF Hang, MayWait, Linked, Sockets
<1>2. Write(p, call, fd, "", ret, fds[p][fd].born) BY DEF Hang
<1>3. call \in OnFdCall /\ call # "close" BY DEF OnFdCall, SocketCall, Waiting
<1>4. ret = "blocked" OBVIOUS
<1>5. NewLine(l) /\ l.pid = p /\ l.fd = fd /\ l.call = call /\ l.ret = ret /\ ~Gives(l)
  <2> HIDE DEF ret, l
  <2>1. LET k == [pid |-> p, call |-> call, fd |-> fd, what |-> "", ret |-> ret, on |-> fds[p][fd].born]
        IN  NewLine(k) /\ k.pid = p /\ k.fd = fd /\ k.call = call /\ k.ret = ret /\ ~Gives(k)
    BY <1>1, <1>2, <1>3, <1>4, FdLine
  <2> QED BY <2>1 DEF l
<1> HIDE DEF l, ret
<1>6. Files(l) BY <1>1, <1>3, <1>5, SameFiles
<1>7. Others(l)
  <2>1. connectFd \in [DOMAIN connectFd -> Service] /\ DOMAIN connectFd \subseteq Fd BY DEF TraceTypeOK
  <2>2. o.of \in Service BY <1>1, FilesType DEF Object
  <2> DEFINE x == o.of
  <2>3. connectFd' = IF call = "connect" THEN With(connectFd, fd, x) ELSE connectFd BY DEF Hang
  <2> HIDE DEF x
  <2>4. With(connectFd, fd, x) \in [DOMAIN connectFd \cup {fd} -> Service]
    <3>1. \A d \in DOMAIN connectFd : connectFd[d] \in Service BY <2>1
    <3> QED BY <2>2, <3>1, WithType DEF x
  <2>5. DOMAIN With(connectFd, fd, x) = DOMAIN connectFd \cup {fd} BY DEF With
  <2>6. /\ connectFd' \in [DOMAIN connectFd' -> Service] /\ DOMAIN connectFd' \subseteq Fd
        /\ DOMAIN connectFd \subseteq DOMAIN connectFd' /\ (call = "connect" => fd \in DOMAIN connectFd')
    <3>1. CASE call = "connect" BY <2>1, <2>3, <2>4, <2>5, <3>1
    <3>2. CASE call # "connect" BY <2>1, <2>3, <3>2
    <3> QED BY <3>1, <3>2
  <2>7. state \in [Pid -> {"unborn", "runs", "blocked", "gone"}] /\ atEnd \subseteq Nat BY DEF TraceTypeOK
  <2>8. state' \in [Pid -> {"unborn", "runs", "blocked", "gone"}] /\ state'[p] = "blocked"
        /\ \A q \in Pid : q # p => state'[q] = state[q]
    BY <1>1, <2>7
  <2>9. state[p] = "runs" /\ tracePc = "run" /\ atEnd' \subseteq Nat BY <1>1, <2>7 DEF Runs
  <2> QED BY <1>1, <1>5, <2>6, <2>8, <2>9 DEF Others
<1> QED BY <1>5, <1>6, <1>7 DEF Step

LEMMA CloseStep ==
  ASSUME TraceTypeOK, NEW p \in Pid, NEW fd \in Fd, Close(p, fd)
  PROVE  \E l : Step(l)
<1> DEFINE l == [pid |-> p, call |-> "close", fd |-> fd, what |-> "", ret |-> "ok", on |-> fds[p][fd].born]
<1>1. Runs(p) /\ fd \in DOMAIN fds[p] /\ UNCHANGED <<firmware, atEnd, state, connectFd, locator>> /\ Take(p, fd)
  BY DEF Close
<1>2. Write(p, "close", fd, "", "ok", fds[p][fd].born) BY DEF Close
<1>3. "close" \in OnFdCall /\ "close" \notin SocketCall BY DEF OnFdCall, SocketCall
<1>4. NewLine(l) /\ l.pid = p /\ l.fd = fd /\ l.call = "close" /\ l.ret = "ok" /\ ~Gives(l) BY <1>1, <1>2, <1>3, FdLine
<1> HIDE DEF l
<1>5. /\ fds' \in [Pid -> Range(fds')] /\ \A q \in Pid : IsTable(fds'[q])
      /\ DOMAIN fds'[p] = DOMAIN fds[p] \ {fd} /\ \A d \in DOMAIN fds[p] : d # fd => fds'[p][d] = fds[p][d]
      /\ \A q \in Pid : q # p => fds'[q] = fds[q]
  BY <1>1, TakeIs
<1>6. Files(l)
  <2>1. \A q \in Pid : \A d \in DOMAIN fds'[q] :
          d \in DOMAIN fds[q] /\ fds'[q][d] = fds[q][d] /\ ~(l.call = "close" /\ q = l.pid /\ d = l.fd)
    <3> SUFFICES ASSUME NEW q \in Pid, NEW d \in DOMAIN fds'[q]
                 PROVE  d \in DOMAIN fds[q] /\ fds'[q][d] = fds[q][d] /\ ~(l.call = "close" /\ q = l.pid /\ d = l.fd)
      OBVIOUS
    <3>1. CASE q = p BY <1>4, <1>5, <3>1
    <3>2. CASE q # p BY <1>4, <1>5, <3>2
    <3> QED BY <3>1, <3>2
  <2>2. \A q \in Pid : \A d \in DOMAIN fds[q] :
          (l.call = "close" /\ q = l.pid /\ d = l.fd) \/ (d \in DOMAIN fds'[q] /\ fds'[q][d].born = fds[q][d].born)
    <3> SUFFICES ASSUME NEW q \in Pid, NEW d \in DOMAIN fds[q], ~(q = p /\ d = fd)
                 PROVE  d \in DOMAIN fds'[q] /\ fds'[q][d].born = fds[q][d].born
      BY <1>4
    <3>1. CASE q = p BY <1>5, <3>1
    <3>2. CASE q # p BY <1>5, <3>2
    <3> QED BY <3>1, <3>2
  <2> QED BY <1>4, <1>5, <2>1, <2>2 DEF Files
<1>7. Others(l)
  <2>1. l.ret \notin Stopped /\ l.call # "connect" BY <1>4 DEF Stopped
  <2>2. state[l.pid] = "runs" /\ tracePc = "run" /\ l.pid \in Pid BY <1>1, <1>4 DEF Runs
  <2>3. atEnd' \subseteq Nat BY <1>1 DEF TraceTypeOK
  <2>4. state' = state /\ connectFd' = connectFd /\ firmware' = firmware /\ locator' = locator BY <1>1
  <2> QED BY <2>1, <2>2, <2>3, <2>4, SameOthers
<1> QED BY <1>4, <1>6, <1>7 DEF Step

LEMMA ConnectStep ==
  ASSUME TraceTypeOK, NEW p \in Pid, NEW fd \in Fd, Connect(p, fd)
  PROVE  \E l : Step(l)
<1> DEFINE o == fds[p][fd]
<1>1. Runs(p) /\ fd \in DOMAIN fds[p] /\ o.kind = "socket" /\ UNCHANGED <<firmware, atEnd, state, locator>>
  BY DEF Connect, Sockets
<1>2. PICK ret \in {"ok", "refused"} : Write(p, "connect", fd, "", ret, o.born) /\ (Link(p, fd) \/ fds' = fds)
  BY DEF Connect
<1>3. connectFd' = With(connectFd, fd, o.of) BY DEF Connect
<1>4. o.of \in Service BY <1>1, FilesType DEF Object
<1> DEFINE l == [pid |-> p, call |-> "connect", fd |-> fd, what |-> "", ret |-> ret, on |-> o.born]
<1>5. "connect" \in OnFdCall /\ ret # "blocked" BY DEF OnFdCall, SocketCall
<1>6. NewLine(l) /\ l.pid = p /\ l.fd = fd /\ l.call = "connect" /\ l.ret = ret /\ ~Gives(l)
  <2> DEFINE call == "connect"
  <2>1. call \in OnFdCall /\ fds[p][fd].kind = "socket" /\ ret # "blocked" /\ call = "connect" BY <1>1, <1>5
  <2>2. Write(p, call, fd, "", ret, fds[p][fd].born) BY <1>2
  <2> HIDE DEF call
  <2>3. LET k == [pid |-> p, call |-> call, fd |-> fd, what |-> "", ret |-> ret, on |-> fds[p][fd].born]
        IN  NewLine(k) /\ k.pid = p /\ k.fd = fd /\ k.call = call /\ k.ret = ret /\ ~Gives(k)
    BY <1>1, <2>1, <2>2, FdLine
  <2> QED BY <2>3 DEF call
<1> HIDE DEF l
<1>7. Files(l)
  <2>1. CASE fds' = fds BY <1>6, <2>1, SameFiles
  <2>2. CASE Link(p, fd) BY <1>1, <1>6, <2>2, LinkedFiles
  <2> QED BY <1>2, <2>1, <2>2
<1>8. Others(l)
  <2>1. connectFd \in [DOMAIN connectFd -> Service] /\ DOMAIN connectFd \subseteq Fd BY DEF TraceTypeOK
  <2>2. DOMAIN connectFd' = DOMAIN connectFd \cup {fd} BY <1>3 DEF With
  <2>3. connectFd' \in [DOMAIN connectFd' -> Service]
    <3>1. \A d \in DOMAIN connectFd : connectFd[d] \in Service BY <2>1
    <3> DEFINE x == o.of
    <3>2. x \in Service /\ connectFd' = With(connectFd, fd, x) BY <1>3, <1>4
    <3> HIDE DEF x
    <3>3. With(connectFd, fd, x) \in [DOMAIN connectFd \cup {fd} -> Service] BY <3>1, <3>2, WithType
    <3> QED BY <2>2, <3>2, <3>3
  <2>4. state' = state /\ atEnd' = atEnd /\ firmware' = firmware /\ locator' = locator BY <1>1
  <2>5. state[l.pid] = "runs" /\ tracePc = "run" /\ l.ret \notin Stopped BY <1>1, <1>2, <1>6 DEF Runs, Stopped
  <2>6. state \in [Pid -> {"unborn", "runs", "blocked", "gone"}] /\ atEnd \subseteq Nat BY DEF TraceTypeOK
  <2>7. state' \in [Pid -> {"unborn", "runs", "blocked", "gone"}] /\ state'[l.pid] # "unborn"
        /\ \A q \in Pid : state'[q] = state[q]
    BY <2>4, <2>5, <2>6
  <2> QED BY <1>6, <2>1, <2>2, <2>3, <2>4, <2>5, <2>6, <2>7 DEF Others
<1> QED BY <1>6, <1>7, <1>8 DEF Step

(* Calls that have to do with no descriptor.                               *)
LEMMA PlainStep ==
  ASSUME TraceTypeOK, NEW p \in Pid, NEW call \in Plain, NEW what, NEW ret, Runs(p), Write(p, call, 0, what, ret, 0),
         call = "ioctl" => what \in Device, ret \notin {"refused", "blocked"}, call \in {"signal", "exit"} => ret = "end",
         UNCHANGED <<firmware, fds, atEnd, connectFd, locator>>,
         (ret # "end" /\ state' = state) \/ state' = [state EXCEPT ![p] = "gone"]
  PROVE  \E l : Step(l)
<1> DEFINE l == [pid |-> p, call |-> call, fd |-> 0, what |-> what, ret |-> ret, on |-> 0]
<1>1. NewLine(l) /\ l.pid = p /\ l.ret = ret /\ ~Gives(l) /\ l.call # "close" /\ l.call # "connect" BY PlainLine
<1> HIDE DEF l
<1>2. Files(l) BY <1>1, SameFiles
<1>3. state[p] = "runs" /\ tracePc = "run" BY DEF Runs
<1>4. Others(l)
  <2>1. CASE ret # "end" /\ state' = state
    <3>1. l.ret \notin Stopped /\ l.pid \in Pid /\ state[l.pid] = "runs" BY <1>1, <1>3, <2>1 DEF Stopped
    <3>2. atEnd' \subseteq Nat BY DEF TraceTypeOK
    <3> QED BY <1>1, <1>3, <2>1, <3>1, <3>2, SameOthers
  <2>2. CASE state' = [state EXCEPT ![p] = "gone"]
    <3>1. "gone" \in {"blocked", "gone"} OBVIOUS
    <3>2. atEnd' = atEnd /\ connectFd' = connectFd /\ firmware' = firmware /\ locator' = locator OBVIOUS
    <3> QED BY <1>1, <1>3, <2>2, <3>1, <3>2, StopOthers
  <2> QED BY <2>1, <2>2
<1> QED BY <1>1, <1>2, <1>4 DEF Step

LEMMA ForkStep ==
  ASSUME TraceTypeOK, NEW p \in Pid, Fork(p)
  PROVE  \E l : Step(l)
<1>1. Runs(p) /\ UNCHANGED <<firmware, atEnd, connectFd, locator>> BY DEF Fork
<1>2. PICK c \in Pid : /\ state[c] = "unborn" /\ Write(p, "fork", 0, c, "ok", 0) /\ state' = [state EXCEPT ![c] = "runs"]
                       /\ fds' = [fds EXCEPT ![c] = fds[p]]
  BY DEF Fork
<1> DEFINE l == [pid |-> p, call |-> "fork", fd |-> 0, what |-> c, ret |-> "ok", on |-> 0]
<1>3. NewLine(l) /\ l.pid = p /\ l.ret = "ok" /\ ~Gives(l) /\ l.call # "close" /\ l.call # "connect"
  <2> DEFINE call == "fork"
  <2>1. call \in Plain /\ call \notin {"ioctl", "signal", "exit"} BY DEF Plain
  <2>2. Write(p, call, 0, c, "ok", 0) BY <1>2
  <2> HIDE DEF call
  <2>3. LET k == [pid |-> p, call |-> call, fd |-> 0, what |-> c, ret |-> "ok", on |-> 0]
        IN  NewLine(k) /\ k.pid = p /\ k.ret = "ok" /\ ~Gives(k) /\ k.call # "close" /\ k.call # "connect"
    BY <2>1, <2>2, PlainLine
  <2> QED BY <2>3 DEF call
<1> HIDE DEF l
<1>4. state[p] = "runs" /\ tracePc = "run" /\ c # p BY <1>1, <1>2 DEF Runs
<1>5. /\ fds' \in [Pid -> Range(fds')] /\ \A q \in Pid : IsTable(fds'[q])
      /\ fds'[c] = fds[p] /\ \A q \in Pid : q # c => fds'[q] = fds[q]
  <2>1. IsTable(fds[p]) BY DEF TraceTypeOK
  <2> DEFINE t == fds[p]
  <2>2. IsTable(t) /\ fds' = [fds EXCEPT ![c] = t] BY <1>2, <2>1
  <2> HIDE DEF t
  <2>3. /\ fds' \in [Pid -> Range(fds')] /\ \A q \in Pid : IsTable(fds'[q])
        /\ fds'[c] = t /\ \A q \in Pid : q # c => fds'[q] = fds[q]
    BY <2>2, Changed
  <2> QED BY <2>3 DEF t
<1>6. Files(l)
  <2>1. \A q \in Pid : \A d \in DOMAIN fds'[q] :
          \E r \in Pid : (r = q \/ state[q] = "unborn") /\ d \in DOMAIN fds[r] /\ fds'[q][d] = fds[r][d]
    <3> SUFFICES ASSUME NEW q \in Pid, NEW d \in DOMAIN fds'[q]
                 PROVE  \E r \in Pid : (r = q \/ state[q] = "unborn") /\ d \in DOMAIN fds[r] /\ fds'[q][d] = fds[r][d]
      OBVIOUS
    <3>1. CASE q = c
      <4>1. (p = q \/ state[q] = "unborn") /\ d \in DOMAIN fds[p] /\ fds'[q][d] = fds[p][d] BY <1>2, <1>5, <3>1
      <4> QED BY <4>1
    <3>2. CASE q # c BY <1>5, <3>2
    <3> QED BY <3>1, <3>2
  <2>2. \A q \in Pid : \A d \in DOMAIN fds[q] :
          state[q] = "unborn" \/ (d \in DOMAIN fds'[q] /\ fds'[q][d].born = fds[q][d].born)
    <3> SUFFICES ASSUME NEW q \in Pid, NEW d \in DOMAIN fds[q], state[q] # "unborn"
                 PROVE  d \in DOMAIN fds'[q] /\ fds'[q][d].born = fds[q][d].born
      OBVIOUS
    <3>1. fds'[q] = fds[q] BY <1>2, <1>5
    <3> QED BY <3>1
  <2>3. \A q \in Pid : \A fd \in DOMAIN fds'[q] :
          \E r \in Pid : /\ r = q \/ state[q] = "unborn"
                         /\ fd \in DOMAIN fds[r] /\ fds'[q][fd].born = fds[r][fd].born
                         /\ fds'[q][fd].kind = fds[r][fd].kind
                         /\ ~(l.call = "close" /\ q = l.pid /\ fd = l.fd)
    BY <1>3, <2>1
  <2> QED BY <1>3, <1>5, <2>2, <2>3 DEF Files
<1>7. Others(l)
  <2>1. state \in [Pid -> {"unborn", "runs", "blocked", "gone"}] BY DEF TraceTypeOK
  <2>2. state' \in [Pid -> {"unborn", "runs", "blocked", "gone"}] /\ state'[p] = state[p] /\ state'[c] = "runs"
        /\ \A q \in Pid : q # c => state'[q] = state[q]
    BY <1>2, <1>4, <2>1
  <2>3. \A q \in Pid : q # l.pid => state'[q] = state[q] \/ (state[q] = "unborn" /\ state'[q] = "runs") BY <1>2, <2>2
  <2>4. connectFd' \in [DOMAIN connectFd' -> Service] /\ DOMAIN connectFd' \subseteq Fd /\ atEnd' \subseteq Nat
        /\ DOMAIN connectFd \subseteq DOMAIN connectFd'
    BY <1>1 DEF TraceTypeOK
  <2>5. state[l.pid] = "runs" /\ state'[l.pid] # "unborn" /\ l.ret \notin Stopped BY <1>3, <1>4, <2>2 DEF Stopped
  <2>6. firmware' = firmware /\ locator' = locator BY <1>1
  <2> QED BY <1>3, <1>4, <2>2, <2>3, <2>4, <2>5, <2>6 DEF Others
<1> QED BY <1>3, <1>6, <1>7 DEF Step

LEMMA CallStep ==
  ASSUME TraceTypeOK, NEW p \in Pid, Call(p)
  PROVE  \E l : Step(l)
<1>1. \A f \in File : Open(p, f) => \E l : Step(l) BY OpenStep
<1>2. \A fd \in Fd : Read(p, fd) \/ Close(p, fd) \/ Connect(p, fd) => \E l : Step(l) BY ReadStep, CloseStep, ConnectStep
<1>3. \A fd \in Fd : /\ \A call \in Waiting : Hang(p, fd, call) => \E l : Step(l)
                  /\ \A a \in Answered : Await(p, fd, a.call, a.ret) => \E l : Step(l)
  BY AwaitStep, HangStep
<1>4. Socket(p) => \E l : Step(l) BY SocketStep
<1>5. Fork(p) => \E l : Step(l) BY ForkStep
<1>6. ASSUME NEW call \in Plain, NEW what, NEW ret, Runs(p), Write(p, call, 0, what, ret, 0),
             call = "ioctl" => what \in Device, ret \notin {"refused", "blocked"}, call \in {"signal", "exit"} => ret = "end",
             UNCHANGED <<firmware, fds, atEnd, connectFd, locator>>,
             (ret # "end" /\ state' = state) \/ state' = [state EXCEPT ![p] = "gone"]
      PROVE  \E l : Step(l)
  BY <1>6, PlainStep
<1>7. ExecShell(p) => \E l : Step(l)
  <2> SUFFICES ASSUME ExecShell(p) PROVE \E l : Step(l) OBVIOUS
  <2> DEFINE call == "exec"
  <2>1. call \in Plain /\ call \notin {"ioctl", "signal", "exit"} BY DEF Plain
  <2>2. Runs(p) /\ Write(p, call, 0, "/bin/sh", "ok", 0) /\ UNCHANGED <<firmware, kernel, connectFd, locator>>
    BY DEF ExecShell
  <2>3. fds' = fds /\ atEnd' = atEnd /\ state' = state BY <2>2 DEF kernel
  <2> HIDE DEF call
  <2> QED BY <1>6, <2>1, <2>2, <2>3
<1>8. Shmat(p) => \E l : Step(l)
  <2> SUFFICES ASSUME Shmat(p) PROVE \E l : Step(l) OBVIOUS
  <2> DEFINE call == "shmat"
  <2>1. call \in Plain /\ call \notin {"ioctl", "signal", "exit"} BY DEF Plain
  <2>2. Runs(p) /\ Write(p, call, 0, "", "invalid", 0) /\ UNCHANGED <<firmware, kernel, connectFd, locator>>
    BY DEF Shmat
  <2>3. fds' = fds /\ atEnd' = atEnd /\ state' = state BY <2>2 DEF kernel
  <2> DEFINE ret == "invalid"
  <2>4. Write(p, call, 0, "", ret, 0) /\ ret \notin {"refused", "blocked", "end"} BY <2>2
  <2> HIDE DEF call, ret
  <2> QED BY <1>6, <2>1, <2>2, <2>3, <2>4
<1>9. \A d \in Device : Ioctl(p, d) => \E l : Step(l)
  <2> SUFFICES ASSUME NEW d \in Device, Ioctl(p, d) PROVE \E l : Step(l) OBVIOUS
  <2> DEFINE call == "ioctl"
  <2>1. call \in Plain /\ call \notin {"signal", "exit"} BY DEF Plain
  <2>2. Runs(p) /\ UNCHANGED <<firmware, kernel, connectFd, locator>> BY DEF Ioctl
  <2>3. PICK ret \in {"missing", "ok"} : Write(p, call, 0, d, ret, 0) BY DEF Ioctl
  <2>4. fds' = fds /\ atEnd' = atEnd /\ state' = state BY <2>2 DEF kernel
  <2> HIDE DEF call
  <2> QED BY <1>6, <2>1, <2>2, <2>3, <2>4
<1>10. \A call \in {"signal", "exit"}, code \in {0, 1} : Stop(p, call, code) => \E l : Step(l)
  <2> SUFFICES ASSUME NEW call \in {"signal", "exit"}, NEW code \in {0, 1}, Stop(p, call, code) PROVE \E l : Step(l)
    OBVIOUS
  <2>1. call \in Plain /\ call # "ioctl" BY DEF Plain
  <2>2. Runs(p) /\ Write(p, call, 0, code, "end", 0) /\ UNCHANGED <<firmware, fds, atEnd, connectFd, locator>>
        /\ state' = [state EXCEPT ![p] = "gone"]
    BY DEF Stop
  <2> QED BY <1>6, <2>1, <2>2
<1> QED BY <1>1, <1>2, <1>3, <1>4, <1>5, <1>7, <1>8, <1>9, <1>10 DEF Call
-----------------------------------------------------------------------------
(* A step preserves each part of the invariant.                            *)
LEMMA SeqRange ==
  ASSUME NEW T, NEW x \in Seq(T)
  PROVE  x \in Seq(Range(x))
<1> DEFINE R == Range(x)
<1>1. \A i \in 1 .. Len(x) : x[i] \in R BY DEF Range
<1>2. Len(x) \in Nat /\ x = [i \in 1 .. Len(x) |-> x[i]] OBVIOUS
<1> HIDE DEF R
<1>3. x \in Seq(R) BY <1>1, <1>2
<1> QED BY <1>3 DEF R

LEMMA LogGrows ==
  ASSUME TraceTypeOK, NEW l, log' = Append(log, l)
  PROVE  /\ Len(log) \in Nat /\ DOMAIN log = 1 .. Len(log)
         /\ Len(log') = Len(log) + 1 /\ DOMAIN log' = 1 .. Len(log) + 1 /\ log'[Len(log) + 1] = l
         /\ \A i \in 1 .. Len(log) : log'[i] = log[i]
         /\ \A i \in 1 .. Len(log) + 1 : i # Len(log) + 1 => i \in 1 .. Len(log)
         /\ log' \in Seq(Range(log'))
<1> DEFINE S == Range(log)
           T == S \cup {l}
<1>1. log \in Seq(S) BY DEF TraceTypeOK
<1> HIDE DEF S
<1>2. log \in Seq(T) /\ l \in T BY <1>1
<1> HIDE DEF T
<1>3. /\ Len(log) \in Nat /\ DOMAIN log = 1 .. Len(log)
      /\ Len(log') = Len(log) + 1 /\ DOMAIN log' = 1 .. Len(log) + 1 /\ log'[Len(log) + 1] = l
      /\ \A i \in 1 .. Len(log) : log'[i] = log[i]
      /\ log' \in Seq(T)
  BY <1>2
<1>4. \A i \in 1 .. Len(log) + 1 : i # Len(log) + 1 => i \in 1 .. Len(log) BY <1>3
<1>5. log' \in Seq(Range(log')) BY <1>3, SeqRange
<1> QED BY <1>3, <1>4, <1>5

LEMMA StepType ==
  ASSUME TraceTypeOK, NEW l, Step(l)
  PROVE  TraceTypeOK'
<1>1. NewLine(l) /\ Files(l) /\ Others(l) BY DEF Step
<1>2. /\ DOMAIN log' = 1 .. Len(log) + 1 /\ log'[Len(log) + 1] = l /\ DOMAIN log = 1 .. Len(log)
      /\ \A i \in 1 .. Len(log) : log'[i] = log[i]
      /\ \A i \in 1 .. Len(log) + 1 : i # Len(log) + 1 => i \in 1 .. Len(log)
      /\ log' \in Seq(Range(log'))
  BY <1>1, LogGrows DEF NewLine
<1>3. \A i \in DOMAIN log' : LineOK(log'[i])
  <2>1. \A i \in DOMAIN log : LineOK(log[i]) BY DEF TraceTypeOK, LineOK
  <2>2. LineOK(l) BY <1>1 DEF NewLine
  <2> QED BY <1>2, <2>1, <2>2
<1>4. \A i \in DOMAIN log' :
        /\ log'[i].pid \in Pid /\ log'[i].fd \in Nat /\ log'[i].on \in Nat
        /\ log'[i].call = "open" => log'[i].what \in File
        /\ log'[i].call = "ioctl" => log'[i].what \in Device
  BY <1>3 DEF LineOK
<1>5. /\ content' = content /\ lacking' = lacking /\ up' = up /\ fixed' = fixed /\ found' = found /\ round' = round
      /\ fixes' = fixes /\ tracePc' = tracePc
  BY <1>1 DEF Others, firmware, locator
<1>6. fds' \in [Pid -> Range(fds')] /\ \A q \in Pid : IsTable(fds'[q]) BY <1>1 DEF Files
<1>7. /\ state' \in [Pid -> {"unborn", "runs", "blocked", "gone"}] /\ atEnd' \subseteq Nat
      /\ connectFd' \in [DOMAIN connectFd' -> Service] /\ DOMAIN connectFd' \subseteq Fd
  BY <1>1 DEF Others
<1>8. /\ content' \in [File -> {"missing", "empty", "data"}] /\ lacking' \subseteq Device /\ up' \subseteq Service
      /\ found' \in Error /\ fixed' \subseteq Error
      /\ round' \in DOMAIN MaxLines /\ fixes' \in 0..MaxFixes /\ tracePc' \in {"run", "located"}
  BY <1>5 DEF TraceTypeOK
<1> QED BY <1>2, <1>4, <1>6, <1>7, <1>8 DEF TraceTypeOK, IsTable

LEMMA StepGiven ==
  ASSUME TraceTypeOK, GivenInv, NEW l, Step(l)
  PROVE  GivenInv'
<1> DEFINE N == Len(log)
<1>1. NewLine(l) /\ Files(l) /\ Others(l) BY DEF Step
<1>2. /\ N \in Nat /\ DOMAIN log' = 1 .. N + 1 /\ log'[N + 1] = l /\ DOMAIN log = 1 .. N
      /\ \A i \in 1 .. N : log'[i] = log[i]
      /\ \A i \in 1 .. N + 1 : i # N + 1 => i \in 1 .. N
  BY <1>1, LogGrows DEF NewLine
<1>3. l.pid \in Pid BY <1>1 DEF NewLine, LineOK
<1>4. /\ Gives(l) => l.fd \in Fd /\ l.on = N + 1
      /\ l.call \in OnFdCall =>
           /\ l.fd \in DOMAIN fds[l.pid] /\ l.on = fds[l.pid][l.fd].born
           /\ l.call \in SocketCall => fds[l.pid][l.fd].kind = "socket"
  BY <1>1 DEF NewLine
<1> HIDE DEF N
<1>5. \A p \in Pid : \A fd \in DOMAIN fds[p] :
        /\ fds[p][fd].born \in 1 .. N /\ Gives(log[fds[p][fd].born]) /\ log[fds[p][fd].born].fd = fd
        /\ fds[p][fd].kind = "socket" => log[fds[p][fd].born].call = "socket"
  BY <1>2 DEF GivenInv
<1>6. \A i \in DOMAIN log' : Gives(log'[i]) => log'[i].on = i /\ log'[i].fd \in Fd
  <2>1. \A i \in 1 .. N : Gives(log[i]) => log[i].on = i /\ log[i].fd \in Fd BY <1>2 DEF GivenInv
  <2> QED BY <1>2, <1>4, <2>1
<1>7. \A i \in DOMAIN log' : log'[i].call \in OnFdCall =>
        /\ log'[i].on \in 1 .. i - 1 /\ Gives(log'[log'[i].on]) /\ log'[log'[i].on].fd = log'[i].fd
        /\ log'[i].call \in SocketCall => log'[log'[i].on].call = "socket"
  <2> SUFFICES ASSUME NEW i \in DOMAIN log', log'[i].call \in OnFdCall
               PROVE  /\ log'[i].on \in 1 .. i - 1 /\ Gives(log'[log'[i].on]) /\ log'[log'[i].on].fd = log'[i].fd
                      /\ log'[i].call \in SocketCall => log'[log'[i].on].call = "socket"
    OBVIOUS
  <2>1. CASE i = N + 1
    <3> DEFINE o == fds[l.pid][l.fd].born
    <3>1. l.fd \in DOMAIN fds[l.pid] /\ l.on = o BY <1>2, <1>4, <2>1
    <3>2. o \in 1 .. N /\ Gives(log[o]) /\ log[o].fd = l.fd /\ (fds[l.pid][l.fd].kind = "socket" => log[o].call = "socket")
      BY <1>3, <1>5, <3>1
    <3> HIDE DEF o
    <3>3. log'[o] = log[o] /\ o \in 1 .. i - 1 BY <1>2, <2>1, <3>2
    <3>4. log'[i] = l BY <1>2, <2>1
    <3> QED BY <1>4, <3>1, <3>2, <3>3, <3>4
  <2>2. CASE i # N + 1
    <3>1. i \in 1 .. N /\ log'[i] = log[i] BY <1>2, <2>2
    <3> DEFINE o == log[i].on
    <3>2. /\ o \in 1 .. i - 1 /\ Gives(log[o]) /\ log[o].fd = log[i].fd
          /\ log[i].call \in SocketCall => log[o].call = "socket"
      BY <1>2, <3>1 DEF GivenInv
    <3> HIDE DEF o
    <3>3. log'[o] = log[o] BY <1>2, <3>1, <3>2
    <3> QED BY <3>1, <3>2, <3>3 DEF o
  <2> QED BY <2>1, <2>2
<1>8. \A p \in Pid : \A fd \in DOMAIN fds'[p] :
        /\ fds'[p][fd].born \in DOMAIN log' /\ Gives(log'[fds'[p][fd].born]) /\ log'[fds'[p][fd].born].fd = fd
        /\ fds'[p][fd].kind = "socket" => log'[fds'[p][fd].born].call = "socket"
  <2> SUFFICES ASSUME NEW p \in Pid, NEW fd \in DOMAIN fds'[p]
               PROVE  /\ fds'[p][fd].born \in DOMAIN log' /\ Gives(log'[fds'[p][fd].born])
                      /\ log'[fds'[p][fd].born].fd = fd
                      /\ fds'[p][fd].kind = "socket" => log'[fds'[p][fd].born].call = "socket"
    OBVIOUS
  <2>1. CASE /\ p = l.pid /\ fd = l.fd /\ Gives(l) /\ fds'[p][fd].born = N + 1
             /\ fds'[p][fd].kind = "socket" => l.call = "socket"
    <3>1. N + 1 \in 1 .. N + 1 BY <1>2
    <3> QED BY <1>2, <2>1, <3>1
  <2>2. CASE \E r \in Pid : /\ fd \in DOMAIN fds[r] /\ fds'[p][fd].born = fds[r][fd].born
                            /\ fds'[p][fd].kind = fds[r][fd].kind
    <3>1. PICK r \in Pid : fd \in DOMAIN fds[r] /\ fds'[p][fd].born = fds[r][fd].born /\ fds'[p][fd].kind = fds[r][fd].kind
      BY <2>2
    <3> DEFINE o == fds[r][fd].born
    <3>2. o \in 1 .. N /\ Gives(log[o]) /\ log[o].fd = fd /\ (fds[r][fd].kind = "socket" => log[o].call = "socket")
      BY <1>5, <3>1
    <3>3. fds'[p][fd].born = o BY <3>1
    <3> HIDE DEF o
    <3>4. log'[o] = log[o] /\ o \in DOMAIN log' BY <1>2, <3>2
    <3> QED BY <3>1, <3>2, <3>3, <3>4
  <2> QED BY <1>1, <2>1, <2>2 DEF Files, N
<1> QED BY <1>6, <1>7, <1>8 DEF GivenInv

LEMMA StepProcess ==
  ASSUME TraceTypeOK, ProcessInv, NEW l, Step(l)
  PROVE  ProcessInv'
<1> DEFINE N == Len(log)
<1>1. NewLine(l) /\ Files(l) /\ Others(l) BY DEF Step
<1>2. /\ N \in Nat /\ DOMAIN log' = 1 .. N + 1 /\ log'[N + 1] = l /\ DOMAIN log = 1 .. N
      /\ \A i \in 1 .. N : log'[i] = log[i]
      /\ \A i \in 1 .. N + 1 : i # N + 1 => i \in 1 .. N
  BY <1>1, LogGrows DEF NewLine
<1>3. /\ state[l.pid] = "runs" /\ state'[l.pid] # "unborn" /\ (l.ret \in Stopped => state'[l.pid] # "runs")
      /\ \A q \in Pid : q # l.pid => state'[q] = state[q] \/ (state[q] = "unborn" /\ state'[q] = "runs")
  BY <1>1 DEF Others
<1>4. \A i \in 1 .. N : log[i].pid \in Pid BY <1>2 DEF TraceTypeOK
<1> HIDE DEF N
<1>5. /\ \A i \in 1 .. N : state[log[i].pid] # "unborn"
      /\ \A i \in 1 .. N : log[i].ret \in Stopped => state[log[i].pid] # "runs"
      /\ \A i, j \in 1 .. N : i < j /\ log[j].pid = log[i].pid => log[i].ret \notin Stopped
  BY <1>2 DEF ProcessInv
<1>6. \A i \in DOMAIN log' : state'[log'[i].pid] # "unborn"
  <2> SUFFICES ASSUME NEW i \in DOMAIN log' PROVE state'[log'[i].pid] # "unborn" OBVIOUS
  <2>1. CASE i = N + 1 BY <1>2, <1>3, <2>1
  <2>2. CASE i # N + 1
    <3>1. i \in 1 .. N /\ log'[i] = log[i] BY <1>2, <2>2
    <3> DEFINE q == log[i].pid
    <3>2. q \in Pid /\ state[q] # "unborn" BY <1>4, <1>5, <3>1
    <3> HIDE DEF q
    <3>3. state'[q] # "unborn" BY <1>3, <3>2
    <3> QED BY <3>1, <3>3 DEF q
  <2> QED BY <2>1, <2>2
<1>7. \A i \in DOMAIN log' : log'[i].ret \in Stopped => state'[log'[i].pid] # "runs"
  <2> SUFFICES ASSUME NEW i \in DOMAIN log', log'[i].ret \in Stopped PROVE state'[log'[i].pid] # "runs" OBVIOUS
  <2>1. CASE i = N + 1 BY <1>2, <1>3, <2>1
  <2>2. CASE i # N + 1
    <3>1. i \in 1 .. N /\ log'[i] = log[i] BY <1>2, <2>2
    <3> DEFINE q == log[i].pid
    <3>2. q \in Pid /\ state[q] # "unborn" /\ state[q] # "runs" BY <1>4, <1>5, <3>1
    <3> HIDE DEF q
    <3>3. state'[q] # "runs" BY <1>3, <3>2
    <3> QED BY <3>1, <3>3 DEF q
  <2> QED BY <2>1, <2>2
<1>8. \A i, j \in DOMAIN log' : i < j /\ log'[j].pid = log'[i].pid => log'[i].ret \notin Stopped
  <2> SUFFICES ASSUME NEW i \in DOMAIN log', NEW j \in DOMAIN log', i < j, log'[j].pid = log'[i].pid
               PROVE  log'[i].ret \notin Stopped
    OBVIOUS
  <2>1. i \in 1 .. N /\ log'[i] = log[i] BY <1>2
  <2>2. CASE j = N + 1 BY <1>2, <1>3, <1>5, <2>1, <2>2
  <2>3. CASE j # N + 1
    <3>1. j \in 1 .. N /\ log'[j] = log[j] BY <1>2, <2>3
    <3> QED BY <1>5, <2>1, <3>1
  <2> QED BY <2>2, <2>3
<1> QED BY <1>6, <1>7, <1>8 DEF ProcessInv

LEMMA StepResult ==
  ASSUME TraceTypeOK, ResultInv, NEW l, Step(l)
  PROVE  ResultInv'
<1> DEFINE N == Len(log)
<1>1. NewLine(l) /\ Others(l) BY DEF Step
<1>2. /\ N \in Nat /\ DOMAIN log' = 1 .. N + 1 /\ log'[N + 1] = l /\ DOMAIN log = 1 .. N
      /\ \A i \in 1 .. N : log'[i] = log[i]
      /\ \A i \in 1 .. N + 1 : i # N + 1 => i \in 1 .. N
  BY <1>1, LogGrows DEF NewLine
<1>3. content' = content BY <1>1 DEF Others, firmware
<1>4. DOMAIN connectFd \subseteq DOMAIN connectFd' /\ (l.call = "connect" => l.fd \in DOMAIN connectFd') BY <1>1 DEF Others
<1> HIDE DEF N
<1> DEFINE R(k) == /\ k.ret = "refused" => k.call = "connect"
                   /\ k.ret = "blocked" => k.call \in Waiting
                   /\ k.call = "signal" => k.ret = "end"
                   /\ k.call = "exit" => k.ret = "end"
                   /\ k.call = "open" /\ k.ret = "missing" => content'[k.what] = "missing"
                   /\ k.call = "connect" => k.fd \in DOMAIN connectFd'
<1>5. R(l) BY <1>1, <1>3, <1>4 DEF NewLine
<1>6. \A i \in 1 .. N : R(log[i]) BY <1>2, <1>3, <1>4 DEF ResultInv
<1> HIDE DEF R
<1>7. \A i \in DOMAIN log' : R(log'[i]) BY <1>2, <1>5, <1>6
<1> QED BY <1>7 DEF ResultInv, R

LEMMA StepOpen ==
  ASSUME TraceTypeOK, ProcessInv, OpenInv, NEW l, Step(l)
  PROVE  OpenInv'
<1> DEFINE N == Len(log)
<1>1. NewLine(l) /\ Files(l) /\ Others(l) BY DEF Step
<1>2. /\ N \in Nat /\ DOMAIN log' = 1 .. N + 1 /\ Len(log') = N + 1 /\ log'[N + 1] = l /\ DOMAIN log = 1 .. N
      /\ \A i \in 1 .. N : log'[i] = log[i]
      /\ \A i \in 1 .. N + 1 : i # N + 1 => i \in 1 .. N
  BY <1>1, LogGrows DEF NewLine
<1>3. Gives(l) => l.fd \in DOMAIN fds'[l.pid] /\ fds'[l.pid][l.fd].born = N + 1 BY <1>1 DEF Files
<1>4. \A q \in Pid : \A fd \in DOMAIN fds[q] :
       \/ state[q] = "unborn" \/ (l.call = "close" /\ q = l.pid /\ fd = l.fd)
       \/ fd \in DOMAIN fds'[q] /\ fds'[q][fd].born = fds[q][fd].born
  BY <1>1 DEF Files
<1>5. l.call \in OnFdCall => l.on = fds[l.pid][l.fd].born BY <1>1 DEF NewLine
<1>6. \A i \in 1 .. N : log[i].pid \in Pid /\ state[log[i].pid] # "unborn" BY <1>2 DEF TraceTypeOK, ProcessInv
<1> HIDE DEF N
<1>7. \A i, to \in 1 .. N : KeptOpen(i, to)' => KeptOpen(i, to)
  <2> SUFFICES ASSUME NEW i \in 1 .. N, NEW to \in 1 .. N, KeptOpen(i, to)' PROVE KeptOpen(i, to) OBVIOUS
  <2>1. log'[i] = log[i] BY <1>2
  <2>2. \A c \in i + 1 .. to : c \in 1 .. N /\ log'[c] = log[c] BY <1>2
  <2> QED BY <2>1, <2>2 DEF KeptOpen, Closes
<1>8. \A i \in 1 .. N : KeptOpen(i, i)' => KeptOpen(i, i) BY <1>7
<1>9. \A i \in 1 .. N : KeptOpen(i, N) => log[i].fd \in DOMAIN fds[log[i].pid] /\ fds[log[i].pid][log[i].fd].born = i
  BY <1>2 DEF OpenInv, N
<1>10. \A i \in DOMAIN log' : KeptOpen(i, Len(log))' =>
         log'[i].fd \in DOMAIN fds'[log'[i].pid] /\ fds'[log'[i].pid][log'[i].fd].born = i
  <2> SUFFICES ASSUME NEW i \in DOMAIN log', KeptOpen(i, Len(log))'
               PROVE  log'[i].fd \in DOMAIN fds'[log'[i].pid] /\ fds'[log'[i].pid][log'[i].fd].born = i
    OBVIOUS
  <2>1. CASE i = N + 1
    <3>1. log'[i] = l BY <1>2, <2>1
    <3>2. Gives(l) BY <3>1 DEF KeptOpen
    <3> QED BY <1>3, <2>1, <3>1, <3>2
  <2>2. CASE i # N + 1
    <3>1. i \in 1 .. N /\ log'[i] = log[i] BY <1>2, <2>2
    <3>2. N \in 1 .. N /\ N + 1 \in i + 1 .. N + 1 /\ \A c \in i + 1 .. N : c \in i + 1 .. N + 1 BY <1>2, <3>1
    <3> DEFINE Shut(c) == log'[c].call = "close" /\ log'[c].pid = log'[i].pid /\ log'[c].fd = log'[i].fd
    <3>0. Gives(log'[i]) /\ \A c \in i + 1 .. Len(log') : ~Shut(c) BY DEF KeptOpen, Closes
    <3>3. KeptOpen(i, N)
      <4>1. Gives(log'[i]) /\ \A c \in i + 1 .. N + 1 : ~Shut(c)
        <5> HIDE DEF Shut
        <5> QED BY <1>2, <3>0
      <4>2. \A c \in i + 1 .. N : c \in 1 .. N /\ log'[c] = log[c] BY <1>2, <3>1
      <4>3. \A c \in i + 1 .. N : ~Closes(c, log[i].pid, log[i].fd) BY <3>1, <3>2, <4>1, <4>2 DEF Closes
      <4> QED BY <3>1, <4>1, <4>3 DEF KeptOpen
    <3>4. ~(l.call = "close" /\ l.pid = log[i].pid /\ l.fd = log[i].fd)
      <4>1. ~Shut(N + 1)
        <5> HIDE DEF Shut
        <5> QED BY <1>2, <3>0, <3>2
      <4> QED BY <1>2, <3>1, <4>1
    <3> DEFINE q == log[i].pid
               fd == log[i].fd
    <3>5. fd \in DOMAIN fds[q] /\ fds[q][fd].born = i BY <1>9, <3>1, <3>3
    <3>6. q \in Pid /\ state[q] # "unborn" BY <1>6, <3>1
    <3>7. ~(l.call = "close" /\ q = l.pid /\ fd = l.fd) BY <3>4
    <3> HIDE DEF q, fd
    <3>8. fd \in DOMAIN fds'[q] /\ fds'[q][fd].born = i BY <1>4, <3>5, <3>6, <3>7
    <3> QED BY <3>1, <3>8 DEF q, fd
  <2> QED BY <2>1, <2>2
<1>11. \A i, j \in DOMAIN log' :
         i < j /\ KeptOpen(i, j - 1)' /\ log'[j].call \in OnFdCall /\ log'[j].pid = log'[i].pid /\ log'[j].fd = log'[i].fd
           => log'[j].on = i
  <2> SUFFICES ASSUME NEW i \in DOMAIN log', NEW j \in DOMAIN log', i < j, KeptOpen(i, j - 1)', log'[j].call \in OnFdCall,
                      log'[j].pid = log'[i].pid, log'[j].fd = log'[i].fd
               PROVE  log'[j].on = i
    OBVIOUS
  <2>1. i \in 1 .. N /\ log'[i] = log[i] BY <1>2
  <2>2. j - 1 \in 1 .. N BY <1>2
  <2>3. KeptOpen(i, j - 1)
    <3> DEFINE m == j - 1
    <3>1. m \in 1 .. N /\ KeptOpen(i, m)' BY <2>2
    <3> HIDE DEF m
    <3>2. KeptOpen(i, m) BY <1>7, <2>1, <3>1
    <3> QED BY <3>2 DEF m
  <2>4. CASE j = N + 1
    <3>1. j - 1 = N /\ log'[j] = l BY <1>2, <2>4
    <3> QED BY <1>5, <1>9, <2>1, <2>3, <3>1
  <2>5. CASE j # N + 1
    <3>1. j \in 1 .. N /\ log'[j] = log[j] BY <1>2, <2>5
    <3> QED BY <1>2, <2>1, <2>3, <3>1 DEF OpenInv
  <2> QED BY <2>4, <2>5
<1> QED BY <1>10, <1>11 DEF OpenInv

LEMMA StepClosed ==
  ASSUME TraceTypeOK, GivenInv, ProcessInv, ClosedInv, NEW l, Step(l)
  PROVE  ClosedInv'
<1> DEFINE N == Len(log)
<1>1. NewLine(l) /\ Files(l) /\ Others(l) BY DEF Step
<1>2. /\ N \in Nat /\ DOMAIN log' = 1 .. N + 1 /\ Len(log') = N + 1 /\ log'[N + 1] = l /\ DOMAIN log = 1 .. N
      /\ \A i \in 1 .. N : log'[i] = log[i]
      /\ \A i \in 1 .. N + 1 : i # N + 1 => i \in 1 .. N
  BY <1>1, LogGrows DEF NewLine
<1>3. \A q \in Pid : \A fd \in DOMAIN fds'[q] :
       \/ /\ q = l.pid /\ fd = l.fd /\ Gives(l) /\ fds'[q][fd].born = N + 1
       \/ \E r \in Pid : /\ r = q \/ state[q] = "unborn"
                         /\ fd \in DOMAIN fds[r] /\ fds'[q][fd].born = fds[r][fd].born
                         /\ ~(l.call = "close" /\ q = l.pid /\ fd = l.fd)
  BY <1>1 DEF Files
<1>4. /\ Gives(l) => l.on = N + 1
      /\ l.call \in OnFdCall => l.fd \in DOMAIN fds[l.pid] /\ l.on = fds[l.pid][l.fd].born
      /\ ~Gives(l) /\ l.call \notin OnFdCall => l.on = 0
  BY <1>1 DEF NewLine
<1>5. l.pid \in Pid /\ state[l.pid] = "runs" BY <1>1 DEF NewLine, LineOK, Others
<1>6. \A i \in 1 .. N : log[i].pid \in Pid /\ state[log[i].pid] # "unborn" BY <1>2 DEF TraceTypeOK, ProcessInv
<1>7. \A i \in 1 .. N : log[i].call = "close" => log[i].on \in 1 .. i - 1 BY <1>2 DEF GivenInv, OnFdCall
<1>8. \A p \in Pid : \A fd \in DOMAIN fds[p] : log[fds[p][fd].born].fd = fd /\ fds[p][fd].born \in 1 .. N
  BY <1>2 DEF GivenInv
<1>9. l.call = "close" => ~Gives(l) /\ l.call \in OnFdCall BY DEF Gives, IsOpened, OnFdCall
<1>10. \A i \in 1 .. N : log[i].call = "close" =>
         /\ \A fd \in DOMAIN fds[log[i].pid] : fds[log[i].pid][fd].born # log[i].on
         /\ i = N => log[i].fd \notin DOMAIN fds[log[i].pid]
  BY <1>2 DEF ClosedInv
<1> HIDE DEF N
<1>11. \A i \in DOMAIN log' : log'[i].call = "close" =>
         \A fd \in DOMAIN fds'[log'[i].pid] : fds'[log'[i].pid][fd].born # log'[i].on
  <2> SUFFICES ASSUME NEW i \in DOMAIN log', log'[i].call = "close", NEW fd \in DOMAIN fds'[log'[i].pid]
               PROVE  fds'[log'[i].pid][fd].born # log'[i].on
    OBVIOUS
  <2> DEFINE q == log'[i].pid
             o == log'[i].on
             b == fds'[q][fd].born
  <2>1. CASE i = N + 1
    <3>1. l.call = "close" /\ q = l.pid /\ o = l.on /\ q \in Pid BY <1>2, <1>5, <2>1
    <3>2. o = fds[q][l.fd].born /\ l.fd \in DOMAIN fds[q] BY <1>4, <1>9, <3>1
    <3>3. fd \in DOMAIN fds[q] /\ b = fds[q][fd].born /\ fd # l.fd BY <1>3, <1>5, <1>9, <3>1
    <3> HIDE DEF q, o, b
    <3>4. b # o BY <1>8, <3>1, <3>2, <3>3
    <3> QED BY <3>4 DEF q, o, b
  <2>2. CASE i # N + 1
    <3>1. i \in 1 .. N /\ log'[i] = log[i] BY <1>2, <2>2
    <3>2. /\ q \in Pid /\ state[q] # "unborn" /\ o \in 1 .. i - 1
          /\ \A d \in DOMAIN fds[q] : fds[q][d].born # o
      BY <1>6, <1>7, <1>10, <3>1
    <3>3. b = N + 1 \/ (fd \in DOMAIN fds[q] /\ b = fds[q][fd].born) BY <1>3, <3>2
    <3> HIDE DEF q, o, b
    <3>4. b # o BY <1>2, <3>1, <3>2, <3>3
    <3> QED BY <3>4 DEF q, o, b
  <2> QED BY <2>1, <2>2
<1>12. \A i \in DOMAIN log' : log'[i].call = "close" /\ i = Len(log') => log'[i].fd \notin DOMAIN fds'[log'[i].pid]
  <2> SUFFICES ASSUME l.call = "close" PROVE l.fd \notin DOMAIN fds'[l.pid] BY <1>2
  <2> QED BY <1>3, <1>5, <1>9
<1>13. \A i, j \in DOMAIN log' :
         i < j /\ log'[i].call = "close" /\ log'[j].pid = log'[i].pid =>
           /\ log'[j].on # log'[i].on
           /\ j = i + 1 => ~(log'[j].call = "close" /\ log'[j].pid = log'[i].pid /\ log'[j].fd = log'[i].fd)
  <2> SUFFICES ASSUME NEW i \in DOMAIN log', NEW j \in DOMAIN log', i < j, log'[i].call = "close", log'[j].pid = log'[i].pid
               PROVE  /\ log'[j].on # log'[i].on
                      /\ j = i + 1 => ~(log'[j].call = "close" /\ log'[j].fd = log'[i].fd)
    OBVIOUS
  <2>1. i \in 1 .. N /\ log'[i] = log[i] BY <1>2
  <2>2. CASE j = N + 1
    <3>1. log'[j] = l /\ log[i].pid = l.pid /\ log[i].call = "close" BY <1>2, <2>1, <2>2
    <3>2. log[i].on \in 1 .. i - 1 /\ \A fd \in DOMAIN fds[l.pid] : fds[l.pid][fd].born # log[i].on
      BY <1>7, <1>10, <2>1, <3>1
    <3>3. l.on # log[i].on BY <1>2, <1>4, <2>1, <3>2
    <3>4. j = i + 1 => ~(l.call = "close" /\ l.fd = log[i].fd)
      <4> SUFFICES ASSUME j = i + 1, l.call = "close", l.fd = log[i].fd PROVE FALSE OBVIOUS
      <4>1. i = N BY <1>2, <2>1, <2>2
      <4>2. log[i].fd \notin DOMAIN fds[l.pid] BY <1>10, <2>1, <3>1, <4>1
      <4> QED BY <1>4, <1>9, <4>2
    <3> QED BY <2>1, <3>1, <3>3, <3>4
  <2>3. CASE j # N + 1
    <3>1. j \in 1 .. N /\ log'[j] = log[j] BY <1>2, <2>3
    <3>2. /\ log[j].on # log[i].on
          /\ j = i + 1 => ~Closes(j, log[i].pid, log[i].fd)
      BY <1>2, <2>1, <3>1 DEF ClosedInv
    <3> QED BY <2>1, <3>1, <3>2 DEF Closes
  <2> QED BY <2>2, <2>3
<1> QED BY <1>11, <1>12, <1>13 DEF ClosedInv, Closes
-----------------------------------------------------------------------------
(* What is located.  The lines that the locator sees are lines of the log. *)
LEMMA LinesOfTraceLog ==
  ASSUME TraceTypeOK
  PROVE  TraceLog \in Seq(Range(log))
<1> DEFINE N == Len(log)
           S == Range(log)
<1>1. N \in Nat /\ DOMAIN log = 1 .. N /\ log \in Seq(S) BY LogType DEF TraceTypeOK
<1>2. CASE ~Merges BY <1>1, <1>2 DEF TraceLog
<1>3. CASE Merges
  <2> DEFINE at == {i \in 1 .. N : RunEnd(log, i) - RunStart(log, i) + 1 < Collapse \/ i = RunEnd(log, i)}
             s == [i \in 1 .. N |-> log[RunStart(log, i)]]
             x == Pick(s, at)
  <2>1. TraceLog = x BY <1>1, <1>3 DEF TraceLog, Merged
  <2>2. \A i \in 1 .. N : s[i] \in S
    <3> SUFFICES ASSUME NEW i \in 1 .. N PROVE log[RunStart(log, i)] \in S OBVIOUS
    <3> DEFINE r == RunStart(log, i)
    <3>1. r \in 1 .. i BY <1>1, RunStartIs
    <3> HIDE DEF r
    <3>2. r \in DOMAIN log BY <1>1, <3>1
    <3> QED BY <3>2 DEF Range, r
  <2>3. at \subseteq 1 .. N OBVIOUS
  <2> HIDE DEF at, s, S
  <2>4. ListsAt(x, s, at) BY <1>1, <2>3, PickLists
  <2> HIDE DEF x, N
  <2>5. \A i \in at : s[i] \in S BY <2>2, <2>3
  <2>6. x \in Seq(S) BY <2>4, <2>5, ListIs
  <2> QED BY <2>1, <2>6 DEF S
<1> QED BY <1>2, <1>3

LEMMA LinesOfEvents ==
  ASSUME TraceTypeOK, NEW p
  PROVE  Events(TraceLog, p) \in Seq(Range(log))
<1> DEFINE s == TraceLog
           S == Range(log)
           n == Len(s)
<1>1. s \in Seq(S) BY LinesOfTraceLog
<1> HIDE DEF s, S
<1>2. n \in Nat /\ DOMAIN s = 1 .. n /\ \A i \in 1 .. n : s[i] \in S BY <1>1
<1> DEFINE at == {i \in 1 .. n : Owner(s, i) = p /\ Kept(s[i])}
           h == Pick(s, at)
<1>3. Events(s, p) = h BY <1>2 DEF Events
<1>4. at \subseteq 1 .. n OBVIOUS
<1> HIDE DEF at
<1>5. ListsAt(h, s, at) BY <1>2, <1>4, PickLists
<1>6. \A i \in at : s[i] \in S BY <1>2, <1>4
<1> HIDE DEF h
<1>7. h \in Seq(S) BY <1>5, <1>6, ListIs
<1> QED BY <1>3, <1>7 DEF s, S

LEMMA LineTypes ==
  ASSUME TraceTypeOK, NEW s \in Seq(Range(log))
  PROVE  /\ Len(s) \in Nat /\ DOMAIN s = 1 .. Len(s)
         /\ \A i \in DOMAIN s : LineOK(s[i])
<1>1. \A l \in Range(log) : LineOK(l)
  <2>1. \A i \in DOMAIN log : LineOK(log[i]) BY DEF TraceTypeOK, LineOK
  <2> QED BY <2>1 DEF Range
<1> DEFINE S == Range(log)
<1>2. s \in Seq(S) OBVIOUS
<1> HIDE DEF S
<1>3. Len(s) \in Nat /\ DOMAIN s = 1 .. Len(s) /\ \A i \in DOMAIN s : s[i] \in S BY <1>2
<1> QED BY <1>1, <1>3 DEF S

LEMMA ErrIs ==
  ASSUME NEW kind, NEW on
  PROVE  Err(kind, on).kind = kind /\ Err(kind, on).on = on /\ Err(kind, on).fd = 0 /\ Err(kind, on).peer = {}
BY DEF Err

LEMMA ErrType ==
  ASSUME NEW kind \in {"none", "magic", "net", "fill", "reuse", "create", "nvram", "ipc", "shm"},
         NEW on \in SUBSET (File \cup Device)
  PROVE  Err(kind, on) \in Error
BY DEF Err, Error

LEMMA NoneIs == None \in Error /\ None.kind = "none"
BY ErrType, ErrIs DEF None

(* An error of a file is about files, and what it would fill was read      *)
(* empty or is missing.                                                    *)
LEMMA NewFileIs ==
  ASSUME NEW s, NEW h, NEW f \in File
  PROVE  /\ AccessError(s, h, f) \in Error
         /\ AccessError(s, h, f).kind = "fill" => AccessError(s, h, f).on = {f}
<1>1. MissingNvram(s, h) \subseteq File BY FileAssumption DEF MissingNvram
<1>2. AccessError(s, h, f) \in {None, Err("reuse", {f}), Err("create", {f}), Err("fill", {f}), Err("nvram", MissingNvram(s, h))}
  BY DEF AccessError, NewFile
<1>3. {f} \in SUBSET (File \cup Device) /\ MissingNvram(s, h) \in SUBSET (File \cup Device) BY <1>1
<1>4. /\ Err("reuse", {f}) \in Error /\ Err("create", {f}) \in Error /\ Err("fill", {f}) \in Error
      /\ Err("nvram", MissingNvram(s, h)) \in Error
  BY <1>3, ErrType
<1>5. /\ Err("reuse", {f}).kind = "reuse" /\ Err("create", {f}).kind = "create" /\ Err("fill", {f}).on = {f}
      /\ Err("nvram", MissingNvram(s, h)).kind = "nvram"
  BY ErrIs
<1> QED BY <1>2, <1>4, <1>5, NoneIs

LEMMA FileErrorIs ==
  ASSUME NEW s, NEW h, NEW n \in Nat, DOMAIN h = 1 .. n, \A i \in 1 .. n : LineOK(h[i])
  PROVE  /\ FileError(s, h) \in Error
         /\ EmptyFile(h) # {} => FileError(s, h) = Err("fill", EmptyFile(h))
         /\ FileError(s, h).kind = "fill" =>
              FileError(s, h).on = EmptyFile(h) \/ \E i \in Missing(h) : FileError(s, h).on = {h[i].what}
<1> DEFINE error(i) == AccessError(s, h, h[i].what)
           open == {i \in Missing(h) : error(i) # None /\ ~IsErrorFixed(error(i))}
           e == FileError(s, h)
<1>1. e = IF EmptyFile(h) # {} THEN Err("fill", EmptyFile(h)) ELSE IF open # {} THEN error(Max(open)) ELSE None
  BY DEF FileError
<1>2. EmptyFile(h) \in SUBSET (File \cup Device) BY DEF EmptyFile
<1>3. Err("fill", EmptyFile(h)) \in Error /\ Err("fill", EmptyFile(h)).on = EmptyFile(h) BY <1>2, ErrType, ErrIs
<1>4. open # {} => Max(open) \in Missing(h)
  <2>1. open \in SUBSET Nat /\ \A i \in open : i <= n BY DEF Missing
  <2>2. open # {} => Max(open) \in open
    <3> HIDE DEF open
    <3> QED BY <2>1, MaxIs
  <2> QED BY <2>2
<1>5. \A i \in Missing(h) : h[i].what \in File BY DEF Missing, LineOK
<1>6. \A i \in Missing(h) : error(i) \in Error /\ (error(i).kind = "fill" => error(i).on = {h[i].what}) BY <1>5, NewFileIs
<1> HIDE DEF error, open, e
<1>7. e \in Error /\ (EmptyFile(h) # {} => e = Err("fill", EmptyFile(h))) BY <1>1, <1>3, <1>4, <1>6, NoneIs
<1>8. e.kind = "fill" => e.on = EmptyFile(h) \/ \E i \in Missing(h) : e.on = {h[i].what}
  <2>1. CASE EmptyFile(h) # {} BY <1>1, <1>3, <2>1
  <2>2. CASE EmptyFile(h) = {} /\ open # {}
    <3>1. e = error(Max(open)) BY <1>1, <2>2
    <3> DEFINE i == Max(open)
    <3>2. i \in Missing(h) /\ e = error(i) BY <1>4, <2>2, <3>1
    <3> HIDE DEF i
    <3> QED BY <1>6, <3>2
  <2>3. CASE EmptyFile(h) = {} /\ open = {} BY <1>1, <2>3, NoneIs
  <2> QED BY <2>1, <2>2, <2>3
<1> QED BY <1>7, <1>8 DEF e

(* The first socket that failed is one of them.                            *)
LEMMA FirstIs ==
  ASSUME NEW h, NEW n \in Nat, DOMAIN h = 1 .. n, NEW failed, failed # {}, \A fd \in failed : OnFd(h, fd) # {}
  PROVE  (CHOOSE fd \in failed : \A e \in failed : Min(OnFd(h, fd)) <= Min(OnFd(h, e))) \in failed
<1> DEFINE T == {Min(OnFd(h, fd)) : fd \in failed}
<1>1. \A fd \in failed : Min(OnFd(h, fd)) \in Nat
  <2> SUFFICES ASSUME NEW fd \in failed PROVE Min(OnFd(h, fd)) \in Nat OBVIOUS
  <2> DEFINE S == OnFd(h, fd)
  <2>1. S \in SUBSET Nat /\ S # {} BY DEF OnFd
  <2> HIDE DEF S
  <2>2. Min(S) \in S BY <2>1, MinIs
  <2> QED BY <2>1, <2>2 DEF S
<1>2. T \in SUBSET Nat /\ T # {} BY <1>1
<1>3. \E m \in T : \A t \in T : m <= t
  <2> HIDE DEF T
  <2> QED BY <1>2, Least
<1>4. \E fd \in failed : \A e \in failed : Min(OnFd(h, fd)) <= Min(OnFd(h, e)) BY <1>3
<1> QED BY <1>4

LEMMA IpcErrorIs ==
  ASSUME NEW h, NEW n \in Nat, DOMAIN h = 1 .. n
  PROVE  /\ IpcError(h) \in Error /\ IpcError(h).kind \in {"none", "ipc"}
         /\ \A fd \in Fd :
              SocketFailed(h, fd) /\ (\A e \in Fd : SocketFailed(h, e) => connectFd[e] \in Known) => IpcError(h).kind = "ipc"
<1> DEFINE failed == {fd \in Fd : SocketFailed(h, fd)}
           first == CHOOSE fd \in failed : \A e \in failed : Min(OnFd(h, fd)) <= Min(OnFd(h, e))
           peer == connectFd[first]
           x == [kind |-> "ipc", on |-> {}, fd |-> first, peer |-> {peer}]
<1>1. IpcError(h) = IF failed = {} \/ peer \notin Known THEN None ELSE x BY DEF IpcError
<1>2. failed # {} => first \in failed
  <2>1. \A fd \in failed : OnFd(h, fd) # {} BY DEF SocketFailed, At
  <2> HIDE DEF failed
  <2> QED BY <2>1, FirstIs
<1> HIDE DEF first
<1>3. failed # {} => first \in Nat BY <1>2, NumberAssumption
<1>4. failed # {} /\ peer \in Known => x \in Error /\ x.kind = "ipc" BY <1>3 DEF Error
<1>5. \A fd \in Fd : SocketFailed(h, fd) => failed # {} /\ first \in Fd /\ SocketFailed(h, first) BY <1>2
<1> HIDE DEF failed, x
<1>6. IpcError(h) \in Error /\ IpcError(h).kind \in {"none", "ipc"} BY <1>1, <1>4, NoneIs
<1>7. \A fd \in Fd :
        SocketFailed(h, fd) /\ (\A e \in Fd : SocketFailed(h, e) => connectFd[e] \in Known) => IpcError(h).kind = "ipc"
  BY <1>1, <1>4, <1>5
<1> QED BY <1>6, <1>7

LEMMA NetIs ==
  ASSUME NEW x, \A i \in DOMAIN x : LineOK(x[i])
  PROVE  /\ NetworkError(x) \in Error /\ NetworkError(x).kind # "fill"
         /\ Err("net", MissInterfaces(x)) \in Error /\ Err("net", MissInterfaces(x)).kind = "net"
<1>1. Network(x) \in SUBSET (File \cup Device) /\ MissInterfaces(x) \in SUBSET (File \cup Device)
  BY DEF Network, MissInterfaces, IsMissing, LineOK
<1>2. Err("net", Network(x)) \in Error /\ Err("net", MissInterfaces(x)) \in Error BY <1>1, ErrType
<1>3. Err("net", Network(x)).kind = "net" /\ Err("net", MissInterfaces(x)).kind = "net" BY ErrIs
<1> QED BY <1>2, <1>3, NoneIs DEF NetworkError

LEMMA ShmIs ==
  ASSUME NEW h
  PROVE  ShmError(h) \in Error /\ ShmError(h).kind # "fill"
<1>1. Err("shm", {}) \in Error /\ Err("shm", {}).kind = "shm" BY ErrType, ErrIs
<1> QED BY <1>1, NoneIs DEF ShmError

(* The new errors of a list are of it, and if there are none, there was    *)
(* none, or it has been fixed.                                             *)
LEMMA NewIs ==
  ASSUME NEW n \in Nat, NEW errors, DOMAIN errors = 1 .. n, NEW S, \A k \in 1 .. n : errors[k] \in S
  PROVE  /\ New(errors) \in Seq(S \ {None})
         /\ New(errors) = << >> => \A k \in 1 .. n : errors[k] = None \/ IsErrorFixed(errors[k])
<1> DEFINE at == {k \in 1 .. n : errors[k] # None /\ ~IsErrorFixed(errors[k])}
           x == Pick(errors, at)
<1>1. New(errors) = x BY DEF New
<1>2. at \subseteq 1 .. n /\ (at = {} => \A k \in 1 .. n : errors[k] = None \/ IsErrorFixed(errors[k])) OBVIOUS
<1> HIDE DEF at
<1>3. ListsAt(x, errors, at) BY <1>2, PickLists
<1> DEFINE T == S \ {None}
<1>4. \A k \in at : errors[k] \in T BY <1>2 DEF at
<1> HIDE DEF x, T
<1>5. (x = << >> => at = {}) /\ x \in Seq(T) BY <1>3, <1>4, ListIs
<1> QED BY <1>1, <1>2, <1>5 DEF T

(* Nothing is located only if no process shows an error that is new; what  *)
(* is to be filled is an error of a file.                                  *)
Shown(s, p) == {NetworkError(Events(s, p)), FileError(s, Events(s, p)), IpcError(Events(s, p)), ShmError(Events(s, p))}

LEMMA LocatedIs ==
  ASSUME TraceTypeOK
  PROVE  /\ Located(TraceLog) \in Error
         /\ Located(TraceLog) = None =>
              \A p \in Range(Worklist(TraceLog)) : \A e \in Shown(TraceLog, p) : e = None \/ IsErrorFixed(e)
         /\ Located(TraceLog).kind = "fill" => \E p : Located(TraceLog) = FileError(TraceLog, Events(TraceLog, p))
<1> DEFINE s == TraceLog
           work == Worklist(s)
           W == DOMAIN work
           h(k) == Events(s, work[k])
           net == [k \in W |-> NetworkError(h(k))]
           file == [k \in W |-> FileError(s, h(k))]
           ipc == [k \in W |-> IpcError(h(k))]
           shm == [k \in W |-> ShmError(h(k))]
           again == {k \in W : found.kind = "fill" /\ SystemFileLast(h(k)) = found.on}
           miss == IF MissInterfaces(s) = {} THEN << >> ELSE <<Err("net", MissInterfaces(s))>>
           rest == New(net) \o miss \o New(file) \o New(ipc) \o New(shm)
<1>1. s \in Seq(Range(log)) BY LinesOfTraceLog
<1>2. Len(s) \in Nat /\ \A i \in DOMAIN s : LineOK(s[i])
  <2> HIDE DEF s
  <2> QED BY <1>1, LineTypes
<1>3. PICK n \in Nat : W = 1 .. n
  <2>1. work \in Seq(Children(s)) BY <1>2, WorklistType
  <2> QED BY <2>1
<1>4. \A p : /\ NetworkError(Events(s, p)) \in Error /\ NetworkError(Events(s, p)).kind # "fill"
             /\ FileError(s, Events(s, p)) \in Error
             /\ IpcError(Events(s, p)) \in Error /\ IpcError(Events(s, p)).kind \in {"none", "ipc"}
             /\ ShmError(Events(s, p)) \in Error /\ ShmError(Events(s, p)).kind # "fill"
  <2> SUFFICES ASSUME NEW p
               PROVE  /\ NetworkError(Events(s, p)) \in Error /\ NetworkError(Events(s, p)).kind # "fill"
                      /\ FileError(s, Events(s, p)) \in Error
                      /\ IpcError(Events(s, p)) \in Error /\ IpcError(Events(s, p)).kind \in {"none", "ipc"}
                      /\ ShmError(Events(s, p)) \in Error /\ ShmError(Events(s, p)).kind # "fill"
    OBVIOUS
  <2> DEFINE x == Events(s, p)
  <2>1. x \in Seq(Range(log)) BY LinesOfEvents
  <2> HIDE DEF x
  <2>2. PICK m \in Nat : DOMAIN x = 1 .. m /\ \A i \in 1 .. m : LineOK(x[i]) BY <2>1, LineTypes
  <2>3. NetworkError(x) \in Error /\ NetworkError(x).kind # "fill" BY <2>2, NetIs
  <2>4. FileError(s, x) \in Error BY <2>2, FileErrorIs
  <2>5. IpcError(x) \in Error /\ IpcError(x).kind \in {"none", "ipc"} BY <2>2, IpcErrorIs
  <2>6. ShmError(x) \in Error /\ ShmError(x).kind # "fill" BY ShmIs
  <2> QED BY <2>3, <2>4, <2>5, <2>6 DEF x
<1>5. Err("net", MissInterfaces(s)) \in Error /\ Err("net", MissInterfaces(s)).kind = "net"
  <2> HIDE DEF s
  <2> QED BY <1>2, NetIs
<1>6. Located(s) = IF again # {} THEN Err("magic", found.on) ELSE IF rest = << >> THEN None ELSE Head(rest) BY DEF Located
<1>7. Err("magic", found.on) \in Error /\ Err("magic", found.on).kind = "magic"
  <2>1. found.on \in SUBSET (File \cup Device) BY DEF TraceTypeOK, Error
  <2> QED BY <2>1, ErrType, ErrIs
<1> DEFINE F == {FileError(s, h(k)) : k \in W}
           S == {e \in Error : e.kind # "fill"} \cup F
           T == S \ {None}
<1>8. /\ \A k \in W : net[k] \in S /\ file[k] \in S /\ ipc[k] \in S /\ shm[k] \in S
      /\ DOMAIN net = W /\ DOMAIN file = W /\ DOMAIN ipc = W /\ DOMAIN shm = W
  BY <1>4
<1>9. miss \in Seq(T)
  <2>1. Err("net", MissInterfaces(s)) \in T BY <1>5, NoneIs
  <2> HIDE DEF T
  <2> QED BY <2>1
<1>10. T \subseteq Error /\ None \notin T /\ \A e \in T : e.kind = "fill" => \E p : e = FileError(s, Events(s, p)) BY <1>4
<1>11. \A k \in W : /\ net[k] = NetworkError(Events(s, work[k])) /\ file[k] = FileError(s, Events(s, work[k]))
                    /\ ipc[k] = IpcError(Events(s, work[k])) /\ shm[k] = ShmError(Events(s, work[k]))
  OBVIOUS
<1>12. \A p \in Range(work) : \E k \in W : p = work[k] BY DEF Range
<1> HIDE DEF S, T, net, file, ipc, shm, again, miss, work, W
<1>13. /\ New(net) \in Seq(T) /\ (New(net) = << >> => \A k \in W : net[k] = None \/ IsErrorFixed(net[k]))
       /\ New(file) \in Seq(T) /\ (New(file) = << >> => \A k \in W : file[k] = None \/ IsErrorFixed(file[k]))
       /\ New(ipc) \in Seq(T) /\ (New(ipc) = << >> => \A k \in W : ipc[k] = None \/ IsErrorFixed(ipc[k]))
       /\ New(shm) \in Seq(T) /\ (New(shm) = << >> => \A k \in W : shm[k] = None \/ IsErrorFixed(shm[k]))
  <2>1. ASSUME NEW x, DOMAIN x = W, \A k \in W : x[k] \in S
        PROVE  New(x) \in Seq(T) /\ (New(x) = << >> => \A k \in W : x[k] = None \/ IsErrorFixed(x[k]))
    BY <1>3, <2>1, NewIs DEF T
  <2> QED BY <1>8, <2>1
<1> DEFINE a == New(net)
           b == New(file)
           c == New(ipc)
           d == New(shm)
<1>14. a \in Seq(T) /\ b \in Seq(T) /\ c \in Seq(T) /\ d \in Seq(T) /\ rest = a \o miss \o b \o c \o d BY <1>13
<1> HIDE DEF a, b, c, d, rest
<1>15. rest \in Seq(T) /\ (rest = << >> => a = << >> /\ b = << >> /\ c = << >> /\ d = << >>)
  <2>1. /\ rest \in Seq(T) /\ Len(rest) = Len(a) + Len(miss) + Len(b) + Len(c) + Len(d)
        /\ Len(a) \in Nat /\ Len(miss) \in Nat /\ Len(b) \in Nat /\ Len(c) \in Nat /\ Len(d) \in Nat
    BY <1>9, <1>14
  <2>2. rest = << >> => Len(a) = 0 /\ Len(b) = 0 /\ Len(c) = 0 /\ Len(d) = 0 BY <2>1
  <2> QED BY <1>14, <2>1, <2>2
<1>16. rest # << >> => Head(rest) \in T BY <1>15
<1>17. Located(s) \in Error BY <1>6, <1>7, <1>10, <1>16, NoneIs
<1>18. Located(s) = None => \A p \in Range(work) : \A e \in Shown(s, p) : e = None \/ IsErrorFixed(e)
  <2> SUFFICES ASSUME Located(s) = None, NEW p \in Range(work), NEW e \in Shown(s, p) PROVE e = None \/ IsErrorFixed(e)
    OBVIOUS
  <2>1. PICK k \in W : p = work[k] BY <1>12
  <2>2. e \in {net[k], file[k], ipc[k], shm[k]} BY <1>11, <2>1 DEF Shown
  <2>3. CASE rest = << >> BY <1>13, <1>15, <2>2, <2>3 DEF a, b, c, d
  <2>4. CASE rest # << >>
    <3>1. again = {} BY <1>6, <1>7, NoneIs
    <3>2. Head(rest) = None BY <1>6, <2>4, <3>1
    <3> QED BY <1>10, <1>16, <2>4, <3>2
  <2> QED BY <2>3, <2>4
<1>19. Located(s).kind = "fill" => \E p : Located(s) = FileError(s, Events(s, p)) BY <1>6, <1>7, <1>10, <1>16, NoneIs
<1> QED BY <1>17, <1>18, <1>19 DEF s, work
-----------------------------------------------------------------------------
TraceInv == TraceTypeOK /\ GivenInv /\ OpenInv /\ ClosedInv /\ ProcessInv /\ ResultInv /\ FirstInv

LEMMA ClosedIs == IsTable(Closed) /\ DOMAIN Closed = {} /\ Closed \in [DOMAIN Closed -> Service]
BY DEF Closed, IsTable

LEMMA TraceInvInit == TraceInit => TraceInv
<1> SUFFICES ASSUME TraceInit PROVE TraceInv OBVIOUS
<1>1. /\ content \in [File -> {"missing", "empty", "data"}] /\ lacking = Device /\ up \subseteq Service
      /\ log = << >> /\ fds = [p \in Pid |-> Closed] /\ atEnd = {} /\ state = Idle
      /\ connectFd = Closed /\ fixed = {} /\ found = None /\ round = 1 /\ fixes = 0 /\ tracePc = "run"
  BY DEF TraceInit
<1>2. DOMAIN log = {} /\ \A p \in Pid : fds[p] = Closed BY <1>1
<1>3. \A p \in Pid : DOMAIN fds[p] = {} BY <1>2, ClosedIs
<1>4. TraceTypeOK
  <2>1. log \in Seq(Range(log)) BY <1>1
  <2>2. fds \in [Pid -> Range(fds)] /\ \A p \in Pid : IsTable(fds[p])
    <3>1. \A p \in Pid : fds[p] \in Range(fds) BY <1>1 DEF Range
    <3> QED BY <1>1, <1>2, <3>1, ClosedIs
  <2>3. state \in [Pid -> {"unborn", "runs", "blocked", "gone"}] BY <1>1 DEF Idle
  <2>4. round \in DOMAIN MaxLines /\ fixes \in 0 .. MaxFixes
    <3>1. MaxLines \in Seq(Nat) /\ MaxLines # << >> /\ MaxFixes \in Nat BY NumberAssumption
    <3>2. 1 \in DOMAIN MaxLines BY <3>1
    <3> QED BY <1>1, <3>1, <3>2
  <2>5. connectFd \in [DOMAIN connectFd -> Service] /\ DOMAIN connectFd \subseteq Fd BY <1>1, ClosedIs
  <2> QED BY <1>1, <1>2, <2>1, <2>2, <2>3, <2>4, <2>5, NoneIs DEF TraceTypeOK
<1>5. GivenInv /\ OpenInv /\ ClosedInv /\ ProcessInv /\ ResultInv
  BY <1>2, <1>3 DEF GivenInv, OpenInv, ClosedInv, ProcessInv, ResultInv
<1>6. FirstInv BY <1>1 DEF FirstInv
<1> QED BY <1>4, <1>5, <1>6 DEF TraceInv

LEMMA TraceInvRunAgain ==
  ASSUME TraceInv, RunAgain
  PROVE  TraceInv'
<1>1. /\ log' = << >> /\ fds' = [p \in Pid |-> Closed] /\ atEnd' = {} /\ state' = Idle /\ connectFd' = Closed
      /\ round' = round + 1 /\ tracePc' = "run" /\ fixed' = fixed /\ found' = found /\ round < Len(MaxLines)
  BY DEF RunAgain, DeleteLog
<1>2. DOMAIN log' = {} /\ \A p \in Pid : fds'[p] = Closed BY <1>1
<1>3. \A p \in Pid : DOMAIN fds'[p] = {} BY <1>2, ClosedIs
<1>4. TraceTypeOK BY DEF TraceInv
<1>5. TraceTypeOK'
  <2>1. log' \in Seq(Range(log')) BY <1>1
  <2>2. fds' \in [Pid -> Range(fds')] /\ \A p \in Pid : IsTable(fds'[p])
    <3>1. \A p \in Pid : fds'[p] \in Range(fds') BY <1>1 DEF Range
    <3> QED BY <1>1, <1>2, <3>1, ClosedIs
  <2>3. state' \in [Pid -> {"unborn", "runs", "blocked", "gone"}] BY <1>1 DEF Idle
  <2>4. round' \in DOMAIN MaxLines
    <3>1. MaxLines \in Seq(Nat) /\ round \in DOMAIN MaxLines BY <1>4, NumberAssumption DEF TraceTypeOK
    <3> QED BY <1>1, <3>1
  <2>5. connectFd' \in [DOMAIN connectFd' -> Service] /\ DOMAIN connectFd' \subseteq Fd BY <1>1, ClosedIs
  <2>6. Helps \/ UNCHANGED <<firmware, fixes>> BY DEF RunAgain
  <2>7. /\ content' \in [File -> {"missing", "empty", "data"}] /\ lacking' \subseteq Device /\ up' \subseteq Service
        /\ fixes' \in 0 .. MaxFixes
    <3>1. CASE Helps
      <4>1. /\ fixes < MaxFixes /\ fixes' = fixes + 1 /\ content' \in [File -> {"missing", "empty", "data"}]
            /\ lacking' = lacking \ found.on /\ up' = up \cup found.peer
        BY <3>1 DEF Helps
      <4>2. /\ fixes \in 0 .. MaxFixes /\ MaxFixes \in Nat /\ lacking \subseteq Device /\ up \subseteq Service
            /\ found.peer \subseteq Service
        BY <1>4, NumberAssumption, PeerAssumption DEF TraceTypeOK, Error
      <4>3. fixes' \in 0 .. MaxFixes BY <4>1, <4>2
      <4>4. lacking' \subseteq Device /\ up' \subseteq Service BY <4>1, <4>2
      <4> QED BY <4>1, <4>3, <4>4
    <3>2. CASE UNCHANGED <<firmware, fixes>> BY <1>4, <3>2 DEF TraceTypeOK, firmware
    <3> QED BY <2>6, <3>1, <3>2
  <2>8. found' \in Error /\ fixed' \subseteq Error BY <1>1, <1>4 DEF TraceTypeOK
  <2> QED BY <1>1, <1>2, <2>1, <2>2, <2>3, <2>4, <2>5, <2>7, <2>8 DEF TraceTypeOK, IsTable
<1>6. GivenInv' /\ OpenInv' /\ ClosedInv' /\ ProcessInv' /\ ResultInv'
  BY <1>2, <1>3 DEF GivenInv, OpenInv, ClosedInv, ProcessInv, ResultInv
<1>7. FirstInv'
  <2>1. round \in Nat /\ round >= 1 BY <1>4, NumberAssumption DEF TraceTypeOK
  <2> QED BY <1>1, <2>1 DEF FirstInv
<1> QED BY <1>5, <1>6, <1>7 DEF TraceInv

(* What the parts about the log and the kernel depend on.                  *)
LEMMA SameInv ==
  ASSUME TraceInv, UNCHANGED <<log, fds, state, content, connectFd>>
  PROVE  GivenInv' /\ OpenInv' /\ ClosedInv' /\ ProcessInv' /\ ResultInv'
<1>1. GivenInv /\ OpenInv /\ ClosedInv /\ ProcessInv /\ ResultInv BY DEF TraceInv
<1>2. GivenInv' BY <1>1 DEF GivenInv
<1>3. OpenInv' BY <1>1 DEF OpenInv, KeptOpen, Closes
<1>4. ClosedInv' BY <1>1 DEF ClosedInv, Closes
<1>5. ProcessInv' BY <1>1 DEF ProcessInv
<1>6. ResultInv' BY <1>1 DEF ResultInv
<1> QED BY <1>2, <1>3, <1>4, <1>5, <1>6

LEMMA TraceInvLocate ==
  ASSUME TraceInv, Locate
  PROVE  TraceInv'
<1>1. /\ found' = Located(TraceLog) /\ fixed' = fixed \cup {found'} /\ tracePc' = "located"
      /\ UNCHANGED <<firmware, log, kernel, connectFd, round, fixes>>
  BY DEF Locate
<1>2. TraceTypeOK BY DEF TraceInv
<1>3. found' \in Error BY <1>1, <1>2, LocatedIs
<1>4. /\ content' = content /\ lacking' = lacking /\ up' = up /\ log' = log /\ fds' = fds /\ atEnd' = atEnd /\ state' = state
      /\ connectFd' = connectFd /\ round' = round /\ fixes' = fixes
  BY <1>1 DEF firmware, kernel
<1>5. found' \in Error /\ fixed' \subseteq Error /\ tracePc' \in {"run", "located"} BY <1>1, <1>2, <1>3 DEF TraceTypeOK
<1>6. TraceTypeOK' BY <1>2, <1>4, <1>5 DEF TraceTypeOK, IsTable
<1>7. FirstInv' BY <1>1 DEF FirstInv
<1> QED BY <1>4, <1>6, <1>7, SameInv DEF TraceInv

LEMMA TraceInvCall ==
  ASSUME TraceInv, NEW p \in Pid, Call(p)
  PROVE  TraceInv'
<1>1. TraceTypeOK /\ GivenInv /\ OpenInv /\ ClosedInv /\ ProcessInv /\ ResultInv /\ FirstInv BY DEF TraceInv
<1>2. PICK l : Step(l) BY <1>1, CallStep
<1>3. TraceTypeOK' BY <1>1, <1>2, StepType
<1>4. GivenInv' BY <1>1, <1>2, StepGiven
<1>5. OpenInv' BY <1>1, <1>2, StepOpen
<1>6. ClosedInv' BY <1>1, <1>2, StepClosed
<1>7. ProcessInv' BY <1>1, <1>2, StepProcess
<1>8. ResultInv' BY <1>1, <1>2, StepResult
<1>9. FirstInv' BY <1>1, <1>2 DEF FirstInv, Step, Others, locator
<1> QED BY <1>3, <1>4, <1>5, <1>6, <1>7, <1>8, <1>9 DEF TraceInv

LEMMA TraceInvNext == TraceInv /\ [TraceNext]_traceVars => TraceInv'
<1> SUFFICES ASSUME TraceInv, [TraceNext]_traceVars PROVE TraceInv' OBVIOUS
<1>1. CASE \E p \in Pid : Call(p) BY <1>1, TraceInvCall
<1>2. CASE Locate BY <1>2, TraceInvLocate
<1>3. CASE RunAgain BY <1>3, TraceInvRunAgain
<1>4. CASE UNCHANGED traceVars
  <2>1. /\ content' = content /\ lacking' = lacking /\ up' = up /\ log' = log /\ fds' = fds /\ atEnd' = atEnd /\ state' = state
        /\ connectFd' = connectFd /\ fixed' = fixed /\ found' = found /\ round' = round /\ fixes' = fixes
        /\ tracePc' = tracePc
    BY <1>4 DEF traceVars, firmware, kernel, locator
  <2>2. TraceTypeOK' BY <2>1 DEF TraceInv, TraceTypeOK, IsTable
  <2>3. FirstInv' BY <2>1 DEF TraceInv, FirstInv
  <2> QED BY <2>1, <2>2, <2>3, SameInv DEF TraceInv
<1> QED BY <1>1, <1>2, <1>3, <1>4 DEF TraceNext

(* The log, the descriptors, the processes and what was located are what   *)
(* the operators of the module take them for.                              *)
THEOREM TraceTyped == TraceSpec => []TraceTypeOK
<1>1. TraceInv => TraceTypeOK BY DEF TraceInv
<1> QED BY <1>1, TraceInvInit, TraceInvNext, PTL DEF TraceSpec
-----------------------------------------------------------------------------
(* What the events of a process say of its lines.                          *)
LEMMA EventIs ==
  ASSUME NEW h, NEW p, NEW n, NEW d, Traced(h, p, n, d), NEW k \in 1 .. n, Clear(d[k])
  PROVE  /\ d[k] \in DOMAIN log
         /\ h[k].call = log[d[k]].call /\ h[k].fd = log[d[k]].fd /\ h[k].what = log[d[k]].what /\ h[k].ret = log[d[k]].ret
         /\ h[k].call # "signal" => log[d[k]].pid = p
<1>1. d[k] \in DOMAIN log /\ SameText(h[k], log[d[k]]) /\ (h[k].call # "signal" => log[d[k]].pid = p) BY DEF Traced
<1> QED BY <1>1, SameTextIs

LEMMA EventOf ==
  ASSUME TraceInv, NEW h, NEW p, NEW n, NEW d, Traced(h, p, n, d),
         NEW i \in DOMAIN log, Clear(i), log[i].pid = p, log[i].call # "signal", Kept(log[i])
  PROVE  \E k \in 1 .. n :
           /\ i <= d[k] /\ d[k] \in DOMAIN log /\ Alike(i, d[k])
           /\ h[k].call = log[i].call /\ h[k].fd = log[i].fd /\ h[k].what = log[i].what /\ h[k].ret = log[i].ret
<1>2. PICK k \in 1 .. n : i <= d[k] /\ Alike(i, d[k]) BY DEF Traced
<1>3. d[k] \in DOMAIN log BY DEF Traced
<1>4. Len(log) \in Nat /\ DOMAIN log = 1 .. Len(log) BY LogType DEF TraceInv
<1> DEFINE j == d[k]
<1>5. j \in i .. j BY <1>2, <1>3, <1>4
<1>6. SameText(log[i], log[j]) BY <1>2, <1>5 DEF Alike
<1>7. j = d[k] OBVIOUS
<1> HIDE DEF j
<1>8. /\ log[j].call = log[i].call /\ log[j].fd = log[i].fd /\ log[j].what = log[i].what /\ log[j].ret = log[i].ret
  BY <1>6, SameTextIs
<1>9. Clear(j) BY <1>8 DEF Clear
<1>10. /\ h[k].call = log[j].call /\ h[k].fd = log[j].fd /\ h[k].what = log[j].what /\ h[k].ret = log[j].ret
  BY <1>7, <1>9, EventIs
<1> QED BY <1>2, <1>3, <1>8, <1>10

(* A close never blocks.                                                   *)
LEMMA CloseKept ==
  ASSUME TraceInv, NEW i \in DOMAIN log, log[i].call = "close"
  PROVE  Kept(log[i])
<1>1. log[i].ret # "blocked" BY DEF TraceInv, ResultInv, Waiting
<1> QED BY <1>1 DEF Kept

LEMMA Ordered ==
  ASSUME TraceInv, NEW h, NEW p, NEW n \in Nat, NEW d, Traced(h, p, n, d), NEW k \in 1 .. n, NEW m \in 1 .. n
  PROVE  (d[k] < d[m] <=> k < m) /\ (d[k] <= d[m] <=> k <= m) /\ d[k] \in Nat
<1>1. Len(log) \in Nat /\ DOMAIN log = 1 .. Len(log) BY LogType DEF TraceInv
<1>2. d[k] \in Nat /\ d[m] \in Nat BY <1>1 DEF Traced
<1>3. (k < m => d[k] < d[m]) /\ (m < k => d[m] < d[k]) BY DEF Traced
<1>4. k = m => d[k] = d[m] OBVIOUS
<1>5. k < m \/ k = m \/ m < k OBVIOUS
<1> QED BY <1>2, <1>3, <1>4, <1>5

(* The reads of a descriptor until it is closed: the first of them tells   *)
(* the same in both.                                                       *)
ReadsOf(p, a, c) == {i \in a .. c : log[i].call = "read" /\ log[i].pid = p /\ log[i].on = log[a].on}

ReadAlike(h, p, ka, kc, a, c) ==
  /\ ReadsOf(p, a, c) # {} <=> Reads(h, ka, kc) # {}
  /\ Reads(h, ka, kc) # {} => log[Min(ReadsOf(p, a, c))].ret = h[Min(Reads(h, ka, kc))].ret

LEMMA ReadsMatch ==
  ASSUME TraceInv, ~Blurred, NEW h, NEW p, NEW n \in Nat, NEW d, Traced(h, p, n, d),
         NEW ka \in 1 .. n, NEW kc \in 1 .. n, ka < kc, NEW a, NEW c, a = d[ka], c = d[kc], h[ka].fd = log[a].fd,
         IsOpened(log[a]), log[a].pid = p, Closes(c, p, log[a].fd), \A i \in a + 1 .. c - 1 : ~Closes(i, p, log[a].fd)
  PROVE  ReadAlike(h, p, ka, kc, a, c)
<1> DEFINE fd == log[a].fd
           L == ReadsOf(p, a, c)
           H == Reads(h, ka, kc)
<1>1. Len(log) \in Nat /\ DOMAIN log = 1 .. Len(log) BY LogType DEF TraceInv
<1>2. \A i : Clear(i) BY DEF Clear
<1>3. a \in DOMAIN log /\ c \in DOMAIN log /\ a < c BY Ordered DEF Traced
<1>4. log[a].on = a BY <1>3 DEF TraceInv, GivenInv, Gives
<1>5. \A k \in H : d[k] \in L
  <2> SUFFICES ASSUME NEW k \in H PROVE d[k] \in L OBVIOUS
  <2>1. k \in 1 .. n /\ ka < k /\ k < kc /\ h[k].call = "read" /\ h[k].fd = h[ka].fd BY DEF Reads
  <2> DEFINE i == d[k]
  <2>2. /\ i \in DOMAIN log /\ log[i].call = "read" /\ log[i].fd = fd /\ log[i].pid = p BY <1>2, <2>1, EventIs
  <2>3. a < i /\ i < c BY <2>1, Ordered
  <2> HIDE DEF i
  <2>4. KeptOpen(a, i - 1)
    <3>1. \A m \in a + 1 .. i - 1 : m \in a + 1 .. c - 1 BY <1>1, <1>3, <2>2, <2>3
    <3> QED BY <3>1 DEF KeptOpen, Gives
  <2>5. log[i].on = a BY <1>3, <2>2, <2>3, <2>4 DEF TraceInv, OpenInv, OnFdCall
  <2>6. i \in a .. c BY <1>1, <1>3, <2>2, <2>3
  <2>7. i \in L BY <1>4, <2>2, <2>5, <2>6 DEF ReadsOf
  <2> QED BY <2>7 DEF i
<1>6. \A i \in L : \E k \in H : i <= d[k] /\ Alike(i, d[k])
  <2> SUFFICES ASSUME NEW i \in L PROVE \E k \in H : i <= d[k] /\ Alike(i, d[k]) OBVIOUS
  <2>1. i \in a .. c /\ i \in DOMAIN log /\ log[i].call = "read" /\ log[i].pid = p /\ log[i].on = a
    <3>1. i \in a .. c /\ log[i].call = "read" /\ log[i].pid = p /\ log[i].on = a BY <1>4 DEF ReadsOf
    <3> QED BY <1>1, <1>3, <3>1
  <2>2. a \in 1 .. i - 1 /\ log[i].fd = fd
    <3>1. log[i].on \in 1 .. i - 1 /\ log[log[i].on].fd = log[i].fd BY <2>1 DEF TraceInv, GivenInv, OnFdCall
    <3> QED BY <2>1, <3>1
  <2>3. log[c].call = "close" BY DEF Closes
  <2>10. Kept(log[i])
    <3>1. log[c].pid = p BY DEF Closes
    <3>2. i < c BY <1>1, <1>3, <2>1, <2>3
    <3>3. log[i].ret # "blocked" BY <1>3, <2>1, <3>1, <3>2 DEF TraceInv, ProcessInv, Stopped
    <3> QED BY <3>3 DEF Kept
  <2>4. PICK k \in 1 .. n : /\ i <= d[k] /\ d[k] \in DOMAIN log /\ Alike(i, d[k])
                            /\ h[k].call = log[i].call /\ h[k].fd = log[i].fd
    BY <1>2, <2>1, <2>10, EventOf
  <2>5. ~(c <= d[k])
    <3> SUFFICES ASSUME c <= d[k] PROVE FALSE OBVIOUS
    <3>1. c \in i .. d[k] /\ c # i
        <4> QED BY <1>1, <1>3, <2>1, <2>3, <2>4
    <3>2. SameText(log[i], log[c]) BY <2>4, <3>1 DEF Alike
    <3>3. log[i].call = log[c].call BY <3>2, SameTextIs
    <3> QED BY <2>1, <2>3, <3>3
  <2>6. a < d[k] /\ d[k] < c
    <3> DEFINE m == d[k]
    <3>1. i <= m /\ m \in DOMAIN log /\ ~(c <= m) BY <2>4, <2>5
    <3> HIDE DEF m
    <3>2. a < m /\ m < c BY <1>1, <1>3, <2>1, <2>2, <3>1
    <3> QED BY <3>2 DEF m
  <2>7. ka < k /\ k < kc BY <2>6, Ordered
  <2>8. k \in ka + 1 .. kc - 1 BY <2>7
  <2>9. k \in H BY <2>1, <2>2, <2>4, <2>8 DEF Reads
  <2> QED BY <2>4, <2>9
<1>7. L \in SUBSET Nat /\ H \in SUBSET Nat /\ H \subseteq 1 .. n
  <2>1. L \in SUBSET Nat
    <3> QED BY <1>1, <1>3 DEF ReadsOf
  <2>2. H \subseteq 1 .. n BY DEF Reads
  <2> QED BY <2>1, <2>2
<1>8. L # {} <=> H # {} BY <1>5, <1>6
<1> HIDE DEF L, H
<1>9. H # {} => log[Min(L)].ret = h[Min(H)].ret
  <2> SUFFICES ASSUME H # {} PROVE log[Min(L)].ret = h[Min(H)].ret OBVIOUS
  <2> DEFINE i == Min(L)
             k == Min(H)
  <2>1. i \in L /\ \A j \in L : i <= j BY <1>7, <1>8, MinIs
  <2>2. k \in H /\ \A j \in H : k <= j BY <1>7, MinIs
  <2> HIDE DEF i, k
  <2>3. i <= d[k] BY <1>5, <2>1, <2>2
  <2>4. PICK m \in H : i <= d[m] /\ Alike(i, d[m]) BY <1>6, <2>1
  <2>5. k \in 1 .. n /\ m \in 1 .. n /\ k <= m BY <1>7, <2>2
  <2>6. d[k] <= d[m] /\ d[k] \in Nat /\ d[m] \in Nat BY <2>5, Ordered
  <2>7. d[k] \in i .. d[m]
    <3> DEFINE x == d[k]
               y == d[m]
    <3>1. x <= y /\ x \in Nat /\ y \in Nat /\ i <= x BY <2>3, <2>6
    <3>2. i \in Nat BY <1>7, <2>1
    <3> HIDE DEF x, y
    <3>3. x \in i .. y BY <3>1, <3>2
    <3> QED BY <3>3 DEF x, y
  <2>8. SameText(log[i], log[d[k]]) BY <2>4, <2>7 DEF Alike
  <2>9. log[i].ret = log[d[k]].ret BY <2>8, SameTextIs
  <2>10. h[k].ret = log[d[k]].ret BY <1>2, <2>5, EventIs
  <2> QED BY <2>9, <2>10 DEF i, k
<1> QED BY <1>8, <1>9 DEF L, H, ReadAlike

(* What EmptyFile finds has happened.                                      *)
LEMMA EmptyFileIsReal ==
  ASSUME TraceInv, ~Blurred, NEW h, NEW p, NEW n \in Nat, NEW d, Traced(h, p, n, d), Len(h) = n, NEW f \in EmptyFile(h)
  PROVE  \E q \in Pid, a, c \in DOMAIN log : GaveNothing(q, a, c) /\ log[a].what = f
<1> DEFINE ka == LastOpen(h)
           opens == {i \in DOMAIN h : IsOpened(h[i]) /\ h[i].what \notin Ignored}
           closes == {i \in ka + 1 .. Len(h) : h[i].call = "close" /\ h[i].fd = h[ka].fd}
<1>1. Len(log) \in Nat /\ DOMAIN log = 1 .. Len(log) BY LogType DEF TraceInv
<1>2. \A i : Clear(i) BY DEF Clear
<1>3. DOMAIN h = 1 .. n BY DEF Traced
<1>4. ka > 0 /\ h[ka].what = f /\ \E c \in ClosedAt(h, ka) : NothingRead(h, Reads(h, ka, c)) BY DEF EmptyFile
<1>5. ka \in 1 .. n /\ IsOpened(h[ka])
  <2>1. ka = Max({0} \cup opens) BY DEF LastOpen
  <2>2. {0} \cup opens \in SUBSET Nat /\ \A i \in {0} \cup opens : i <= n BY <1>3
  <2> HIDE DEF opens
  <2>3. ka \in {0} \cup opens BY <2>1, <2>2, MaxIs
  <2>4. 0 \in Nat /\ ~(0 > 0) OBVIOUS
  <2>5. ka \in opens BY <1>4, <2>3, <2>4
  <2> QED BY <1>3, <2>5 DEF opens
<1> HIDE DEF ka
<1>6. PICK kc \in ClosedAt(h, ka) : NothingRead(h, Reads(h, ka, kc)) BY <1>4
<1>7. kc \in closes /\ \A i \in closes : kc <= i
  <2>1. closes # {} /\ kc = Min(closes) BY <1>6 DEF ClosedAt
  <2>2. closes \in SUBSET Nat BY <1>5
  <2> HIDE DEF closes
  <2> QED BY <2>1, <2>2, MinIs
<1>8. kc \in 1 .. n /\ ka < kc /\ h[kc].call = "close" /\ h[kc].fd = h[ka].fd BY <1>5, <1>7
<1> DEFINE a == d[ka]
           c == d[kc]
           fd == log[a].fd
           q == p
<1>9. /\ a \in DOMAIN log /\ IsOpened(log[a]) /\ log[a].pid = p /\ log[a].what = f /\ h[ka].fd = fd
      /\ c \in DOMAIN log /\ Closes(c, p, fd)
  <2>1. h[ka].call = "open" BY <1>5 DEF IsOpened
  <2>2. /\ a \in DOMAIN log /\ h[ka].call = log[a].call /\ h[ka].fd = log[a].fd /\ h[ka].what = log[a].what
        /\ h[ka].ret = log[a].ret /\ log[a].pid = p
    BY <1>2, <1>5, <2>1, EventIs
  <2>3. /\ c \in DOMAIN log /\ h[kc].call = log[c].call /\ h[kc].fd = log[c].fd /\ log[c].pid = p
    BY <1>2, <1>8, EventIs
  <2> QED BY <1>4, <1>5, <1>8, <2>2, <2>3 DEF IsOpened, Closes
<1>10. a < c BY <1>5, <1>8, Ordered
<1>11. \A i \in a + 1 .. c - 1 : ~Closes(i, p, fd)
  <2> SUFFICES ASSUME NEW i \in a + 1 .. c - 1, Closes(i, p, fd) PROVE FALSE OBVIOUS
  <2>1. i \in DOMAIN log /\ a < i /\ i < c /\ i + 1 \in DOMAIN log /\ i < i + 1 /\ i + 1 <= c
    <3> HIDE DEF a, c
    <3> QED BY <1>1, <1>9
  <2>2. log[i].call = "close" /\ log[i].pid = p /\ log[i].fd = fd BY DEF Closes
  <2>3. PICK k \in 1 .. n : /\ i <= d[k] /\ d[k] \in DOMAIN log /\ Alike(i, d[k])
                            /\ h[k].call = log[i].call /\ h[k].fd = log[i].fd
    <3>1. Kept(log[i]) BY <2>1, <2>2, CloseKept
    <3> QED BY <1>2, <2>1, <2>2, <3>1, EventOf
  <2>4. ka < k
    <3>1. a < d[k]
      <4> DEFINE m == d[k]
      <4>1. i <= m /\ m \in DOMAIN log BY <2>3
      <4> HIDE DEF a, m
      <4>2. a < m BY <1>1, <1>9, <2>1, <4>1
      <4> QED BY <4>2 DEF m
    <3> QED BY <1>5, <3>1, Ordered
  <2>5. k \in closes BY <1>5, <1>9, <2>2, <2>3, <2>4
  <2>6. kc <= k BY <1>7, <2>5
  <2>7. c <= d[k] BY <1>8, <2>6, Ordered
  <2>8. i + 1 \in i .. d[k]
    <3> DEFINE m == d[k]
    <3>1. c <= m /\ m \in DOMAIN log BY <2>3, <2>7
    <3> HIDE DEF c, m
    <3>2. i + 1 \in i .. m BY <1>1, <1>9, <2>1, <3>1
    <3> QED BY <3>2 DEF m
  <2>9. SameText(log[i], log[i + 1]) BY <2>3, <2>8 DEF Alike
  <2>10. log[i + 1].call = "close" /\ log[i + 1].pid = p /\ log[i + 1].fd = fd BY <2>2, <2>9, SameTextIs
  <2> DEFINE j == i + 1
  <2>11. j \in DOMAIN log /\ i < j /\ j = i + 1 /\ Closes(j, log[i].pid, log[i].fd) /\ log[j].pid = log[i].pid
    BY <2>1, <2>2, <2>10 DEF Closes
  <2> HIDE DEF j
  <2> QED BY <2>1, <2>2, <2>11 DEF TraceInv, ClosedInv
<1>12. log[c].on = log[a].on
  <2>1. log[a].on = a BY <1>9 DEF TraceInv, GivenInv, Gives
  <2>2. KeptOpen(a, c - 1) BY <1>9, <1>11 DEF KeptOpen, Gives
  <2> HIDE DEF a, c
  <2>3. log[c].on = a BY <1>9, <1>10, <2>2 DEF TraceInv, OpenInv, OnFdCall, Closes
  <2> QED BY <2>1, <2>3
<1>13. ReadAlike(h, p, ka, kc, a, c)
  <2>1. a = d[ka] /\ c = d[kc] OBVIOUS
  <2> HIDE DEF a, c
  <2> QED BY <1>5, <1>8, <1>9, <1>11, <2>1, ReadsMatch
<1>14. ReadsOf(p, a, c) # {} /\ log[Min(ReadsOf(p, a, c))].ret = "zero" BY <1>6, <1>13 DEF NothingRead, ReadAlike
<1>15. p \in Pid BY <1>9 DEF TraceInv, TraceTypeOK
<1> HIDE DEF a, c
<1>16. GaveNothing(p, a, c) BY <1>9, <1>12, <1>14 DEF GaveNothing, ReadsOf, Closes
<1> QED BY <1>9, <1>15, <1>16

(* And what happened to the last file of a process that failed is found.   *)
LEMMA EmptyFileIsSeen ==
  ASSUME TraceInv, ~Blurred, NEW h, NEW p, NEW n \in Nat, NEW d, Traced(h, p, n, d), Len(h) = n,
         FailedExit(log, p), OpenedLast(p) > 0, log[OpenedLast(p)].what \notin Nvram,
         NEW c \in DOMAIN log, GaveNothing(p, OpenedLast(p), c), c - OpenedLast(p) <= Span
  PROVE  EmptyFile(h) # {}
<1> DEFINE a == OpenedLast(p)
           opens == {i \in DOMAIN log : log[i].pid = p /\ IsOpened(log[i]) /\ log[i].what \notin Ignored}
<1>1. Len(log) \in Nat /\ DOMAIN log = 1 .. Len(log) BY LogType DEF TraceInv
<1>2. \A i : Clear(i) BY DEF Clear
<1>3. DOMAIN h = 1 .. n BY DEF Traced
<1>4. a \in opens /\ \A i \in opens : i <= a
  <2>1. a = Max({0} \cup opens) BY DEF OpenedLast
  <2>2. {0} \cup opens \in SUBSET Nat /\ \A i \in {0} \cup opens : i <= Len(log) BY <1>1
  <2> DEFINE N == Len(log)
  <2>3. N \in Nat /\ \A i \in {0} \cup opens : i <= N BY <1>1, <2>2
  <2> HIDE DEF opens, N
  <2>4. a \in {0} \cup opens /\ \A i \in {0} \cup opens : i <= a BY <2>1, <2>2, <2>3, MaxIs
  <2>5. 0 \in Nat /\ ~(0 > 0) OBVIOUS
  <2> QED BY <2>4, <2>5
<1>5. a > 0 /\ log[a].what \notin Nvram /\ GaveNothing(p, a, c) /\ c - a <= Span OBVIOUS
<1> HIDE DEF a
<1> DEFINE fd == log[a].fd
           f == log[a].what
<1>6. a \in DOMAIN log /\ log[a].pid = p /\ IsOpened(log[a]) /\ f \notin Ignored BY <1>4
<1>7. log[a].on = a BY <1>6 DEF TraceInv, GivenInv, Gives
<1>8. /\ Closes(c, p, fd) /\ a < c /\ log[c].on = a
      /\ ReadsOf(p, a, c) # {} /\ log[Min(ReadsOf(p, a, c))].ret = "zero"
  <2>1. /\ log[c].call = "close" /\ log[c].pid = p /\ log[c].on = a
        /\ ReadsOf(p, a, c) # {} /\ log[Min(ReadsOf(p, a, c))].ret = "zero"
    BY <1>5, <1>7 DEF GaveNothing, ReadsOf
  <2>2. log[c].on \in 1 .. c - 1 /\ log[log[c].on].fd = log[c].fd BY <2>1 DEF TraceInv, GivenInv, OnFdCall
  <2>3. a < c BY <1>1, <2>1, <2>2
  <2> QED BY <2>1, <2>2, <2>3 DEF Closes
<1>9. \A i \in a + 1 .. c - 1 : ~Closes(i, p, fd)
  <2> DEFINE S == {i \in a + 1 .. c - 1 : Closes(i, p, fd)}
  <2> SUFFICES ASSUME S # {} PROVE FALSE OBVIOUS
  <2>1. S \in SUBSET Nat BY <1>1, <1>6
  <2>2. PICK i \in S : \A j \in S : i <= j
    <3> HIDE DEF S
    <3> QED BY <2>1, Least
  <2>3. i \in DOMAIN log /\ a < i /\ i < c /\ Closes(i, p, fd) BY <1>1, <1>6
  <2>4. \A j \in a + 1 .. i - 1 : j \notin S /\ j \in a + 1 .. c - 1
    <3>1. \A j \in a + 1 .. i - 1 : ~(i <= j) /\ j \in a + 1 .. c - 1 BY <1>1, <1>6, <2>3
    <3> QED BY <2>2, <3>1
  <2>5. KeptOpen(a, i - 1) BY <1>6, <2>4 DEF KeptOpen, Gives
  <2>6. log[i].on = a BY <1>6, <2>3, <2>5 DEF TraceInv, OpenInv, OnFdCall, Closes
  <2> QED BY <1>8, <2>3, <2>6 DEF TraceInv, ClosedInv, Closes
<1>10. PICK ka \in 1 .. n : d[ka] = a /\ h[ka].call = "open" /\ h[ka].fd = fd /\ h[ka].what = f /\ IsOpened(h[ka])
  <2>1. log[a].call = "open" /\ log[a].ret = "ok" BY <1>6 DEF IsOpened
  <2>2. PICK k \in 1 .. n : /\ a <= d[k] /\ d[k] \in DOMAIN log /\ Alike(a, d[k])
                            /\ h[k].call = log[a].call /\ h[k].fd = log[a].fd /\ h[k].what = log[a].what /\ h[k].ret = log[a].ret
    <3>1. Kept(log[a]) BY <2>1 DEF Kept
    <3> QED BY <1>2, <1>6, <2>1, <3>1, EventOf
  <2> DEFINE m == d[k]
  <2>3. m \in DOMAIN log /\ m \in a .. m /\ a <= m BY <1>1, <1>6, <2>2
  <2>4. SameText(log[a], log[m]) BY <2>2, <2>3 DEF Alike
  <2> HIDE DEF m
  <2>5. m \in opens BY <1>6, <2>1, <2>3, <2>4, SameTextIs DEF IsOpened
  <2>6. m = a BY <1>1, <1>4, <1>6, <2>3, <2>5
  <2> QED BY <2>1, <2>2, <2>6 DEF m, IsOpened
<1>11. LastOpen(h) = ka
  <2> DEFINE H == {0} \cup {i \in DOMAIN h : IsOpened(h[i]) /\ h[i].what \notin Ignored}
             k == Max(H)
  <2>1. LastOpen(h) = k BY DEF LastOpen
  <2>2. H \in SUBSET Nat /\ (\A i \in H : i <= n) /\ ka \in H BY <1>3, <1>6, <1>10
  <2>3. k \in H /\ \A i \in H : i <= k
    <3> HIDE DEF H
    <3> QED BY <2>2, MaxIs
  <2> HIDE DEF k
  <2>4. ka <= k BY <2>2, <2>3
  <2>5. k \in 1 .. n /\ IsOpened(h[k]) /\ h[k].what \notin Ignored BY <1>3, <2>3, <2>4
  <2>6. h[k].call = "open" /\ h[k].ret = "ok" BY <2>5 DEF IsOpened
  <2>7. /\ d[k] \in DOMAIN log /\ h[k].call = log[d[k]].call /\ h[k].what = log[d[k]].what /\ h[k].ret = log[d[k]].ret
        /\ log[d[k]].pid = p
    BY <1>2, <2>5, <2>6, EventIs
  <2>8. d[k] \in opens BY <2>5, <2>6, <2>7 DEF IsOpened
  <2>9. d[k] <= d[ka] BY <1>4, <1>10, <2>8
  <2>10. k <= ka BY <2>5, <2>9, Ordered
  <2> QED BY <2>1, <2>4, <2>5, <2>10
<1>12. PICK kc \in 1 .. n : d[kc] = c /\ h[kc].call = "close" /\ h[kc].fd = fd
  <2>1. log[c].call = "close" /\ log[c].pid = p /\ log[c].fd = fd BY <1>8 DEF Closes
  <2>2. PICK k \in 1 .. n : /\ c <= d[k] /\ d[k] \in DOMAIN log /\ Alike(c, d[k])
                            /\ h[k].call = log[c].call /\ h[k].fd = log[c].fd
    <3>1. Kept(log[c]) BY <1>8, <2>1, CloseKept
    <3> QED BY <1>2, <1>8, <2>1, <3>1, EventOf
  <2>3. d[k] = c
    <3> SUFFICES ASSUME d[k] # c PROVE FALSE OBVIOUS
    <3> DEFINE j == c + 1
               m == d[k]
    <3>1. c <= m /\ m \in DOMAIN log /\ m # c BY <2>2
    <3>2. j \in c .. m /\ j \in DOMAIN log /\ c < j
      <4> HIDE DEF m
      <4> QED BY <1>1, <3>1
    <3>3. SameText(log[c], log[j]) BY <2>2, <3>2 DEF Alike
    <3>4. j = c + 1 OBVIOUS
    <3> HIDE DEF j
    <3>5. log[j].call = "close" /\ log[j].pid = p /\ log[j].fd = fd BY <2>1, <3>3, SameTextIs
    <3> QED BY <2>1, <3>2, <3>4, <3>5 DEF TraceInv, ClosedInv, Closes
  <2> QED BY <2>1, <2>2, <2>3
<1>13. ka < kc
  <2>1. d[ka] < d[kc] BY <1>8, <1>10, <1>12
  <2> QED BY <2>1, Ordered
<1>14. ClosedAt(h, ka) = {kc}
  <2> DEFINE S == {i \in ka + 1 .. Len(h) : h[i].call = "close" /\ h[i].fd = h[ka].fd}
             m == Min(S)
  <2>1. kc \in S /\ S \in SUBSET Nat BY <1>10, <1>12, <1>13
  <2>2. ClosedAt(h, ka) = {m} BY <2>1 DEF ClosedAt
  <2>3. m \in S /\ \A i \in S : m <= i
    <3> HIDE DEF S
    <3> QED BY <2>1, MinIs
  <2> HIDE DEF m
  <2>4. m \in 1 .. n /\ ka < m /\ m <= kc /\ h[m].call = "close" /\ h[m].fd = fd BY <1>10, <2>1, <2>3
  <2>5. d[m] \in DOMAIN log /\ Closes(d[m], p, fd)
    <3>1. d[m] \in DOMAIN log /\ h[m].call = log[d[m]].call /\ h[m].fd = log[d[m]].fd /\ log[d[m]].pid = p
      BY <1>2, <2>4, EventIs
    <3> QED BY <2>4, <3>1 DEF Closes
  <2>6. a < d[m] /\ d[m] <= c BY <1>10, <1>12, <2>4, Ordered
  <2>7. d[m] = c
    <3> DEFINE x == d[m]
    <3>1. x \in DOMAIN log /\ Closes(x, p, fd) /\ a < x /\ x <= c BY <2>5, <2>6
    <3> HIDE DEF x
    <3>2. x \notin a + 1 .. c - 1 BY <1>9, <3>1
    <3>3. x = c BY <1>1, <1>6, <3>1, <3>2
    <3> QED BY <3>3 DEF x
  <2>8. d[m] <= d[kc] /\ d[kc] <= d[m] BY <1>1, <1>12, <2>7
  <2>9. m = kc
    <3>1. kc <= m BY <2>4, <2>8, Ordered
    <3> QED BY <2>4, <3>1
  <2> QED BY <2>2, <2>9
<1>15. kc - ka <= Span
  <2>1. d \in [1 .. n -> Nat] /\ \A k, l \in 1 .. n : k < l => d[k] < d[l] BY <1>1 DEF Traced
  <2>2. kc \in ka .. n BY <1>13
  <2>3. kc - ka <= d[kc] - d[ka] BY <2>1, <2>2, NoFartherApart
  <2> QED BY <1>1, <1>5, <1>6, <1>10, <1>12, <2>3, NumberAssumption
<1>16. NothingRead(h, Reads(h, ka, kc))
  <2>1. ReadAlike(h, p, ka, kc, a, c) BY <1>6, <1>8, <1>9, <1>10, <1>12, <1>13, ReadsMatch
  <2> QED BY <1>8, <2>1 DEF NothingRead, ReadAlike
<1>17. Ends(h)
  <2>1. PICK e \in DOMAIN log : log[e].call = "exit" /\ log[e].pid = p BY DEF FailedExit, ExitedWith
  <2>2. log[e].ret = "end" BY <2>1 DEF TraceInv, ResultInv
  <2>3. PICK k \in 1 .. n : e <= d[k] /\ d[k] \in DOMAIN log
    <3>1. Kept(log[e]) BY <2>2 DEF Kept
    <3> QED BY <1>2, <2>1, <3>1, EventOf
  <2>4. n \in 1 .. n /\ k <= n OBVIOUS
  <2>5. d[k] <= d[n] BY <2>4, Ordered
  <2>6. d[n] \in DOMAIN log /\ h[n].call = log[d[n]].call /\ h[n].ret = log[d[n]].ret
        /\ (h[n].call # "signal" => log[d[n]].pid = p)
    BY <1>2, <2>4, EventIs
  <2>7. h[n].ret = "end"
    <3>1. CASE h[n].call = "signal" BY <2>6, <3>1 DEF TraceInv, ResultInv
    <3>2. CASE h[n].call # "signal"
      <4> DEFINE x == d[n]
                 y == d[k]
      <4>1. x \in DOMAIN log /\ y \in DOMAIN log /\ e <= y /\ y <= x /\ log[x].pid = p /\ h[n].ret = log[x].ret
        BY <2>3, <2>5, <2>6, <3>2
      <4> HIDE DEF x, y
      <4>2. ~(e < x) BY <2>1, <2>2, <4>1 DEF TraceInv, ProcessInv, Stopped
      <4>3. x = e BY <1>1, <4>1, <4>2
      <4> QED BY <2>2, <4>1, <4>3
    <3> QED BY <3>1, <3>2
  <2>8. h # << >> BY <1>3, <2>4
  <2> QED BY <2>7, <2>8 DEF Ends
<1>18. f \in File \ (Ignored \cup Nvram)
  <2>1. f \in File BY <1>6 DEF TraceInv, TraceTypeOK, IsOpened
  <2> QED BY <1>5, <1>6, <2>1
<1>19. ka > 0 /\ h[ka].what = f BY <1>10
<1>20. f \in EmptyFile(h) BY <1>11, <1>14, <1>15, <1>16, <1>17, <1>18, <1>19 DEF EmptyFile
<1> QED BY <1>20

(* A process that waits shows it.                                          *)
LEMMA WaitsShown ==
  ASSUME TraceInv, Known = Service, NEW h, NEW p, NEW n \in Nat, NEW d, Traced(h, p, n, d), Waits(p)
  PROVE  IpcError(h).kind = "ipc"
<1>1. Len(log) \in Nat /\ DOMAIN log = 1 .. Len(log) BY LogType DEF TraceInv
<1>2. DOMAIN h = 1 .. n BY DEF Traced
<1>3. \A i : log[i].call # "close" => Clear(i) BY DEF Clear
<1>4. PICK i \in DOMAIN log :
        /\ log[i].pid = p
        /\ log[i].ret = "refused" \/ (log[i].ret = "blocked" /\ log[i].call \in {"recv", "select"})
        /\ Did(p, "socket", "ok", log[i].on) /\ (log[i].ret = "blocked" => Did(p, "connect", "ok", log[i].on))
  BY DEF Waits
<1>5. (log[i].ret = "refused" => log[i].call = "connect") /\ (log[i].ret = "blocked" => log[i].call \in {"recv", "select"})
  BY <1>4 DEF TraceInv, ResultInv
<1>6. PICK s \in DOMAIN log : log[s].pid = p /\ log[s].call = "socket" /\ log[s].ret = "ok" /\ log[s].on = log[i].on
  BY <1>4 DEF Did
<1> DEFINE fd == log[s].fd
<1>7. log[s].on = s /\ fd \in Fd BY <1>6 DEF TraceInv, GivenInv, Gives
<1>8. log[i].fd = fd
  <2>1. log[i].call \in OnFdCall BY <1>4, <1>5 DEF OnFdCall, SocketCall
  <2>2. log[log[i].on].fd = log[i].fd BY <2>1 DEF TraceInv, GivenInv
  <2> QED BY <1>6, <1>7, <2>2
<1>9. PICK ks \in 1 .. n : h[ks].call = "socket" /\ h[ks].fd = fd /\ h[ks].ret = "ok"
  <2>1. Kept(log[s]) BY <1>6 DEF Kept
  <2> QED BY <1>3, <1>6, <2>1, EventOf
<1>10. PICK ki \in 1 .. n : /\ i <= d[ki] /\ d[ki] \in DOMAIN log
                            /\ h[ki].call = log[i].call /\ h[ki].fd = log[i].fd /\ h[ki].ret = log[i].ret
  <2>1. Kept(log[i]) BY <1>4 DEF Kept
  <2> QED BY <1>3, <1>4, <1>5, <2>1, EventOf
<1>11. ks \in At(h, fd, "socket", "ok") BY <1>2, <1>9 DEF At, OnFd, IpcCall
<1> HIDE DEF fd
<1>12. SocketFailed(h, fd)
  <2>1. CASE log[i].ret = "refused"
    <3>1. ki \in At(h, fd, "connect", "refused") BY <1>2, <1>5, <1>8, <1>10, <2>1 DEF At, OnFd, IpcCall
    <3> QED BY <1>11, <3>1 DEF SocketFailed, Refused
  <2>2. CASE log[i].ret = "blocked"
    <3>1. log[i].call \in {"recv", "select"} BY <1>5, <2>2
    <3>2. PICK x \in DOMAIN log : log[x].pid = p /\ log[x].call = "connect" /\ log[x].ret = "ok" /\ log[x].on = log[i].on
      BY <1>4, <2>2 DEF Did
    <3>3. log[x].fd = fd BY <1>6, <1>7, <3>2 DEF TraceInv, GivenInv, OnFdCall, SocketCall, fd
    <3>4. x < i
      <4>1. x # i BY <3>1, <3>2
      <4>2. ~(i < x) BY <1>4, <2>2, <3>2 DEF TraceInv, ProcessInv, Stopped
      <4> QED BY <1>1, <4>1, <4>2
    <3>5. PICK kx \in 1 .. n : /\ x <= d[kx] /\ d[kx] \in DOMAIN log /\ Alike(x, d[kx])
                               /\ h[kx].call = log[x].call /\ h[kx].fd = log[x].fd /\ h[kx].ret = log[x].ret
      <4>1. Kept(log[x]) BY <3>2 DEF Kept
      <4> QED BY <1>3, <3>2, <4>1, EventOf
    <3>6. ~(i <= d[kx])
      <4> SUFFICES ASSUME i <= d[kx] PROVE FALSE OBVIOUS
      <4>1. i \in x .. d[kx]
        <5> DEFINE m == d[kx]
        <5>1. m \in DOMAIN log /\ i <= m BY <3>5
        <5> HIDE DEF m
        <5>2. i \in x .. m BY <1>1, <3>4, <5>1
        <5> QED BY <5>2 DEF m
      <4>2. SameText(log[x], log[i]) BY <3>5, <4>1 DEF Alike
      <4> QED BY <3>1, <3>2, <4>2, SameTextIs
    <3>7. kx < ki
      <4> DEFINE m == d[kx]
                 o == d[ki]
      <4>1. m \in DOMAIN log /\ o \in DOMAIN log /\ ~(i <= m) /\ i <= o BY <1>10, <3>5, <3>6
      <4> HIDE DEF m, o
      <4>2. m < o BY <1>1, <4>1
      <4>3. d[kx] < d[ki] BY <4>2 DEF m, o
      <4> QED BY <4>3, Ordered
    <3>8. kx \in At(h, fd, "connect", "ok") BY <1>2, <3>2, <3>3, <3>5 DEF At, OnFd, IpcCall
    <3>9. ki \in Silent(h, fd)
      <4>1. ki \in OnFd(h, fd) /\ h[ki].ret = "blocked" BY <1>2, <1>8, <1>10, <2>2, <3>1 DEF OnFd, IpcCall
      <4> QED BY <1>10, <3>1, <4>1 DEF Silent, At
    <3> QED BY <1>11, <3>7, <3>8, <3>9 DEF SocketFailed, Hangs
  <2> QED BY <1>4, <2>1, <2>2
<1>13. \A e \in Fd : SocketFailed(h, e) => connectFd[e] \in Known
  <2> SUFFICES ASSUME NEW e \in Fd, SocketFailed(h, e) PROVE connectFd[e] \in Known OBVIOUS
  <2>1. PICK k \in 1 .. n : h[k].call = "connect" /\ h[k].fd = e
    <3>1. At(h, e, "connect", "ok") # {} \/ At(h, e, "connect", "refused") # {}
      BY DEF SocketFailed, Hangs, Refused, PeerLeft
    <3> QED BY <1>2, <3>1 DEF At, OnFd
  <2>2. log[d[k]].call = "connect" BY <2>1 DEF Traced
  <2>3. d[k] \in DOMAIN log /\ log[d[k]].fd = e BY <1>3, <2>1, <2>2, EventIs
  <2>4. e \in DOMAIN connectFd BY <2>2, <2>3 DEF TraceInv, ResultInv
  <2> QED BY <2>4 DEF TraceInv, TraceTypeOK
<1> QED BY <1>2, <1>7, <1>12, <1>13, IpcErrorIs

-----------------------------------------------------------------------------
(* The error that is located from a log.                                   *)
LEMMA EventsTraced ==
  ASSUME TraceInv, NEW p
  PROVE  \E n \in Nat : \E d :
           /\ Traced(Events(TraceLog, p), p, n, d) /\ Len(Events(TraceLog, p)) = n
           /\ DOMAIN Events(TraceLog, p) = 1 .. n /\ \A i \in 1 .. n : LineOK(Events(TraceLog, p)[i])
<1> DEFINE h == Events(TraceLog, p)
<1>1. Len(log) \in Nat /\ DOMAIN log = 1 .. Len(log) BY LogType DEF TraceInv
<1>n. PICK n \in Nat : \E d : Traced(h, p, n, d) BY <1>1, TracedEvents
<1>2. PICK d : Traced(h, p, n, d) BY <1>n
<1>3. h \in Seq(Range(log)) BY LinesOfEvents DEF TraceInv
<1> HIDE DEF h
<1>4. Len(h) \in Nat /\ DOMAIN h = 1 .. Len(h) /\ \A i \in DOMAIN h : LineOK(h[i]) BY <1>3, LineTypes DEF TraceInv
<1>5. DOMAIN h = 1 .. n BY <1>2 DEF Traced
<1>6. Len(h) = n
  <2> DEFINE m == Len(h)
  <2>1. m \in Nat /\ 1 .. m = 1 .. n BY <1>4, <1>5
  <2> HIDE DEF m
  <2>2. m = n BY <2>1
  <2> QED BY <2>2 DEF m
<1> QED BY <1>2, <1>4, <1>5, <1>6 DEF h

LEMMA NoneFixed ==
  ASSUME fixed = {}, NEW e
  PROVE  ~IsErrorFixed(e)
BY DEF IsErrorFixed

LEMMA LocateReads ==
  ASSUME TraceInv, Locate
  PROVE  EmptyReadIsReal'
<1>1. found' = Located(TraceLog) /\ log' = log /\ content' = content BY DEF Locate, firmware
<1> SUFFICES ASSUME found'.kind = "fill", ~Blurred', NEW f \in found'.on
             PROVE  content[f] = "missing" \/ \E p \in Pid, a, c \in DOMAIN log : GaveNothing(p, a, c) /\ log[a].what = f
  <2>1. \A p, a, c : GaveNothing(p, a, c)' <=> GaveNothing(p, a, c) BY <1>1 DEF GaveNothing, IsOpened
  <2> QED BY <1>1, <2>1 DEF EmptyReadIsReal
<1>2. ~Blurred BY <1>1 DEF Blurred
<1>3. PICK p : Located(TraceLog) = FileError(TraceLog, Events(TraceLog, p)) BY <1>1, LocatedIs DEF TraceInv
<1> DEFINE h == Events(TraceLog, p)
           s == TraceLog
<1>n. PICK n \in Nat : \E d : /\ Traced(h, p, n, d) /\ Len(h) = n /\ DOMAIN h = 1 .. n /\ \A i \in 1 .. n : LineOK(h[i])
  BY EventsTraced
<1>4. PICK d : /\ Traced(h, p, n, d) /\ Len(h) = n /\ DOMAIN h = 1 .. n /\ \A i \in 1 .. n : LineOK(h[i]) BY <1>n
<1>5. found' = FileError(s, h) BY <1>1, <1>3
<1> HIDE DEF h, s
<1>6. found'.on = EmptyFile(h) \/ \E i \in Missing(h) : found'.on = {h[i].what} BY <1>4, <1>5, FileErrorIs
<1>7. CASE found'.on = EmptyFile(h)
  <2>1. f \in EmptyFile(h) BY <1>7
  <2> QED BY <1>2, <1>4, <2>1, EmptyFileIsReal
<1>8. CASE \E i \in Missing(h) : found'.on = {h[i].what}
  <2>1. PICK i \in Missing(h) : found'.on = {h[i].what} BY <1>8
  <2>2. i \in 1 .. n /\ h[i].call = "open" /\ h[i].ret = "missing" /\ f = h[i].what BY <1>4, <2>1 DEF Missing
  <2>3. Clear(d[i]) BY <1>2 DEF Clear
  <2>4. /\ d[i] \in DOMAIN log /\ log[d[i]].call = "open" /\ log[d[i]].ret = "missing" /\ log[d[i]].what = f
    BY <1>4, <2>2, <2>3, EventIs
  <2> QED BY <2>4 DEF TraceInv, ResultInv
<1> QED BY <1>6, <1>7, <1>8

(* Nothing located in the first run: no process on the worklist shows an   *)
(* error.                                                                  *)
LEMMA LocateNothing ==
  ASSUME TraceInv, Locate, found' = None, round = 1, NEW p \in Range(Worklist(TraceLog))
  PROVE  FileError(TraceLog, Events(TraceLog, p)) = None /\ IpcError(Events(TraceLog, p)) = None
<1>1. Located(TraceLog) = None /\ tracePc = "run" BY DEF Locate
<1>2. fixed = {} BY <1>1 DEF TraceInv, FirstInv
<1>3. \A e \in Shown(TraceLog, p) : e = None
  <2>1. \A e \in Shown(TraceLog, p) : e = None \/ IsErrorFixed(e) BY <1>1, LocatedIs DEF TraceInv
  <2> QED BY <1>2, <2>1, NoneFixed
<1> QED BY <1>3 DEF Shown

LEMMA LocateEmpty ==
  ASSUME TraceInv, Locate
  PROVE  EmptyFileIsFound'
<1>1. log' = log /\ round' = round BY DEF Locate
<1> SUFFICES ASSUME found' = None, round = 1, ~Blurred', NEW p \in Range(Worklist(TraceLog)),
                    FailedExit(log, p), OpenedLast(p) > 0, log[OpenedLast(p)].what \notin Nvram,
                    NEW c \in DOMAIN log, GaveNothing(p, OpenedLast(p), c)
             PROVE  c - OpenedLast(p) > Span
  <2>1. TraceLog' = TraceLog BY <1>1 DEF TraceLog
  <2>2. \A p : OpenedLast(p)' = OpenedLast(p) BY <1>1 DEF OpenedLast
  <2>3. \A p, a, c : GaveNothing(p, a, c)' <=> GaveNothing(p, a, c) BY <1>1 DEF GaveNothing, IsOpened
  <2> QED BY <1>1, <2>1, <2>2, <2>3 DEF EmptyFileIsFound
<1>2. ~Blurred BY <1>1 DEF Blurred
<1> DEFINE h == Events(TraceLog, p)
           s == TraceLog
<1>n. PICK n \in Nat : \E d : /\ Traced(h, p, n, d) /\ Len(h) = n /\ DOMAIN h = 1 .. n /\ \A i \in 1 .. n : LineOK(h[i])
  BY EventsTraced
<1>3. PICK d : /\ Traced(h, p, n, d) /\ Len(h) = n /\ DOMAIN h = 1 .. n /\ \A i \in 1 .. n : LineOK(h[i]) BY <1>n
<1>4. FileError(s, h) = None BY LocateNothing
<1> HIDE DEF h, s
<1>5. EmptyFile(h) = {}
  <2> SUFFICES ASSUME EmptyFile(h) # {} PROVE FALSE OBVIOUS
  <2>1. FileError(s, h) = Err("fill", EmptyFile(h)) BY <1>3, FileErrorIs
  <2> QED BY <1>4, <2>1, ErrIs, NoneIs
<1>6. ~(c - OpenedLast(p) <= Span) BY <1>2, <1>3, <1>5, EmptyFileIsSeen
<1>7. c \in Nat /\ OpenedLast(p) \in Nat
  <2>1. Len(log) \in Nat /\ DOMAIN log = 1 .. Len(log) BY LogType DEF TraceInv
  <2> DEFINE S == {0} \cup {i \in DOMAIN log : log[i].pid = p /\ IsOpened(log[i]) /\ log[i].what \notin Ignored}
             N == Len(log)
  <2>2. OpenedLast(p) = Max(S) BY DEF OpenedLast
  <2>3. S \in SUBSET Nat /\ S # {} /\ N \in Nat /\ \A i \in S : i <= N BY <2>1
  <2> HIDE DEF S, N
  <2>4. Max(S) \in S BY <2>3, MaxIs
  <2>5. OpenedLast(p) \in Nat BY <2>2, <2>3, <2>4
  <2>6. c \in Nat BY <2>1
  <2> QED BY <2>5, <2>6
<1> QED BY <1>6, <1>7, NumberAssumption

LEMMA LocateHang ==
  ASSUME TraceInv, Locate
  PROVE  HangIsFound'
<1>1. log' = log /\ round' = round BY DEF Locate
<1> SUFFICES ASSUME found' = None, round = 1, Known = Service, NEW p \in Range(Worklist(TraceLog)), Waits(p)
             PROVE  FALSE
  <2>1. TraceLog' = TraceLog BY <1>1 DEF TraceLog
  <2>2. \A p : Waits(p)' <=> Waits(p) BY <1>1 DEF Waits, Did
  <2> QED BY <1>1, <2>1, <2>2 DEF HangIsFound
<1> DEFINE h == Events(TraceLog, p)
<1>n. PICK n \in Nat : \E d : Traced(h, p, n, d) BY EventsTraced
<1>2. PICK d : Traced(h, p, n, d) BY <1>n
<1>3. IpcError(h) = None BY LocateNothing
<1> HIDE DEF h
<1>4. IpcError(h).kind = "ipc" BY <1>2, WaitsShown
<1> QED BY <1>3, <1>4, NoneIs

(* The properties of what is located depend on this, and hold trivially    *)
(* while nothing is.                                                       *)
LEMMA SameLocated ==
  ASSUME UNCHANGED traceVars
  PROVE  /\ EmptyReadIsReal' <=> EmptyReadIsReal
         /\ EmptyFileIsFound' <=> EmptyFileIsFound
         /\ HangIsFound' <=> HangIsFound
<1>1. log' = log /\ content' = content /\ round' = round /\ found' = found /\ tracePc' = tracePc
  BY DEF traceVars, firmware, locator
<1>2. TraceLog' = TraceLog BY <1>1 DEF TraceLog
<1>3. Blurred' <=> Blurred BY <1>1 DEF Blurred
<1>4. \A p, a, c : GaveNothing(p, a, c)' <=> GaveNothing(p, a, c) BY <1>1 DEF GaveNothing, IsOpened
<1>5. \A p : OpenedLast(p)' = OpenedLast(p) BY <1>1 DEF OpenedLast
<1>6. \A p : Waits(p)' <=> Waits(p) BY <1>1 DEF Waits, Did
<1>7. EmptyReadIsReal' <=> EmptyReadIsReal BY <1>1, <1>3, <1>4 DEF EmptyReadIsReal
<1>8. EmptyFileIsFound' <=> EmptyFileIsFound BY <1>1, <1>2, <1>3, <1>4, <1>5 DEF EmptyFileIsFound
<1>9. HangIsFound' <=> HangIsFound BY <1>1, <1>2, <1>6 DEF HangIsFound
<1> QED BY <1>7, <1>8, <1>9

LEMMA NothingLocated ==
  ASSUME tracePc = "run"
  PROVE  EmptyReadIsReal /\ EmptyFileIsFound /\ HangIsFound
BY DEF EmptyReadIsReal, EmptyFileIsFound, HangIsFound

LEMMA NothingLocatedNext ==
  ASSUME TraceInv, (\E p \in Pid : Call(p)) \/ RunAgain
  PROVE  EmptyReadIsReal' /\ EmptyFileIsFound' /\ HangIsFound'
<1>1. tracePc' = "run"
  <2>1. CASE RunAgain BY <2>1 DEF RunAgain
  <2>2. CASE \E p \in Pid : Call(p)
    <3>1. PICK l : Step(l) BY <2>2, CallStep DEF TraceInv
    <3> QED BY <3>1 DEF Step, Others, locator
  <2> QED BY <2>1, <2>2
<1> QED BY <1>1 DEF EmptyReadIsReal, EmptyFileIsFound, HangIsFound

LEMMA LocatedNext ==
  ASSUME TraceInv, [TraceNext]_traceVars, EmptyReadIsReal, EmptyFileIsFound, HangIsFound
  PROVE  EmptyReadIsReal' /\ EmptyFileIsFound' /\ HangIsFound'
<1>1. CASE (\E p \in Pid : Call(p)) \/ RunAgain BY <1>1, NothingLocatedNext
<1>2. CASE Locate BY <1>2, LocateReads, LocateEmpty, LocateHang
<1>3. CASE UNCHANGED traceVars BY <1>3, SameLocated
<1> QED BY <1>1, <1>2, <1>3 DEF TraceNext

LEMMA LocatedAlways == TraceSpec => [](EmptyReadIsReal /\ EmptyFileIsFound /\ HangIsFound)
<1>1. TraceInit => EmptyReadIsReal /\ EmptyFileIsFound /\ HangIsFound BY NothingLocated DEF TraceInit
<1>2. TraceInv /\ [TraceNext]_traceVars /\ (EmptyReadIsReal /\ EmptyFileIsFound /\ HangIsFound)
        => (EmptyReadIsReal /\ EmptyFileIsFound /\ HangIsFound)'
  BY LocatedNext
<1> QED BY <1>1, <1>2, TraceInvInit, TraceInvNext, PTL DEF TraceSpec

(* A file is filled only if it was missing, or some process got nothing    *)
(* from it through the descriptor it had opened it with (the log tells     *)
(* descriptors, which are used again; FileStrategy overwrites the file).   *)
THEOREM EmptyReadsAreReal == TraceSpec => []EmptyReadIsReal
BY LocatedAlways, PTL

(* The first run does not end without an error when the last file of a     *)
(* process on the worklist gave it nothing and the process failed          *)
(* (_match_empty_file_reads, on events that merge_consecutive_duplicates   *)
(* has thinned out).                                                       *)
THEOREM EmptyFilesAreFound == TraceSpec => []EmptyFileIsFound
BY LocatedAlways, PTL

(* Nor when one waits in recv or select on a socket that it has connected, *)
(* or was refused the connection (_match_ipc_failures).                    *)
THEOREM HangsAreFound == TraceSpec => []HangIsFound
BY LocatedAlways, PTL
-----------------------------------------------------------------------------
(* The machine of system mode.                                             *)
(* Only the machine started last has a cable, and none while the next is   *)
(* prepared.                                                               *)
OnlyLastPlugged ==
  /\ \A m \in Running : vms[m].plugged => m = console
  /\ pc \in {"image", "unmount", "boot"} => \A m \in Running : ~ vms[m].plugged

(* A runner is only made when the attempts allow one more.                 *)
RunnerLeft == pc = "runner" => runner < StartTries * EnvTries

Reachable == tap = config /\ Answers /\ vms[console].plugged /\ config \in vms[console].br0

ReadyFromUp == pc \in {"up", "working"} /\ ~ lost => Reachable

(* What has started, and may wait for the garbage collector, before a     *)
(* restart for procd.                                                      *)
Superseding ==
  /\ SafeUntilRestart
  /\ try > 1 => HasProcd
  /\ try = 1 => env = 0 \/ pc \in {"working", "cleanup", "done"}

IInv == TypeOK /\ OnlyLastPlugged /\ RunnerLeft /\ ReadyFromUp /\ Superseding

USE SubnetAssumption, FlagAssumption, BoundAssumption DEF Restarts, StartTries, Runner, Machine

LEMMA Starts == Init => IInv
<1> SUFFICES ASSUME Init PROVE IInv OBVIOUS
<1>1. DOMAIN vms = {} BY DEF Init, Nothing
<1>2. /\ 1 \in 1 .. EnvTries /\ 0 \in 0 .. (2 * EnvTries) /\ 0 < 2 * EnvTries /\ 0 \in 0 .. MaxLooks
  OBVIOUS
<1>3. {garbage, tools, session, lost} \subseteq BOOLEAN BY DEF Init
<1>4. TypeOK
  <2>1. try \in 1 .. EnvTries /\ runner \in Runner /\ env \in Runner /\ looks \in 0 .. MaxLooks
    BY <1>2 DEF Init
  <2>2. config \in Subnet /\ tap \in Subnet \cup {NoNet} BY DEF Init
  <2>3. Running \subseteq Machine /\ \A m \in Running : vms[m] \in [br0 : SUBSET Subnet, plugged : BOOLEAN]
    BY <1>1 DEF Running
  <2> QED BY <1>3, <2>1, <2>2, <2>3 DEF Init, TypeOK
<1> QED BY <1>1, <1>2, <1>4 DEF Init, IInv, Running, OnlyLastPlugged, RunnerLeft, ReadyFromUp, Superseding, SafeUntilRestart
-----------------------------------------------------------------------------
(* The steps to a machine that runs.                                       *)
LEMMA NewRunnerKeeps == IInv /\ NewRunner => IInv'
<1> SUFFICES ASSUME IInv, NewRunner PROVE IInv' OBVIOUS
<1>1. TypeOK'
  <2>1. vms' = Nothing /\ DOMAIN vms' = {} BY DEF NewRunner, KillQemu, Nothing
  <2>2. runner' \in 0 .. (2 * EnvTries) BY DEF NewRunner, IInv, TypeOK, RunnerLeft
  <2>3. pc' \in {"tools", "tap"} BY DEF NewRunner
  <2>4. /\ session' \in BOOLEAN
        /\ tap' \in Subnet \cup {NoNet} /\ attempt' \in 0 .. 2
    <3>1. session' \in BOOLEAN BY DEF NewRunner
    <3>2. tap' = NoNet /\ attempt' = 0 BY DEF NewRunner, KillQemu
    <3> QED BY <3>1, <3>2
  <2>5. UNCHANGED <<try, env, garbage, config, image, tools, console, looks, lost>> BY DEF NewRunner
  <2> QED BY <2>1, <2>2, <2>3, <2>4, <2>5 DEF IInv, TypeOK, Running
<1> QED BY <1>1 DEF NewRunner, KillQemu, Nothing, IInv, Running, OnlyLastPlugged, RunnerLeft, ReadyFromUp, Superseding, SafeUntilRestart

LEMMA CopyToolsKeeps == IInv /\ CopyTools => IInv'
<1> SUFFICES ASSUME IInv, CopyTools PROVE IInv' OBVIOUS
<1>1. Superseding' BY DEF CopyTools, starting, IInv, Superseding, SafeUntilRestart
<1> QED BY <1>1 DEF CopyTools, starting, IInv, TypeOK, Running, OnlyLastPlugged, RunnerLeft, ReadyFromUp

LEMMA StartTapKeeps == IInv /\ StartTap => IInv'
<1> SUFFICES ASSUME IInv, StartTap PROVE IInv' OBVIOUS
<1>1. DOMAIN vms' = Running /\ \A m \in Running : vms'[m] = [vms[m] EXCEPT !.plugged = FALSE]
  BY DEF StartTap, Unplugged, Running
<1>2. ASSUME NEW m \in Running PROVE vms'[m] \in [br0 : SUBSET Subnet, plugged : BOOLEAN] /\ ~ vms'[m].plugged
  <2>1. vms[m] \in [br0 : SUBSET Subnet, plugged : BOOLEAN] BY DEF IInv, TypeOK
  <2>2. [vms[m] EXCEPT !.plugged = FALSE] \in [br0 : SUBSET Subnet, plugged : BOOLEAN] BY <2>1
  <2>3. ~ [vms[m] EXCEPT !.plugged = FALSE].plugged BY <2>1
  <2> QED BY <1>1, <2>2, <2>3
<1> QED BY <1>1, <1>2 DEF StartTap, starting, IInv, TypeOK, Running, OnlyLastPlugged, RunnerLeft, ReadyFromUp, Superseding, SafeUntilRestart

LEMMA MakeImageKeeps == IInv /\ MakeImage => IInv'
BY DEF MakeImage, ReuseImage, BuildImage, BuildFails, Unmount, starting, IInv, TypeOK, Running, OnlyLastPlugged, RunnerLeft,
       ReadyFromUp, Superseding, SafeUntilRestart

LEMMA StartQemuKeeps == IInv /\ StartQemu => IInv'
<1> SUFFICES ASSUME IInv, StartQemu PROVE IInv' OBVIOUS
<1>1. Fresh \in Machine BY DEF IInv, TypeOK, Fresh
<1>2. CASE UNCHANGED vms
  BY <1>1, <1>2 DEF StartQemu, starting, host, IInv, TypeOK, Running, OnlyLastPlugged, RunnerLeft, ReadyFromUp, Superseding, SafeUntilRestart
<1>3. ASSUME NEW nets \in SUBSET Subnet, Boots(nets) PROVE IInv'
  <2>1. /\ DOMAIN vms' = Running \cup {Fresh} /\ vms'[Fresh] = Guest(nets)
        /\ \A m \in Running \ {Fresh} : vms'[m] = vms[m]
    BY <1>3 DEF Boots
  <2>2. TypeOK'
    <3>1. Guest(nets) \in [br0 : SUBSET Subnet, plugged : BOOLEAN] BY <1>3 DEF Guest
    <3>2. Running' \subseteq Machine BY <1>1, <2>1 DEF IInv, TypeOK, Running
    <3>3. ASSUME NEW m \in Running' PROVE vms'[m] \in [br0 : SUBSET Subnet, plugged : BOOLEAN]
      <4>1. CASE m = Fresh BY <4>1, <2>1, <3>1
      <4>2. CASE m # Fresh BY <4>2, <2>1, <1>3 DEF IInv, TypeOK, Running
      <4> QED BY <4>1, <4>2
    <3>4. /\ pc' = "wait" /\ looks' \in 0 .. MaxLooks /\ console' \in Machine
          /\ UNCHANGED <<starting, attempt, host, session, lost>>
      BY <1>1 DEF StartQemu
    <3> QED BY <3>2, <3>3, <3>4 DEF starting, host, IInv, TypeOK
  <2>3. OnlyLastPlugged' BY <2>1 DEF StartQemu, IInv, OnlyLastPlugged, Running
  <2> QED BY <2>2, <2>3 DEF StartQemu, starting, host, IInv, RunnerLeft, ReadyFromUp, Superseding, SafeUntilRestart
<1> QED BY <1>2, <1>3 DEF StartQemu

LEMMA WaitKeeps ==
  IInv /\ (Look \/ NoAnswer \/ GoodAnswer \/ ConsoleCloses \/ TimeUp \/ Again) => IInv'
<1> SUFFICES ASSUME IInv, Look \/ NoAnswer \/ GoodAnswer \/ ConsoleCloses \/ TimeUp \/ Again PROVE IInv' OBVIOUS
<1>1. UNCHANGED <<starting, host, vms, console, lost>>
  BY DEF Look, NoAnswer, GoodAnswer, ConsoleCloses, TimeUp, Again
<1>2. /\ pc' \in {"wait", "look", "configure", "again", "tap", "failed", "cleanup"}
      /\ pc \notin {"working", "cleanup", "done"}
      /\ looks' \in 0 .. MaxLooks /\ attempt' \in 0 .. 2 /\ session' \in BOOLEAN
  <2>1. CASE Look BY <2>1 DEF Look, starting, IInv, TypeOK
  <2>2. CASE NoAnswer \/ GoodAnswer BY <2>2 DEF NoAnswer, GoodAnswer, starting, IInv, TypeOK
  <2>3. CASE ConsoleCloses BY <2>3 DEF ConsoleCloses, starting, IInv, TypeOK
  <2>4. CASE TimeUp BY <2>4 DEF TimeUp, IInv, TypeOK
  <2>5. CASE Again BY <2>5 DEF Again, IInv, TypeOK
  <2> QED BY <2>1, <2>2, <2>3, <2>4, <2>5
<1>3. TypeOK' BY <1>1, <1>2 DEF starting, host, IInv, TypeOK, Running
<1>4. Superseding' BY <1>1, <1>2 DEF starting, IInv, Superseding, SafeUntilRestart
<1> QED BY <1>1, <1>2, <1>3, <1>4 DEF IInv, starting, host, Running, OnlyLastPlugged, RunnerLeft, ReadyFromUp

LEMMA OtherSubnetKeeps == IInv /\ OtherSubnet => IInv'
<1> SUFFICES ASSUME IInv, OtherSubnet PROVE IInv' OBVIOUS
<1>1. config' \in Subnet
  <2>1. \A nets \in SeenNets : nets \subseteq Subnet BY DEF SeenNets, Answers, IInv, TypeOK
  <2> QED BY <2>1 DEF OtherSubnet
<1>2. vms' = Nothing /\ DOMAIN vms' = {} BY DEF OtherSubnet, KillQemu, Nothing
<1> QED BY <1>1, <1>2 DEF OtherSubnet, KillQemu, starting, IInv, TypeOK, Running, OnlyLastPlugged, RunnerLeft, ReadyFromUp, Superseding, SafeUntilRestart

LEMMA ConfigureKeeps == IInv /\ ConfigureNetwork => IInv'
<1> SUFFICES ASSUME IInv, ConfigureNetwork PROVE IInv' OBVIOUS
<1>1. /\ DOMAIN vms' = Running
      /\ \A m \in Running : vms'[m].plugged = vms[m].plugged /\ vms'[m] \in [br0 : SUBSET Subnet, plugged : BOOLEAN]
  <2>1. CASE vms' = vms BY <2>1 DEF IInv, TypeOK, Running
  <2>2. CASE vms' = Configured /\ Answers
    <3>1. vms' = [vms EXCEPT ![console].br0 = @ \cup {config}] BY <2>2 DEF Configured
    <3> QED BY <3>1, <2>2 DEF IInv, TypeOK, Running, Answers
  <2> QED BY <2>1, <2>2 DEF ConfigureNetwork, Sent, Configured
<1>2. pc = "configure" /\ pc' \in {"up", "again"} /\ UNCHANGED <<starting, attempt, host, console, session, looks>>
  BY DEF ConfigureNetwork
<1>3. TypeOK' BY <1>1, <1>2 DEF ConfigureNetwork, starting, host, IInv, TypeOK, Running
<1>4. OnlyLastPlugged' BY <1>1, <1>2 DEF IInv, OnlyLastPlugged, Running
<1>5. ReadyFromUp'
  <2>1. ASSUME pc' = "up" PROVE Reachable'
    <3>1. Reached(vms') BY <2>1 DEF ConfigureNetwork
    <3>2. PICK m \in DOMAIN vms' : vms'[m].plugged /\ config \in vms'[m].br0 BY <3>1 DEF Reached
    <3>3. m = console BY <3>2, <1>1, <1>2 DEF IInv, OnlyLastPlugged
    <3> QED BY <3>1, <3>2, <3>3, <1>1, <1>2 DEF Reached, Reachable, Answers, Running, host
  <2> QED BY <2>1, <1>2 DEF ReadyFromUp
<1>6. Superseding' BY <1>2 DEF starting, IInv, Superseding, SafeUntilRestart
<1> QED BY <1>2, <1>3, <1>4, <1>5, <1>6 DEF IInv, RunnerLeft
-----------------------------------------------------------------------------
(* The end of an attempt and what follows.                                 *)
LEMMA StartedKeeps == IInv /\ Started => IInv'
BY DEF Started, host, IInv, TypeOK, Running, OnlyLastPlugged, RunnerLeft, ReadyFromUp, Reachable, Answers, Superseding, SafeUntilRestart,
       Superseded

LEMMA FailedKeeps == IInv /\ Failed => IInv'
<1> SUFFICES ASSUME IInv, Failed PROVE IInv' OBVIOUS
<1>1. RunnerLeft'
  <2>1. ASSUME runner % 2 # 0 PROVE runner < 2 * EnvTries
    BY <2>1 DEF IInv, TypeOK
  <2> QED BY <2>1 DEF Failed, MayTryAgain, starting, RunnerLeft
<1> QED BY <1>1 DEF Failed, starting, host, IInv, TypeOK, Running, OnlyLastPlugged, ReadyFromUp, Superseding, SafeUntilRestart

LEMMA RestartKeeps == IInv /\ RestartForProcd => IInv'
<1> SUFFICES ASSUME IInv, RestartForProcd PROVE IInv' OBVIOUS
<1>1. vms' = Nothing /\ DOMAIN vms' = {} BY DEF RestartForProcd, RemoveDocker, KillQemu, Nothing
<1>2. try' \in 1 .. EnvTries /\ runner' \in 0 .. (2 * EnvTries) /\ runner' < 2 * EnvTries
  BY DEF RestartForProcd, IInv, TypeOK
<1>3. Superseding'
  <2>1. try \in Nat /\ try >= 1 /\ try' = try + 1 /\ HasProcd /\ garbage' = garbage BY DEF RestartForProcd, IInv, TypeOK
  <2> QED BY <2>1 DEF Superseding, SafeUntilRestart
<1> QED BY <1>1, <1>2, <1>3 DEF RestartForProcd, RemoveDocker, KillQemu, IInv, TypeOK, Running, OnlyLastPlugged,
                                RunnerLeft, ReadyFromUp

LEMMA WorkEndsKeeps == IInv /\ WorkEnds => IInv'
BY DEF WorkEnds, starting, host, IInv, TypeOK, Running, OnlyLastPlugged, RunnerLeft, ReadyFromUp, Superseding, SafeUntilRestart

LEMMA CleanupKeeps == IInv /\ Cleanup => IInv'
<1> SUFFICES ASSUME IInv, Cleanup PROVE IInv' OBVIOUS
<1>1. CASE env # 0
  <2>1. vms' = Nothing /\ DOMAIN vms' = {} /\ tap' = NoNet
    BY <1>1 DEF Cleanup, RemoveDocker, KillQemu, Nothing
  <2> QED BY <2>1, <1>1 DEF Cleanup, RemoveDocker, starting, IInv, TypeOK, Running, OnlyLastPlugged, RunnerLeft, ReadyFromUp, Superseding, SafeUntilRestart
<1>2. CASE env = 0
  BY <1>2 DEF Cleanup, starting, IInv, TypeOK, Running, OnlyLastPlugged, RunnerLeft, ReadyFromUp, Superseding, SafeUntilRestart
<1> QED BY <1>1, <1>2

LEMMA CrashKeeps == IInv /\ Crash => IInv'
<1> SUFFICES ASSUME IInv, Crash PROVE IInv' OBVIOUS
<1>1. PICK m \in Running : vms' = Without(m) /\ lost' = (lost \/ m = console) BY DEF Crash
<1>2. DOMAIN vms' = Running \ {m} /\ \A n \in Running \ {m} : vms'[n] = vms[n] BY <1>1 DEF Without
<1>3. TypeOK' BY <1>1, <1>2 DEF Crash, starting, host, IInv, TypeOK, Running
<1>4. OnlyLastPlugged' BY <1>2 DEF Crash, IInv, OnlyLastPlugged, Running
<1>5. ReadyFromUp' BY <1>1, <1>2 DEF Crash, starting, host, IInv, ReadyFromUp, Reachable, Answers, Running
<1> QED BY <1>3, <1>4, <1>5 DEF Crash, starting, host, IInv, RunnerLeft, Superseding, SafeUntilRestart

LEMMA CollectKeeps == IInv /\ Collect => IInv'
<1> SUFFICES ASSUME IInv, Collect PROVE IInv' OBVIOUS
<1>1. vms' = Nothing /\ DOMAIN vms' = {} BY DEF Collect, KillQemu, Nothing
<1>2. TypeOK' BY <1>1 DEF Collect, KillQemu, IInv, TypeOK, Running
<1>3. ReadyFromUp' BY DEF Collect, IInv, ReadyFromUp, Reachable
<1> QED BY <1>1, <1>2, <1>3 DEF Collect, IInv, Running, OnlyLastPlugged, RunnerLeft, Superseding, SafeUntilRestart

LEMMA StutterKeeps == IInv /\ UNCHANGED vars => IInv'
BY DEF vars, IInv, TypeOK, Running, OnlyLastPlugged, RunnerLeft, ReadyFromUp, Reachable, Answers, Superseding, SafeUntilRestart

LEMMA Invariant == Spec => []IInv
<1>1. IInv /\ [Next \/ Terminated]_vars => IInv'
  <2>1. IInv /\ Next => IInv'
    BY NewRunnerKeeps, CopyToolsKeeps, StartTapKeeps, MakeImageKeeps, StartQemuKeeps, WaitKeeps, OtherSubnetKeeps,
       ConfigureKeeps, StartedKeeps, FailedKeeps, RestartKeeps, WorkEndsKeeps, CleanupKeeps, CrashKeeps, CollectKeeps
    DEF Next, StartNext, WorkNext
  <2>2. IInv /\ Terminated => IInv' BY StutterKeeps DEF Terminated
  <2> QED BY <2>1, <2>2, StutterKeeps
<1> QED BY <1>1, Starts, PTL DEF Spec
-----------------------------------------------------------------------------
(* Every variable of the runners and machines keeps its type: the numbered *)
(* attempts never exceed their bounds, restarts for procd included.        *)
THEOREM TypeCorrect == Spec => []TypeOK
<1>1. IInv => TypeOK BY DEF IInv
<1> QED BY <1>1, Invariant, PTL

(* What start_env reports as started is the machine behind the console and *)
(* the tap device, at the address in network_info.                         *)
THEOREM Ready == Spec => []ReadyIsReachable
<1>1. IInv => ReadyIsReachable BY DEF IInv, ReadyFromUp, Reachable, ReadyIsReachable
<1> QED BY <1>1, Invariant, PTL

(* No machine of an earlier attempt shares the tap device with the new one.*)
THEOREM OneMachine == Spec => []OneOnTap
<1>1. IInv => OneOnTap BY DEF IInv, OnlyLastPlugged, OneOnTap
<1> QED BY <1>1, Invariant, PTL

(* In the first iteration of run no machine falls victim to the __del__ of *)
(* an earlier runner, however many of them have failed.                    *)
THEOREM SafeAtFirst == Spec => []SafeUntilRestart
<1>1. IInv => SafeUntilRestart BY DEF IInv, Superseding
<1> QED BY <1>1, Invariant, PTL
=============================================================================
