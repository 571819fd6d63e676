----------------------------- MODULE NatLemmas -----------------------------
(***************************************************************************)
(* Facts about natural numbers that the proofs of several components need: *)
(* a set of them has a least element, and what holds of 0 and is passed on *)
(* from n to n + 1 holds of all.                                           *)
(***************************************************************************)
EXTENDS Integers, FiniteSetsExt, WellFoundedInduction, TLAPS

(* A set of naturals that is not empty has a least element. *)
LEMMA Least ==
    ASSUME NEW T, T \subseteq Nat, T # {}
    PROVE  \E n \in T : \A m \in T : n <= m
<1> DEFINE R == OpToRel(<,Nat)
<1>1. IsWellFoundedOn(R, Nat)
  BY NatLessThanWellFounded
<1>2. R = {ss \in Nat \X Nat : ss[1] < ss[2]}
  BY Zenon DEF OpToRel
<1> HIDE DEF R
<1>3. PICK x \in T : \A y \in T : <<y, x>> \notin R
  BY <1>1, WFMin
<1>4. ASSUME NEW y \in T  PROVE x <= y
  <2>1. <<y, x>> \notin {ss \in Nat \X Nat : ss[1] < ss[2]}
    BY <1>2, <1>3
  <2>2. <<y, x>> \in Nat \X Nat
    BY <1>4
  <2>3. ~ (y < x)
    BY <2>1, <2>2
  <2> QED
    BY <2>3, <1>4
<1> QED
  BY <1>4

(* Min returns it. *)
LEMMA MinIsLeast ==
    ASSUME NEW T, T \subseteq Nat, T # {}
    PROVE  Min(T) \in T /\ \A m \in T : Min(T) <= m
<1>1. \E n \in T : \A m \in T : n <= m
  BY Least
<1> QED
  BY <1>1 DEF Min

(* Induction, with the property given as the set of those that have it. *)
LEMMA SetInduction ==
    ASSUME NEW T, 0 \in T, \A n \in Nat : n \in T => n + 1 \in T
    PROVE  Nat \subseteq T
<1> SUFFICES ASSUME ~ (Nat \subseteq T)  PROVE FALSE
  OBVIOUS
<1> DEFINE U == {n \in Nat : n \notin T}
<1>1. U \subseteq Nat /\ U # {}
  OBVIOUS
<1> HIDE DEF U
<1>2. PICK n \in U : \A m \in U : n <= m
  BY <1>1, Least
<1>3. n \in Nat /\ n \notin T /\ n # 0
  BY <1>2 DEF U
<1>4. n - 1 \in Nat /\ n - 1 + 1 = n /\ ~ (n <= n - 1)
  BY ONLY <1>3
<1>5. n - 1 \in T
  BY <1>2, <1>4 DEF U
<1> QED
  BY <1>3, <1>4, <1>5

(* A loop over 1 .. n that carries one value of S: the sequence of its     *)
(* values exists.                                                          *)
LoopRuns(S, n, init, step) ==
    \E f \in [0 .. n -> S] : f[0] = init /\ \A i \in 1 .. n : f[i] = step[<<i, f[i - 1]>>]

(* A loop runs when every step of it does. *)
LEMMA LoopExists ==
    ASSUME NEW S, NEW n \in Nat, NEW init \in S, NEW step \in [(1 .. n) \X S -> S]
    PROVE  LoopRuns(S, n, init, step)
<1> DEFINE Runs(m) == \E f \in [0 .. m -> S] :
                         f[0] = init /\ \A i \in 1 .. m : f[i] = step[<<i, f[i - 1]>>]
           T == {m \in Nat : m <= n => Runs(m)}
<1>1. 0 \in T
  <2> DEFINE f == [i \in 0 .. 0 |-> init]
  <2>1. f \in [0 .. 0 -> S] /\ f[0] = init /\ \A i \in 1 .. 0 : f[i] = step[<<i, f[i - 1]>>]
    OBVIOUS
  <2> QED
    BY <2>1
<1>2. ASSUME NEW m \in Nat, m \in T  PROVE m + 1 \in T
  <2> SUFFICES ASSUME m + 1 <= n  PROVE Runs(m + 1)
    OBVIOUS
  <2>1. PICK f \in [0 .. m -> S] : f[0] = init /\ \A i \in 1 .. m : f[i] = step[<<i, f[i - 1]>>]
    BY <1>2
  <2>2. m + 1 \in 1 .. n /\ f[m] \in S
    OBVIOUS
  <2>3. PICK next : next = step[<<m + 1, f[m]>>]
    OBVIOUS
  <2>4. next \in S
    BY <2>2, <2>3
  <2>5. PICK g : g = [i \in 0 .. m + 1 |-> IF i = m + 1 THEN next ELSE f[i]]
    OBVIOUS
  <2>6. g \in [0 .. m + 1 -> S]
    BY <2>4, <2>5
  <2>7. g[0] = init /\ g[m + 1] = next /\ \A i \in 0 .. m : g[i] = f[i]
    BY <2>1, <2>5
  <2>8. \A i \in 1 .. m + 1 : g[i] = step[<<i, g[i - 1]>>]
    <3> SUFFICES ASSUME NEW i \in 1 .. m + 1  PROVE g[i] = step[<<i, g[i - 1]>>]
      OBVIOUS
    <3>1. CASE i = m + 1
      <4>1. g[i - 1] = f[m]
        BY <2>7, <3>1
      <4> QED
        BY <2>3, <2>7, <3>1, <4>1
    <3>2. CASE i # m + 1
      <4>1. i \in 1 .. m /\ i \in 0 .. m /\ i - 1 \in 0 .. m
        BY <3>2
      <4>2. g[i] = f[i] /\ g[i - 1] = f[i - 1] /\ f[i] = step[<<i, f[i - 1]>>]
        BY <2>1, <2>7, <4>1
      <4> QED
        BY <4>2
    <3> QED
      BY <3>1, <3>2
  <2> QED
    BY <2>6, <2>7, <2>8
<1> HIDE DEF T
<1>3. Nat \subseteq T
  BY <1>1, <1>2, SetInduction
<1>4. n \in T /\ n <= n
  BY <1>3
<1> QED
  BY <1>4 DEF T, LoopRuns
=============================================================================
