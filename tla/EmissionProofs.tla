--------------------------- MODULE EmissionProofs ---------------------------
(***************************************************************************)
(* Proofs about the bytes of a hello (twiddle.go, auth.go), for every set  *)
(* of captures that a browser may have sent: a usable hello survives the   *)
(* emitter, and what is emitted is read as ours, looks like Chrome's and   *)
(* carries nothing of the connection it was tapped from.                   *)
(*                                                                         *)
(* SetSNI, Rerandomize, Shuffle and SetKeyShare each take a hello that is  *)
(* the one drawn up to Moved (a permutation of its extensions, each become *)
(* what it may) to another; Rewrote says what they have replaced so far.   *)
(* The inductive invariant EmitInv keeps Rewrote for the place that Client *)
(* has reached, and from it the authenticator of either kind gives the     *)
(* hello on the wire.                                                      *)
(***************************************************************************)
EXTENDS OpeningProofs

(* A function on 1 .. n is a sequence, and a sequence is such a function. *)
IsSequence(s) == s \in Seq(ToSet(s))

(* Such a function is a sequence of that length. *)
LEMMA SequenceOf ==
    ASSUME NEW n \in Nat, NEW s, s = [i \in 1 .. n |-> s[i]]
    PROVE  IsSequence(s) /\ Len(s) = n /\ DOMAIN s = 1 .. n
<1>1. DOMAIN s = 1 .. n /\ s \in [1 .. n -> ToSet(s)]
  BY DEF ToSet
<1> QED
  BY <1>1, LenProperties DEF IsSequence

(* A sequence is the function of its places. *)
LEMMA SequenceIs ==
    ASSUME NEW s, IsSequence(s)
    PROVE  Len(s) \in Nat /\ DOMAIN s = 1 .. Len(s) /\ s = [i \in 1 .. Len(s) |-> s[i]]
BY DEF IsSequence

(* A sequence with one place replaced. *)
Replaces(r, s, p, x) ==
    /\ IsSequence(r) /\ Len(r) = Len(s) /\ DOMAIN r = DOMAIN s
    /\ \A i \in DOMAIN s : r[i] = IF i = p THEN x ELSE s[i]

(* EXCEPT replaces one place. *)
LEMMA ReplacedOne ==
    ASSUME NEW s, IsSequence(s), NEW p, NEW x, NEW r, r = [s EXCEPT ![p] = x]
    PROVE  Replaces(r, s, p, x)
<1>1. PICK n : n = Len(s)
  OBVIOUS
<1>2. n \in Nat /\ DOMAIN s = 1 .. n
  BY <1>1, SequenceIs
<1>3. r = [i \in 1 .. n |-> r[i]]
  BY <1>2
<1>4. IsSequence(r) /\ Len(r) = n /\ DOMAIN r = 1 .. n
  BY <1>2, <1>3, SequenceOf
<1>5. \A i \in DOMAIN s : r[i] = IF i = p THEN x ELSE s[i]
  OBVIOUS
<1> QED
  BY <1>1, <1>2, <1>4, <1>5 DEF Replaces

-----------------------------------------------------------------------------
(* Finding an extension *)

(* No type occurs twice, GREASE apart. *)
Once(s) == \A i, j \in DOMAIN s : s[i][1] = s[j][1] /\ s[i][1] # "grease" => i = j

(* Where the extensions of a type are. *)
Places(s, t) == {i \in 1 .. Len(s) : s[i][1] = t}

(* The place that Find reads is the first one of the type. *)
LEMMA PosIs ==
    ASSUME NEW h, NEW t
    PROVE  Pos(h, t) = IF Places(h.exts, t) # {} THEN Min(Places(h.exts, t)) ELSE 0
BY DEF Pos, SelectInSeq, Places

(* An extension that is there is found, at a place of its type. *)
LEMMA HasIs ==
    ASSUME NEW h, IsSequence(h.exts), NEW t
    PROVE  /\ Has(h, t) <=> \E i \in DOMAIN h.exts : h.exts[i][1] = t
           /\ Has(h, t) => Pos(h, t) \in DOMAIN h.exts /\ h.exts[Pos(h, t)][1] = t
<1>1. DOMAIN h.exts = 1 .. Len(h.exts) /\ Len(h.exts) \in Nat
  BY SequenceIs
<1>2. PICK P : P = Places(h.exts, t)
  OBVIOUS
<1>3. P \subseteq Nat /\ 0 \notin P
  BY <1>1, <1>2 DEF Places
<1>4. CASE P # {}
  <2>1. Min(P) \in P
    BY <1>3, <1>4, MinIsLeast
  <2>2. Pos(h, t) = Min(P)
    BY <1>2, <1>4, PosIs
  <2> QED
    BY <1>1, <1>2, <1>3, <2>1, <2>2 DEF Has, Places
<1>5. CASE P = {}
  <2>1. Pos(h, t) = 0
    BY <1>2, <1>5, PosIs
  <2> QED
    BY <1>1, <1>2, <1>5, <2>1 DEF Has, Places
<1> QED
  BY <1>4, <1>5

(* Of a type that occurs once, the place found is the only one. *)
LEMMA PosOnce ==
    ASSUME NEW h, IsSequence(h.exts), Once(h.exts), NEW t, t # "grease",
           NEW i \in DOMAIN h.exts, h.exts[i][1] = t
    PROVE  Has(h, t) /\ Pos(h, t) = i
<1>1. Has(h, t) /\ Pos(h, t) \in DOMAIN h.exts /\ h.exts[Pos(h, t)][1] = t
  BY HasIs
<1>2. Pos(h, t) = i
  BY Zenon, <1>1 DEF Once
<1> QED
  BY <1>1, <1>2

-----------------------------------------------------------------------------
(* Without *)

(* The values that the loop over the extensions goes through. *)
Drops(f, s, T) ==
    /\ f[0] = <<>>
    /\ \A i \in 1 .. Len(s) : f[i] = IF s[i][1] \in T THEN f[i - 1] ELSE Append(f[i - 1], s[i])

(* The loop runs to its end. *)
LEMMA WithoutLoop ==
    ASSUME NEW S, NEW s \in Seq(S), NEW T
    PROVE  \E f \in [0 .. Len(s) -> Seq(S)] : Drops(f, s, T) /\ Without(s, T) = f[Len(s)]
<1>1. PICK n : n = Len(s)
  OBVIOUS
<1>2. n \in Nat /\ \A i \in 1 .. n : s[i] \in S
  BY <1>1
<1>3. PICK step : step = [x \in (1 .. n) \X Seq(S) |->
                            IF s[x[1]][1] \in T THEN x[2] ELSE Append(x[2], s[x[1]])]
  OBVIOUS
<1>4. step \in [(1 .. n) \X Seq(S) -> Seq(S)]
  <2>1. \A x \in (1 .. n) \X Seq(S) :
           (IF s[x[1]][1] \in T THEN x[2] ELSE Append(x[2], s[x[1]])) \in Seq(S)
    <3> SUFFICES ASSUME NEW x \in (1 .. n) \X Seq(S)
                 PROVE  Append(x[2], s[x[1]]) \in Seq(S) /\ x[2] \in Seq(S)
      OBVIOUS
    <3>1. x[1] \in 1 .. n /\ x[2] \in Seq(S)
      OBVIOUS
    <3> QED
      BY <1>2, <3>1, AppendProperties
  <2> QED
    BY <1>3, <2>1
<1>5. \A i \in 1 .. n, t \in Seq(S) :
         step[<<i, t>>] = IF s[i][1] \in T THEN t ELSE Append(t, s[i])
  BY <1>3
<1>6. <<>> \in Seq(S)
  OBVIOUS
<1>7. PICK f \in [0 .. n -> Seq(S)] :
         f[0] = <<>> /\ \A i \in 1 .. n : f[i] = step[<<i, f[i - 1]>>]
  <2>1. PICK Q, e : Q = Seq(S) /\ e = <<>>
    OBVIOUS
  <2>2. e \in Q /\ n \in Nat /\ step \in [(1 .. n) \X Q -> Q]
    BY Zenon, <1>2, <1>4, <1>6, <2>1
  <2>3. LoopRuns(Q, n, e, step)
    BY <2>2, LoopExists
  <2> QED
    BY Zenon, <2>1, <2>3 DEF LoopRuns
<1>8. Drops(f, s, T)
  <2>1. \A i \in 1 .. n : f[i - 1] \in Seq(S)
    BY <1>2
  <2> QED
    BY <1>1, <1>5, <1>7, <2>1 DEF Drops
<1>9. f = [i \in 0 .. Len(s) |->
             IF i = 0 THEN <<>>
             ELSE IF s[i][1] \in T THEN f[i - 1] ELSE Append(f[i - 1], s[i])]
  <2>1. \A i \in 0 .. n : i # 0 => i \in 1 .. n
    BY <1>2
  <2>2. \A i \in 0 .. n : f[i] = IF i = 0 THEN <<>>
             ELSE IF s[i][1] \in T THEN f[i - 1] ELSE Append(f[i - 1], s[i])
    BY Zenon, <1>1, <1>8, <2>1 DEF Drops
  <2> QED
    BY Zenon, <1>1, <2>2
<1>10. PICK c : /\ Without(s, T) = c[Len(s)]
                /\ c = [i \in 0 .. Len(s) |->
                         IF i = 0 THEN <<>>
                         ELSE IF s[i][1] \in T THEN c[i - 1] ELSE Append(c[i - 1], s[i])]
  <2>1. \E c : /\ Without(s, T) = c[Len(s)]
               /\ c = CHOOSE out : out = [i \in 0 .. Len(s) |->
                        IF i = 0 THEN <<>>
                        ELSE IF s[i][1] \in T THEN out[i - 1] ELSE Append(out[i - 1], s[i])]
    BY DEF Without
  <2>2. \E out : out = [i \in 0 .. Len(s) |->
                        IF i = 0 THEN <<>>
                        ELSE IF s[i][1] \in T THEN out[i - 1] ELSE Append(out[i - 1], s[i])]
    BY Zenon, <1>9
  <2> QED
    BY Zenon, <2>1, <2>2
<1>11. c[n] = f[n]
  <2> DEFINE U == {m \in Nat : m <= n => c[m] = f[m]}
  <2>1. c[0] = <<>>
    BY <1>1, <1>2, <1>10
  <2>2. ASSUME NEW m \in Nat, m \in U, m + 1 <= n  PROVE c[m + 1] = f[m + 1]
    <3>1. m + 1 \in 1 .. n /\ m + 1 \in 0 .. n /\ m + 1 # 0 /\ m + 1 - 1 = m /\ m <= n
      BY <1>2, <2>2
    <3>2. c[m + 1] = IF s[m + 1][1] \in T THEN c[m] ELSE Append(c[m], s[m + 1])
      <4>1. \A i \in 0 .. n : i # 0 => c[i] = IF s[i][1] \in T THEN c[i - 1]
                                             ELSE Append(c[i - 1], s[i])
        BY Zenon, <1>1, <1>10
      <4>2. PICK k : k = m + 1
        OBVIOUS
      <4>3. k \in 0 .. n /\ k # 0 /\ k - 1 = m
        BY <3>1, <4>2
      <4>4. c[k] = IF s[k][1] \in T THEN c[m] ELSE Append(c[m], s[k])
        BY Zenon, <4>1, <4>3
      <4> QED
        BY Zenon, <4>2, <4>4
    <3>3. f[m + 1] = IF s[m + 1][1] \in T THEN f[m] ELSE Append(f[m], s[m + 1])
      BY <1>1, <1>8, <3>1 DEF Drops
    <3>4. c[m] = f[m]
      BY <2>2, <3>1
    <3> QED
      BY <3>2, <3>3, <3>4
  <2>3. 0 \in U
    BY <1>7, <2>1
  <2>4. \A m \in Nat : m \in U => m + 1 \in U
    BY <2>2
  <2> HIDE DEF U
  <2>5. Nat \subseteq U
    BY <2>3, <2>4, SetInduction
  <2>6. n \in U /\ n <= n
    BY <1>2, <2>5
  <2> QED
    BY <2>6 DEF U
<1> QED
  BY Zenon, <1>1, <1>8, <1>10, <1>11

(* What the loop has kept after m extensions: those of other types, in the *)
(* order in which they came, the first and the last of them in their place. *)
FromFirst(s, T, m, t) == \A k \in 1 .. Len(t) : t[k][1] \notin T /\ \E i \in 1 .. m : t[k] = s[i]
IsLeft(s, T, m, t)    == \A i \in 1 .. m : s[i][1] \notin T => \E k \in 1 .. Len(t) : t[k] = s[i]
InOrder(s, m, t) ==
    \A k, l \in 1 .. Len(t) : k < l => \E i, j \in 1 .. m : i < j /\ t[k] = s[i] /\ t[l] = s[j]
StartsSame(s, T, m, t) == m >= 1 /\ s[1][1] \notin T => Len(t) >= 1 /\ t[1] = s[1]
EndsSame(s, T, m, t)   == m >= 1 /\ s[m][1] \notin T => Len(t) >= 1 /\ t[Len(t)] = s[m]

(* What dropExtension has left after m extensions. *)
Left(s, T, m, t) ==
    FromFirst(s, T, m, t) /\ IsLeft(s, T, m, t) /\ InOrder(s, m, t)
    /\ StartsSame(s, T, m, t) /\ EndsSame(s, T, m, t)

(* One more extension keeps what is known of the loop. *)
LEMMA LeftStep ==
    ASSUME NEW S, NEW s \in Seq(S), NEW T, NEW m \in Nat, m + 1 <= Len(s),
           NEW t \in Seq(S), Left(s, T, m, t), NEW u,
           u = IF s[m + 1][1] \in T THEN t ELSE Append(t, s[m + 1])
    PROVE  Left(s, T, m + 1, u)
<1>1. 1 .. m + 1 = (1 .. m) \cup {m + 1} /\ m + 1 \notin 1 .. m /\ m + 1 >= 1
  OBVIOUS
<1>4. \A i \in 1 .. m : i \in 1 .. m + 1
  OBVIOUS
<1>5. m = 0 \/ (m >= 1 /\ 1 \in 1 .. m)
  OBVIOUS
<1>6. /\ FromFirst(s, T, m, t) /\ IsLeft(s, T, m, t) /\ InOrder(s, m, t)
      /\ StartsSame(s, T, m, t) /\ EndsSame(s, T, m, t)
  BY DEF Left
<1>2. CASE s[m + 1][1] \in T
  <2>1. u = t
    BY <1>2
  <2>2. FromFirst(s, T, m + 1, t)
    BY Zenon, <1>4, <1>6 DEF FromFirst
  <2>3. IsLeft(s, T, m + 1, t)
    BY Zenon, <1>1, <1>2, <1>6 DEF IsLeft
  <2>4. InOrder(s, m + 1, t)
    <3> SUFFICES ASSUME NEW k \in 1 .. Len(t), NEW l \in 1 .. Len(t), k < l
                 PROVE  \E i, j \in 1 .. m + 1 : i < j /\ t[k] = s[i] /\ t[l] = s[j]
      BY Zenon DEF InOrder
    <3>1. PICK i, j \in 1 .. m : i < j /\ t[k] = s[i] /\ t[l] = s[j]
      BY Zenon, <1>6 DEF InOrder
    <3> QED
      BY Zenon, <1>4, <3>1
  <2>5. StartsSame(s, T, m + 1, t)
    <3>1. CASE m = 0
      BY <1>2, <3>1 DEF StartsSame
    <3>2. CASE m >= 1
      BY Zenon, <1>6, <3>2 DEF StartsSame
    <3> QED
      BY <1>5, <3>1, <3>2
  <2>6. EndsSame(s, T, m + 1, t)
    BY <1>2 DEF EndsSame
  <2> QED
    BY Zenon, <2>1, <2>2, <2>3, <2>4, <2>5, <2>6 DEF Left
<1>3. CASE s[m + 1][1] \notin T
  <2>4. PICK n, e : n = Len(t) /\ e = s[m + 1]
    OBVIOUS
  <2>5. n \in Nat /\ e \in S /\ u = Append(t, e)
    BY <1>3, <2>4
  <2>6. /\ Len(u) = n + 1 /\ u[n + 1] = e
        /\ \A k \in 1 .. n : u[k] = t[k]
        /\ 1 .. Len(u) = (1 .. n) \cup {n + 1}
    BY <2>4, <2>5, AppendProperties
  <2>7. FromFirst(s, T, m + 1, u)
    <3> SUFFICES ASSUME NEW k \in 1 .. Len(u)
                 PROVE  u[k][1] \notin T /\ \E i \in 1 .. m + 1 : u[k] = s[i]
      BY Zenon DEF FromFirst
    <3>1. CASE k \in 1 .. n
      <4>1. t[k][1] \notin T /\ \E i \in 1 .. m : t[k] = s[i]
        BY Zenon, <1>6, <2>4, <3>1 DEF FromFirst
      <4>2. u[k] = t[k]
        BY Zenon, <2>6, <3>1
      <4> QED
        BY <1>4, <4>1, <4>2
    <3>2. CASE k = n + 1
      BY Zenon, <1>1, <1>3, <2>4, <2>6, <3>2
    <3> QED
      BY Zenon, <2>6, <3>1, <3>2
  <2>8. IsLeft(s, T, m + 1, u)
    <3> SUFFICES ASSUME NEW i \in 1 .. m + 1, s[i][1] \notin T
                 PROVE  \E k \in 1 .. Len(u) : u[k] = s[i]
      BY Zenon DEF IsLeft
    <3>1. CASE i \in 1 .. m
      <4>1. PICK k \in 1 .. n : t[k] = s[i]
        BY Zenon, <1>6, <2>4, <3>1 DEF IsLeft
      <4> QED
        BY Zenon, <2>6, <4>1
    <3>2. CASE i = m + 1
      BY Zenon, <2>4, <2>6, <3>2
    <3> QED
      BY Zenon, <1>1, <3>1, <3>2
  <2>10. InOrder(s, m + 1, u)
    <3> SUFFICES ASSUME NEW k \in 1 .. Len(u), NEW l \in 1 .. Len(u), k < l
                 PROVE  \E i, j \in 1 .. m + 1 : i < j /\ u[k] = s[i] /\ u[l] = s[j]
      BY Zenon DEF InOrder
    <3>1. k \in 1 .. n
      BY <2>5, <2>6
    <3>2. CASE l \in 1 .. n
      <4>1. PICK i, j \in 1 .. m : i < j /\ t[k] = s[i] /\ t[l] = s[j]
        BY Zenon, <1>6, <2>4, <3>1, <3>2 DEF InOrder
      <4> QED
        BY Zenon, <1>4, <2>6, <3>1, <3>2, <4>1
    <3>3. CASE l = n + 1
      <4>1. PICK i \in 1 .. m : t[k] = s[i]
        BY Zenon, <1>6, <2>4, <3>1 DEF FromFirst
      <4>2. i < m + 1 /\ i \in 1 .. m + 1 /\ m + 1 \in 1 .. m + 1
        OBVIOUS
      <4>3. u[k] = s[i] /\ u[l] = s[m + 1]
        BY Zenon, <2>4, <2>6, <3>1, <3>3, <4>1
      <4> QED
        BY Zenon, <4>2, <4>3
    <3> QED
      BY Zenon, <2>6, <3>2, <3>3
  <2>11. StartsSame(s, T, m + 1, u)
    <3> SUFFICES ASSUME s[1][1] \notin T  PROVE Len(u) >= 1 /\ u[1] = s[1]
      BY Zenon DEF StartsSame
    <3>0. Len(u) >= 1
      BY <2>5, <2>6
    <3>1. CASE m = 0
      <4>1. n = 0
        <5>1. 1 .. m = {}
          BY <3>1
        <5>2. \A k \in 1 .. n : FALSE
          BY Zenon, <1>6, <2>4, <5>1 DEF FromFirst
        <5>3. n \in Nat
          BY Zenon, <2>5
        <5> QED
          BY ONLY <5>2, <5>3
      <4> QED
        BY <2>4, <2>6, <3>0, <3>1, <4>1
    <3>2. CASE m >= 1
      <4>1. n >= 1 /\ t[1] = s[1]
        BY Zenon, <1>6, <2>4, <3>2 DEF StartsSame
      <4>2. 1 \in 1 .. n
        BY <2>5, <4>1
      <4> QED
        BY Zenon, <2>6, <3>0, <4>1, <4>2
    <3> QED
      BY <1>5, <3>1, <3>2
  <2>12. EndsSame(s, T, m + 1, u)
    <3>1. Len(u) >= 1
      BY <2>5, <2>6
    <3> QED
      BY Zenon, <2>4, <2>6, <3>1 DEF EndsSame
  <2> QED
    BY Zenon, <2>7, <2>8, <2>10, <2>11, <2>12 DEF Left
<1> QED
  BY <1>2, <1>3

(* After any number of extensions, and so of all. *)
LEMMA WithoutLeft ==
    ASSUME NEW S, NEW s \in Seq(S), NEW T
    PROVE  /\ Without(s, T) \in Seq(S)
           /\ Left(s, T, Len(s), Without(s, T))
           /\ Len(s) >= 2 /\ s[Len(s)][1] \in T => EndsSame(s, T, Len(s) - 1, Without(s, T))
<1>1. PICK f \in [0 .. Len(s) -> Seq(S)] : Drops(f, s, T) /\ Without(s, T) = f[Len(s)]
  BY WithoutLoop
<1>2. PICK n : n = Len(s)
  OBVIOUS
<1>3. n \in Nat
  BY <1>2
<1> DEFINE U == {m \in Nat : m <= n => Left(s, T, m, f[m])}
<1>4. 0 \in U
  <2>1. f[0] = <<>>
    BY <1>1 DEF Drops
  <2>2. 1 .. 0 = {} /\ Len(<<>>) = 0
    OBVIOUS
  <2>3. Left(s, T, 0, <<>>)
    BY <2>2 DEF Left, FromFirst, IsLeft, InOrder, StartsSame, EndsSame
  <2> QED
    BY <2>1, <2>3
<1>5. ASSUME NEW m \in Nat, m \in U, m + 1 <= n  PROVE Left(s, T, m + 1, f[m + 1])
  <2>1. m <= n /\ m \in 0 .. n /\ m + 1 \in 1 .. n /\ m + 1 - 1 = m
    BY <1>3, <1>5
  <2>2. f[m] \in Seq(S) /\ Left(s, T, m, f[m])
    BY <1>2, <1>5, <2>1
  <2>3. f[m + 1] = IF s[m + 1][1] \in T THEN f[m] ELSE Append(f[m], s[m + 1])
    BY <1>1, <1>2, <2>1 DEF Drops
  <2>4. PICK t, u : t = f[m] /\ u = f[m + 1]
    OBVIOUS
  <2>5. t \in Seq(S) /\ Left(s, T, m, t) /\ m + 1 <= Len(s) /\ u = IF s[m + 1][1] \in T THEN t ELSE Append(t, s[m + 1])
    BY Zenon, <1>2, <1>5, <2>2, <2>3, <2>4
  <2>6. Left(s, T, m + 1, u)
    BY <2>5, LeftStep
  <2> QED
    BY Zenon, <2>4, <2>6
<1>6. \A m \in Nat : m \in U => m + 1 \in U
  BY <1>5
<1> HIDE DEF U
<1>7. Nat \subseteq U
  BY <1>4, <1>6, SetInduction
<1>8. Left(s, T, n, f[n]) /\ f[n] \in Seq(S)
  BY <1>2, <1>3, <1>7 DEF U
<1>9. ASSUME n >= 2, s[n][1] \in T  PROVE EndsSame(s, T, n - 1, f[n])
  <2>1. n \in 1 .. n /\ n - 1 \in Nat /\ n - 1 <= n
    BY <1>3, <1>9
  <2>2. f[n] = f[n - 1]
    BY <1>1, <1>2, <1>9, <2>1 DEF Drops
  <2>3. Left(s, T, n - 1, f[n - 1])
    BY <1>7, <2>1 DEF U
  <2> QED
    BY Zenon, <2>2, <2>3 DEF Left
<1> QED
  BY Zenon, <1>1, <1>2, <1>8, <1>9

(* The appended extension is the only one that goes again. *)
LEMMA WithoutAppended ==
    ASSUME NEW S, NEW t \in Seq(S), NEW T, NEW x \in S, x[1] \in T,
           \A i \in 1 .. Len(t) : t[i][1] \notin T
    PROVE  Without(Append(t, x), T) = t
<1>1. PICK s, n : s = Append(t, x) /\ n = Len(t)
  OBVIOUS
<1>2. /\ n \in Nat /\ s \in Seq(S) /\ Len(s) = n + 1 /\ s[n + 1] = x
      /\ \A i \in 1 .. n : s[i] = t[i]
  BY <1>1, AppendProperties
<1>3. PICK f \in [0 .. Len(s) -> Seq(S)] : Drops(f, s, T) /\ Without(s, T) = f[Len(s)]
  <2>1. s \in Seq(S)
    BY <1>2
  <2> QED
    BY ONLY <2>1, WithoutLoop
<1> DEFINE Same(m) == Len(f[m]) = m /\ \A i \in 1 .. m : f[m][i] = t[i]
           U == {m \in Nat : m <= n => Same(m)}
<1>4. 0 \in U
  BY <1>3 DEF Drops
<1>5. ASSUME NEW m \in Nat, m \in U, m + 1 <= n  PROVE Same(m + 1)
  <2>1. m <= n /\ m + 1 \in 1 .. n /\ m + 1 \in 1 .. Len(s) /\ m + 1 - 1 = m /\ m \in 0 .. Len(s)
    BY <1>2, <1>5
  <2>2. PICK a, e : a = f[m] /\ e = t[m + 1]
    OBVIOUS
  <2>3. a \in Seq(S) /\ Len(a) = m /\ (\A i \in 1 .. m : a[i] = t[i]) /\ e \in S
    BY <1>1, <1>5, <2>1, <2>2
  <2>4. s[m + 1] = e /\ e[1] \notin T
    BY Zenon, <1>1, <1>2, <2>1, <2>2
  <2>5. f[m + 1] = Append(a, e)
    <3>1. f[m + 1] = IF s[m + 1][1] \in T THEN f[m] ELSE Append(f[m], s[m + 1])
      BY <1>3, <2>1 DEF Drops
    <3> QED
      BY Zenon, <2>2, <2>4, <3>1
  <2>6. /\ Len(Append(a, e)) = m + 1 /\ Append(a, e)[m + 1] = e
        /\ \A i \in 1 .. m : Append(a, e)[i] = a[i]
    BY <2>3, AppendProperties
  <2>7. 1 .. m + 1 = (1 .. m) \cup {m + 1}
    OBVIOUS
  <2>8. ASSUME NEW i \in 1 .. m + 1  PROVE Append(a, e)[i] = t[i]
    BY Zenon, <2>2, <2>3, <2>6, <2>7
  <2> QED
    BY Zenon, <2>5, <2>6, <2>8
<1> HIDE DEF Same
<1>6. \A m \in Nat : m \in U => m + 1 \in U
  BY <1>5
<1> HIDE DEF U
<1>7. Nat \subseteq U
  BY <1>4, <1>6, SetInduction
<1>8. n \in U /\ n <= n /\ n \in 0 .. Len(s) /\ n + 1 \in 1 .. Len(s) /\ n + 1 - 1 = n
  BY <1>2, <1>7
<1>9. Same(n) /\ f[n] \in Seq(S)
  BY <1>8 DEF U
<1>10. f[n] = t
  <2>1. Len(f[n]) = Len(t) /\ \A i \in 1 .. Len(t) : f[n][i] = t[i]
    BY <1>1, <1>9 DEF Same
  <2> QED
    BY <1>9, <2>1, SeqEqual
<1>11. f[n + 1] = f[n]
  <2>1. f[n + 1] = IF s[n + 1][1] \in T THEN f[n] ELSE Append(f[n], s[n + 1])
    BY <1>3, <1>8 DEF Drops
  <2> QED
    BY Zenon, <1>2, <2>1
<1> QED
  BY Zenon, <1>1, <1>2, <1>3, <1>10, <1>11

(* What is left of extensions of which each came once: an extension of     *)
(* another type is found, and it is the same.                              *)
LEMMA WithoutFind ==
    ASSUME NEW h, IsSequence(h.exts), Once(h.exts), NEW T,
           NEW g, g.exts = Without(h.exts, T)
    PROVE  /\ IsSequence(g.exts) /\ Once(g.exts)
           /\ \A t \in T : ~Has(g, t)
           /\ \A t : t # "grease" /\ t \notin T =>
                 (Has(g, t) <=> Has(h, t)) /\ (Has(h, t) => Find(g, t) = Find(h, t))
<1>1. PICK s, r, S : s = h.exts /\ r = g.exts /\ S = ToSet(s)
  OBVIOUS
<1>2. s \in Seq(S)
  BY <1>1 DEF IsSequence
<1>3. r \in Seq(S) /\ Left(s, T, Len(s), r)
  BY Zenon, <1>1, <1>2, WithoutLeft
<1>4. PICK n, m : n = Len(s) /\ m = Len(r)
  OBVIOUS
<1>5. /\ n \in Nat /\ m \in Nat /\ DOMAIN s = 1 .. n /\ DOMAIN r = 1 .. m
      /\ r = [i \in 1 .. m |-> r[i]]
  BY <1>2, <1>3, <1>4
<1>6. IsSequence(r)
  BY <1>5, SequenceOf
<1>7. /\ \A k \in 1 .. m : r[k][1] \notin T /\ \E i \in 1 .. n : r[k] = s[i]
      /\ \A i \in 1 .. n : s[i][1] \notin T => \E k \in 1 .. m : r[k] = s[i]
      /\ \A k, l \in 1 .. m : k < l => \E i, j \in 1 .. n : i < j /\ r[k] = s[i] /\ r[l] = s[j]
  <2>1. FromFirst(s, T, n, r) /\ IsLeft(s, T, n, r) /\ InOrder(s, n, r)
    BY Zenon, <1>3, <1>4 DEF Left
  <2>2. \A k \in 1 .. m : r[k][1] \notin T /\ \E i \in 1 .. n : r[k] = s[i]
    BY Zenon, <1>4, <2>1 DEF FromFirst
  <2>3. \A i \in 1 .. n : s[i][1] \notin T => \E k \in 1 .. m : r[k] = s[i]
    BY Zenon, <1>4, <2>1 DEF IsLeft
  <2>4. \A k, l \in 1 .. m : k < l => \E i, j \in 1 .. n : i < j /\ r[k] = s[i] /\ r[l] = s[j]
    BY Zenon, <1>4, <2>1 DEF InOrder
  <2> QED
    BY Zenon, <2>2, <2>3, <2>4
<1>8. \A i, j \in 1 .. n : s[i][1] = s[j][1] /\ s[i][1] # "grease" => i = j
  BY Zenon, <1>1, <1>5 DEF Once
<1>9. Once(r)
  <2>1. ASSUME NEW k \in 1 .. m, NEW l \in 1 .. m, k < l, r[k][1] = r[l][1], r[k][1] # "grease"
        PROVE  FALSE
    <3>1. PICK i, j \in 1 .. n : i < j /\ r[k] = s[i] /\ r[l] = s[j]
      BY Zenon, <1>7, <2>1
    <3>2. i = j
      BY Zenon, <1>8, <2>1, <3>1
    <3> QED
      BY <1>5, <3>1, <3>2
  <2>2. \A k, l \in 1 .. m : k = l \/ k < l \/ l < k
    BY <1>5
  <2> QED
    BY Zenon, <1>5, <2>1, <2>2 DEF Once
<1>10. /\ \A t : Has(g, t) <=> \E k \in 1 .. m : r[k][1] = t
       /\ \A t : Has(h, t) <=> \E i \in 1 .. n : s[i][1] = t
  BY <1>1, <1>5, <1>6, HasIs
<1>11. \A t \in T : ~Has(g, t)
  <2>1. \A k \in 1 .. m : r[k][1] \notin T
    BY Zenon, <1>7
  <2> QED
    BY <1>10, <2>1
<1>12. ASSUME NEW t, t # "grease", t \notin T
       PROVE  (Has(g, t) <=> Has(h, t)) /\ (Has(h, t) => Find(g, t) = Find(h, t))
  <2>1. ASSUME Has(g, t)  PROVE Has(h, t)
    <3>1. PICK k \in 1 .. m : r[k][1] = t
      BY <1>10, <2>1
    <3>2. PICK i \in 1 .. n : r[k] = s[i]
      BY Zenon, <1>7
    <3> QED
      BY <1>10, <3>1, <3>2
  <2>2. ASSUME Has(h, t)  PROVE Has(g, t) /\ Find(g, t) = Find(h, t)
    <3>1. PICK i \in 1 .. n : s[i][1] = t
      BY <1>10, <2>2
    <3>2. PICK k \in 1 .. m : r[k] = s[i]
      BY Zenon, <1>7, <1>12, <3>1
    <3>3. Pos(h, t) = i
      BY <1>1, <1>5, <1>12, <3>1, PosOnce
    <3>4. Has(g, t) /\ Pos(g, t) = k
      <4>1. IsSequence(g.exts) /\ Once(g.exts) /\ k \in DOMAIN g.exts /\ g.exts[k][1] = t
        BY Zenon, <1>1, <1>5, <1>6, <1>9, <3>1, <3>2
      <4> QED
        BY <1>12, <4>1, PosOnce
    <3> QED
      BY Zenon, <1>1, <3>2, <3>3, <3>4 DEF Find
  <2> QED
    BY <2>1, <2>2
<1> QED
  BY Zenon, <1>1, <1>6, <1>9, <1>11, <1>12

-----------------------------------------------------------------------------
(* What the emitter may make of an extension: the first rewritten types    *)
(* keep the layout that the canonical form counts, the others everything.  *)
Rewritten == {"grease", "server_name", "key_share", "supported_groups", "ech"}

(* The same groups and lengths in the same places, GREASE by its sentinel. *)
SameShares(x, y) ==
    /\ x.cut = y.cut
    /\ IsSequence(x.entries) /\ Len(x.entries) = Len(y.entries)
    /\ \A k \in 1 .. Len(y.entries) :
          /\ Sentinel(x.entries[k].group) = Sentinel(y.entries[k].group)
          /\ x.entries[k].len = y.entries[k].len

(* The same groups in the same places, GREASE by its sentinel. *)
SameGroups(x, y) ==
    /\ IsSequence(x) /\ Len(x) = Len(y)
    /\ \A k \in 1 .. Len(y) : Sentinel(x[k]) = Sentinel(y[k])

(* The same kind of ECH extension; a short one tells nothing. *)
SameECH(x, y) == y.form # "short" => x.form = y.form /\ x.suite = y.suite

(* The extension f of the hello drawn may have become e. *)
Becomes(f, e) ==
    /\ e[1] = f[1]
    /\ f[1] = "key_share" => SameShares(e[2], f[2])
    /\ f[1] = "supported_groups" => SameGroups(e[2], f[2])
    /\ f[1] = "ech" => SameECH(e[2], f[2])
    /\ f[1] \notin Rewritten => e = f

(* The extensions of a hello on its way, and where each came from. *)
Within(pi, n)   == \A i \in 1 .. n : pi[i] \in 1 .. n
OneToOne(pi, n) == \A i, j \in 1 .. n : pi[i] = pi[j] => i = j
Onto(pi, n)     == \A j \in 1 .. n : \E i \in 1 .. n : pi[i] = j
Come(s, r, pi, n) == \A i \in 1 .. n : Becomes(r[pi[i]], s[i])

(* The extensions s are those of r, each become what it may, in the order  *)
(* pi.                                                                     *)
Moved(s, r, pi) ==
    /\ IsSequence(s) /\ Len(s) = Len(r)
    /\ Within(pi, Len(r)) /\ OneToOne(pi, Len(r)) /\ Onto(pi, Len(r))
    /\ Come(s, r, pi, Len(r))

(* The places of the hello on its way, and of the one drawn. *)
LEMMA MovedIs ==
    ASSUME NEW s, NEW r, NEW pi, IsSequence(r), Moved(s, r, pi), NEW n, n = Len(r)
    PROVE  /\ n \in Nat /\ DOMAIN s = 1 .. n /\ DOMAIN r = 1 .. n /\ IsSequence(s)
           /\ Within(pi, n) /\ OneToOne(pi, n) /\ Onto(pi, n) /\ Come(s, r, pi, n)
<1>1. IsSequence(s) /\ Len(s) = n
  BY Zenon DEF Moved
<1>2. n \in Nat /\ DOMAIN s = 1 .. n /\ DOMAIN r = 1 .. n
  BY <1>1, SequenceIs
<1> QED
  BY Zenon, <1>1, <1>2 DEF Moved

(* A type that was there once is there once. *)
LEMMA MovedOnce ==
    ASSUME NEW s, NEW r, NEW pi, IsSequence(r), Moved(s, r, pi), Once(r)
    PROVE  Once(s)
<1>1. PICK n : n = Len(r)
  OBVIOUS
<1>2. /\ DOMAIN s = 1 .. n /\ DOMAIN r = 1 .. n
      /\ Within(pi, n) /\ OneToOne(pi, n) /\ Come(s, r, pi, n)
  BY <1>1, MovedIs
<1>3. \A i, j \in 1 .. n : r[i][1] = r[j][1] /\ r[i][1] # "grease" => i = j
  BY Zenon, <1>2 DEF Once
<1>4. ASSUME NEW i \in 1 .. n, NEW j \in 1 .. n, s[i][1] = s[j][1], s[i][1] # "grease"
      PROVE  i = j
  <2>1. s[i][1] = r[pi[i]][1] /\ s[j][1] = r[pi[j]][1]
    BY Zenon, <1>2 DEF Come, Becomes
  <2>2. pi[i] \in 1 .. n /\ pi[j] \in 1 .. n
    BY Zenon, <1>2 DEF Within
  <2>3. pi[i] = pi[j]
    BY Zenon, <1>3, <1>4, <2>1, <2>2
  <2> QED
    BY Zenon, <1>2, <2>3 DEF OneToOne
<1> QED
  BY Zenon, <1>2, <1>4 DEF Once

(* What is found on the way is what became of what was found at first. *)
LEMMA MovedFind ==
    ASSUME NEW h, NEW g, NEW pi, IsSequence(g.exts), Moved(h.exts, g.exts, pi), Once(g.exts),
           NEW t, t # "grease"
    PROVE  /\ Has(h, t) <=> Has(g, t)
           /\ Has(g, t) => /\ Becomes(g.exts[Pos(g, t)], h.exts[Pos(h, t)])
                           /\ Pos(g, t) \in DOMAIN g.exts /\ g.exts[Pos(g, t)][1] = t
                           /\ Pos(h, t) \in DOMAIN h.exts /\ h.exts[Pos(h, t)][1] = t
<1>1. PICK s, r, n : s = h.exts /\ r = g.exts /\ n = Len(r)
  OBVIOUS
<1>2. IsSequence(r) /\ Moved(s, r, pi) /\ Once(r)
  BY <1>1
<1>3. /\ DOMAIN s = 1 .. n /\ DOMAIN r = 1 .. n /\ IsSequence(s)
      /\ Within(pi, n) /\ Onto(pi, n) /\ Come(s, r, pi, n)
  BY <1>1, <1>2, MovedIs
<1>4. Once(s)
  BY Zenon, <1>2, MovedOnce
<1>5. Has(h, t) <=> \E i \in 1 .. n : s[i][1] = t
  BY <1>1, <1>3, HasIs
<1>a. Has(g, t) <=> \E i \in 1 .. n : r[i][1] = t
  BY <1>1, <1>2, <1>3, HasIs
<1>6. ASSUME Has(h, t)  PROVE Has(g, t)
  <2>1. PICK i \in 1 .. n : s[i][1] = t
    BY <1>5, <1>6
  <2>2. pi[i] \in 1 .. n /\ s[i][1] = r[pi[i]][1]
    BY Zenon, <1>3 DEF Within, Come, Becomes
  <2> QED
    BY Zenon, <1>a, <2>1, <2>2
<1>7. ASSUME Has(g, t)
      PROVE  /\ Has(h, t)
             /\ Becomes(g.exts[Pos(g, t)], h.exts[Pos(h, t)])
             /\ Pos(g, t) \in DOMAIN g.exts /\ g.exts[Pos(g, t)][1] = t
             /\ Pos(h, t) \in DOMAIN h.exts /\ h.exts[Pos(h, t)][1] = t
  <2>1. PICK j \in 1 .. n : r[j][1] = t
    BY <1>a, <1>7
  <2>2. PICK i \in 1 .. n : pi[i] = j
    BY Zenon, <1>3 DEF Onto
  <2>b. Becomes(r[j], s[i])
    BY Zenon, <1>3, <2>2 DEF Come
  <2>3. s[i][1] = t
    BY Zenon, <2>1, <2>b DEF Becomes
  <2>4. Has(h, t) /\ Pos(h, t) = i
    BY <1>1, <1>3, <1>4, <2>3, PosOnce
  <2>5. Pos(g, t) = j
    BY <1>1, <1>2, <1>3, <2>1, PosOnce
  <2> QED
    BY Zenon, <1>1, <1>3, <2>1, <2>b, <2>3, <2>4, <2>5
<1> QED
  BY <1>6, <1>7

(* Two hellos with the same extensions in another order have the same bag. *)
LEMMA SameBag ==
    ASSUME NEW n \in Nat, NEW c, NEW d, NEW pi, DOMAIN c = 1 .. n, DOMAIN d = 1 .. n,
           Within(pi, n), OneToOne(pi, n), Onto(pi, n),
           \A i \in 1 .. n : c[i] = d[pi[i]]
    PROVE  ToBag(c) = ToBag(d)
<1>1. Range(c) = Range(d)
  <2>1. ASSUME NEW x \in Range(c)  PROVE x \in Range(d)
    <3>1. PICK i \in 1 .. n : x = c[i]
      BY DEF Range
    <3>2. pi[i] \in 1 .. n /\ x = d[pi[i]]
      BY Zenon, <3>1 DEF Within
    <3> QED
      BY <3>2 DEF Range
  <2>2. ASSUME NEW x \in Range(d)  PROVE x \in Range(c)
    <3>1. PICK j \in 1 .. n : x = d[j]
      BY DEF Range
    <3>2. PICK i \in 1 .. n : pi[i] = j
      BY Zenon DEF Onto
    <3>3. x = c[i]
      BY Zenon, <3>1, <3>2
    <3> QED
      BY <3>3 DEF Range
  <2> QED
    BY <2>1, <2>2
<1>2. ASSUME NEW x
      PROVE  Cardinality({i \in 1 .. n : c[i] = x}) = Cardinality({j \in 1 .. n : d[j] = x})
  <2>1. PICK A, B : A = {i \in 1 .. n : c[i] = x} /\ B = {j \in 1 .. n : d[j] = x}
    OBVIOUS
  <2>2. IsFiniteSet(1 .. n)
    <3>1. 1 \in Int /\ n \in Int
      OBVIOUS
    <3> QED
      BY <3>1, FS_Interval
  <2>3. IsFiniteSet(A)
    <3>1. A \subseteq 1 .. n
      BY <2>1
    <3> QED
      BY <2>2, <3>1, FS_Subset
  <2>4. PICK f : f = [i \in A |-> pi[i]]
    OBVIOUS
  <2>5. \A i \in A : i \in 1 .. n /\ c[i] = x /\ pi[i] \in 1 .. n /\ d[pi[i]] = x
    BY <2>1 DEF Within
  <2>6. f \in [A -> B]
    BY <2>1, <2>4, <2>5
  <2>7. \A i, j \in A : f[i] = f[j] => i = j
    <3>1. \A i \in A : f[i] = pi[i]
      BY <2>4
    <3> QED
      BY Zenon, <2>5, <3>1 DEF OneToOne
  <2>8. \A j \in B : \E i \in A : f[i] = j
    <3> SUFFICES ASSUME NEW j \in B  PROVE \E i \in A : f[i] = j
      OBVIOUS
    <3>1. j \in 1 .. n /\ d[j] = x
      BY <2>1
    <3>2. PICK i \in 1 .. n : pi[i] = j
      BY Zenon, <3>1 DEF Onto
    <3>3. c[i] = x
      BY Zenon, <3>1, <3>2
    <3>4. i \in A
      BY <2>1, <3>3
    <3> QED
      BY <2>4, <3>2, <3>4
  <2>9. f \in Bijection(A, B)
    BY <2>6, <2>7, <2>8 DEF Bijection, Injection, Surjection, IsInjective
  <2>10. ExistsBijection(A, B)
    BY <2>9 DEF ExistsBijection
  <2>11. Cardinality(B) = Cardinality(A)
    BY <2>3, <2>10, FS_Bijection
  <2> QED
    BY <2>1, <2>11
<1> QED
  BY Zenon, <1>1, <1>2 DEF ToBag

(* A rewritten extension has the canonical form it had, unless it was an   *)
(* ECH extension cut before its suite.                                     *)
LEMMA CanonicalKept ==
    ASSUME NEW f, NEW e, IsExtension(f), Becomes(f, e), f[1] = "ech" => f[2].form # "short"
    PROVE  Canonical(e) = Canonical(f)
<1>1. e[1] = f[1]
  BY DEF Becomes
<1>2. CASE f[1] = "grease" \/ f[1] = "server_name"
  BY <1>1, <1>2 DEF Canonical
<1>3. CASE f[1] = "ech"
  <2>1. e[2].form = f[2].form /\ e[2].suite = f[2].suite
    BY <1>3 DEF Becomes, SameECH
  <2>2. Canonical(e) = <<e[1], IF e[2].form = "short" THEN <<>> ELSE <<e[2].form, e[2].suite>>>>
    BY <1>1, <1>3 DEF Canonical
  <2>3. Canonical(f) = <<f[1], IF f[2].form = "short" THEN <<>> ELSE <<f[2].form, f[2].suite>>>>
    BY <1>3 DEF Canonical
  <2> QED
    BY <1>1, <2>1, <2>2, <2>3
<1>4. CASE f[1] = "key_share"
  <2>1. PICK x, y : x = e[2].entries /\ y = f[2].entries
    OBVIOUS
  <2>2. IsSequence(x) /\ Len(x) = Len(y) /\ IsSequence(y)
    BY <1>4, <2>1 DEF Becomes, SameShares, IsExtension, IsSequence
  <2>3. DOMAIN x = DOMAIN y /\ DOMAIN y = 1 .. Len(y)
    BY <2>2, SequenceIs
  <2>4. \A k \in DOMAIN y : Sentinel(x[k].group) = Sentinel(y[k].group) /\ x[k].len = y[k].len
    <3>1. SameShares(e[2], f[2])
      BY Zenon, <1>4 DEF Becomes
    <3> QED
      BY Zenon, <2>1, <2>3, <3>1 DEF SameShares
  <2>5. Canonical(e) = <<e[1], [i \in DOMAIN x |-> <<Sentinel(x[i].group), x[i].len>>]>>
    BY <1>1, <1>4, <2>1 DEF Canonical
  <2>6. Canonical(f) = <<f[1], [i \in DOMAIN y |-> <<Sentinel(y[i].group), y[i].len>>]>>
    BY <1>4, <2>1 DEF Canonical
  <2>7. [i \in DOMAIN x |-> <<Sentinel(x[i].group), x[i].len>>]
            = [i \in DOMAIN y |-> <<Sentinel(y[i].group), y[i].len>>]
    BY Zenon, <2>3, <2>4
  <2> QED
    BY Zenon, <1>1, <2>5, <2>6, <2>7
<1>5. CASE f[1] = "supported_groups"
  <2>1. PICK x, y : x = e[2] /\ y = f[2]
    OBVIOUS
  <2>2. IsSequence(x) /\ Len(x) = Len(y) /\ IsSequence(y)
    BY <1>5, <2>1 DEF Becomes, SameGroups, IsExtension, IsSequence
  <2>3. DOMAIN x = DOMAIN y /\ DOMAIN y = 1 .. Len(y)
    BY <2>2, SequenceIs
  <2>4. \A k \in DOMAIN y : Sentinel(x[k]) = Sentinel(y[k])
    <3>1. SameGroups(x, y)
      BY Zenon, <1>5, <2>1 DEF Becomes
    <3> QED
      BY Zenon, <2>3, <3>1 DEF SameGroups
  <2>5. Canonical(e) = <<e[1], [i \in DOMAIN x |-> Sentinel(x[i])]>>
    BY <1>1, <1>5, <2>1 DEF Canonical
  <2>6. Canonical(f) = <<f[1], [i \in DOMAIN y |-> Sentinel(y[i])]>>
    BY <1>5, <2>1 DEF Canonical
  <2>7. [i \in DOMAIN x |-> Sentinel(x[i])] = [i \in DOMAIN y |-> Sentinel(y[i])]
    BY Zenon, <2>3, <2>4
  <2> QED
    BY Zenon, <1>1, <2>5, <2>6, <2>7
<1>6. CASE f[1] \notin Rewritten
  BY <1>6 DEF Becomes
<1> QED
  BY <1>2, <1>3, <1>4, <1>5, <1>6 DEF Rewritten

(* The entries of the key share are found where they were. *)
LEMMA SharesKept ==
    ASSUME NEW h, NEW g, SameShares(Find(h, "key_share"), Find(g, "key_share"))
    PROVE  /\ OurShare(h) = OurShare(g) /\ FirstShare(h) = FirstShare(g) /\ IsCut(h) = IsCut(g)
           /\ Len(Shares(h)) = Len(Shares(g))
<1>1. PICK x, y : x = Shares(h) /\ y = Shares(g)
  OBVIOUS
<1>2. /\ Len(x) = Len(y)
      /\ \A k \in 1 .. Len(y) : Sentinel(x[k].group) = Sentinel(y[k].group) /\ x[k].len = y[k].len
  BY Zenon, <1>1 DEF SameShares, Shares
<1>3. \A k \in 1 .. Len(y) : x[k].group = X25519 <=> y[k].group = X25519
  <2> SUFFICES ASSUME NEW k \in 1 .. Len(y)
               PROVE  x[k].group = X25519 <=> y[k].group = X25519
    OBVIOUS
  <2>1. PICK a, b : a = x[k].group /\ b = y[k].group
    OBVIOUS
  <2>2. Sentinel(a) = Sentinel(b)
    BY <1>2, <2>1
  <2>3. a = X25519 <=> b = X25519
    BY <2>2 DEF Sentinel, X25519
  <2> QED
    BY <2>1, <2>3
<1>4. {k \in 1 .. Len(x) : x[k].group = X25519 /\ x[k].len = 32}
        = {k \in 1 .. Len(y) : y[k].group = X25519 /\ y[k].len = 32}
  BY Zenon, <1>2, <1>3
<1>5. {k \in 1 .. Len(x) : x[k].group = X25519} = {k \in 1 .. Len(y) : y[k].group = X25519}
  BY Zenon, <1>2, <1>3
<1>6. OurShare(h) = OurShare(g)
  BY <1>1, <1>4 DEF OurShare, SelectInSeq
<1>7. FirstShare(h) = FirstShare(g)
  BY <1>1, <1>5 DEF FirstShare, SelectInSeq
<1>8. IsCut(h) = IsCut(g)
  BY Zenon DEF IsCut, SameShares
<1> QED
  BY Zenon, <1>1, <1>2, <1>6, <1>7, <1>8

-----------------------------------------------------------------------------
(* A hello on its way from the one drawn. *)
Emitting(h, g, pi) ==
    /\ IsHello(h) /\ h.suites = g.suites /\ Len(h.session) = Len(g.session)
    /\ Moved(h.exts, g.exts, pi)

(* What is known of a hello that a browser sends. *)
LEMMA ParsedIs ==
    ASSUME NEW g, IsBrowsers(g)
    PROVE  /\ IsHello(g) /\ g.session \in {<<>>, TappedValue, ZeroValue}
           /\ IsSequence(g.exts) /\ Once(g.exts) /\ OffersShares(g)
           /\ \A i \in DOMAIN g.exts : IsExtension(g.exts[i])
BY Zenon DEF IsBrowsers, IsParsed, IsSentOnce, IsGREASE, Once, IsSequence

(* The canonical form of a hello on its way is that of the hello drawn,    *)
(* but for a short ECH extension.                                          *)
LEMMA KeyKept ==
    ASSUME NEW h, NEW g, NEW pi, IsBrowsers(g), Emitting(h, g, pi)
    PROVE  canonicalForm(h) = canonicalForm(g) \/ (Has(g, "ech") /\ Find(g, "ech").form = "short")
<1> SUFFICES ASSUME ~(Has(g, "ech") /\ Find(g, "ech").form = "short")
             PROVE  canonicalForm(h) = canonicalForm(g)
  OBVIOUS
<1>1. PICK s, r, n : s = h.exts /\ r = g.exts /\ n = Len(r)
  OBVIOUS
<1>2. IsSequence(r) /\ Once(r) /\ \A i \in DOMAIN r : IsExtension(r[i])
  BY <1>1, ParsedIs
<1>3. Moved(s, r, pi)
  BY <1>1 DEF Emitting
<1>4. /\ n \in Nat /\ DOMAIN s = 1 .. n /\ DOMAIN r = 1 .. n
      /\ Within(pi, n) /\ OneToOne(pi, n) /\ Onto(pi, n) /\ Come(s, r, pi, n)
  BY <1>1, <1>2, <1>3, MovedIs
<1>5. \A j \in 1 .. n : r[j][1] = "ech" => r[j][2].form # "short"
  <2> SUFFICES ASSUME NEW j \in 1 .. n, r[j][1] = "ech"  PROVE r[j][2].form # "short"
    OBVIOUS
  <2>1. Has(g, "ech") /\ Pos(g, "ech") = j
    BY <1>1, <1>2, <1>4, PosOnce
  <2> QED
    BY <1>1, <2>1 DEF Find
<1>6. \A i \in 1 .. n : Canonical(s[i]) = Canonical(r[pi[i]])
  <2> SUFFICES ASSUME NEW i \in 1 .. n  PROVE Canonical(s[i]) = Canonical(r[pi[i]])
    OBVIOUS
  <2>1. PICK e, f : e = s[i] /\ f = r[pi[i]]
    OBVIOUS
  <2>2. pi[i] \in 1 .. n
    BY Zenon, <1>4 DEF Within
  <2>3. Becomes(f, e)
    BY Zenon, <1>4, <2>1 DEF Come
  <2>4. IsExtension(f) /\ (f[1] = "ech" => f[2].form # "short")
    BY Zenon, <1>2, <1>4, <1>5, <2>1, <2>2
  <2> QED
    BY <2>1, <2>3, <2>4, CanonicalKept
<1>7. PICK c, d : c = [i \in DOMAIN s |-> Canonical(s[i])] /\ d = [i \in DOMAIN r |-> Canonical(r[i])]
  OBVIOUS
<1>8. ToBag(c) = ToBag(d)
  <2>1. DOMAIN c = 1 .. n /\ DOMAIN d = 1 .. n
    BY <1>4, <1>7
  <2>2. \A i \in 1 .. n : c[i] = Canonical(s[i]) /\ d[i] = Canonical(r[i])
    BY <1>4, <1>7
  <2>3. \A i \in 1 .. n : c[i] = d[pi[i]]
    <3> SUFFICES ASSUME NEW i \in 1 .. n  PROVE c[i] = d[pi[i]]
      OBVIOUS
    <3>1. pi[i] \in 1 .. n
      BY Zenon, <1>4 DEF Within
    <3>2. d[pi[i]] = Canonical(r[pi[i]]) /\ c[i] = Canonical(s[i])
      BY Zenon, <2>2, <3>1
    <3> QED
      BY Zenon, <1>6, <3>2
  <2> QED
    BY <1>4, <2>1, <2>3, SameBag
<1>9. h.suites = g.suites /\ Len(h.session) = Len(g.session)
  BY DEF Emitting
<1> QED
  BY Zenon, <1>1, <1>7, <1>8, <1>9 DEF canonicalForm

(* An extension is found where one of its type was. *)
LEMMA SamePos ==
    ASSUME NEW h, NEW k, Len(k.exts) = Len(h.exts),
           \A i \in 1 .. Len(h.exts) : k.exts[i][1] = h.exts[i][1]
    PROVE  \A t : Pos(k, t) = Pos(h, t) /\ (Has(k, t) <=> Has(h, t))
<1> SUFFICES ASSUME NEW t  PROVE Pos(k, t) = Pos(h, t)
  BY Zenon DEF Has
<1>1. Places(k.exts, t) = Places(h.exts, t)
  BY Zenon DEF Places
<1> QED
  BY Zenon, <1>1, PosIs

(* What is left alone when an extension is replaced. *)
SameFields(k, h) == k.random = h.random /\ k.session = h.session /\ k.suites = h.suites
SameLayout(k, h) ==
    /\ IsSequence(k.exts) /\ Len(k.exts) = Len(h.exts) /\ DOMAIN k.exts = DOMAIN h.exts
    /\ \A i \in DOMAIN h.exts : k.exts[i][1] = h.exts[i][1]
    /\ \A u : Pos(k, u) = Pos(h, u) /\ (Has(k, u) <=> Has(h, u))
OnlyAt(k, h, t, d) ==
    /\ \A i \in DOMAIN h.exts : k.exts[i] = IF i = Pos(h, t) THEN <<t, d>> ELSE h.exts[i]
    /\ Find(k, t) = d
    /\ \A u : u # t /\ Has(h, u) => Find(k, u) = Find(h, u)

(* An extension is replaced. *)
LEMMA PutIs ==
    ASSUME NEW h, IsHello(h), IsSequence(h.exts), NEW t, Has(h, t), NEW d,
           NEW k, k = Put(h, t, d)
    PROVE  IsHello(k) /\ SameFields(k, h) /\ SameLayout(k, h) /\ OnlyAt(k, h, t, d)
<1>1. PICK p, s, r : p = Pos(h, t) /\ s = h.exts /\ r = [s EXCEPT ![p] = <<t, d>>]
  OBVIOUS
<1>2. k = [h EXCEPT !.exts = r]
  BY <1>1 DEF Put
<1>3. IsHello(k) /\ k.random = h.random /\ k.session = h.session /\ k.suites = h.suites /\ k.exts = r
  BY <1>2 DEF IsHello
<1>4. /\ IsSequence(r) /\ Len(r) = Len(s) /\ DOMAIN r = DOMAIN s
      /\ \A i \in DOMAIN s : r[i] = IF i = p THEN <<t, d>> ELSE s[i]
  <2>1. Replaces(r, s, p, <<t, d>>)
    BY <1>1, ReplacedOne
  <2> QED
    BY Zenon, <2>1 DEF Replaces
<1>5. p \in DOMAIN s /\ s[p][1] = t
  BY <1>1, HasIs
<1>6. \A i \in DOMAIN s : r[i][1] = s[i][1]
  BY <1>4, <1>5
<1>7. DOMAIN s = 1 .. Len(s)
  BY <1>1, SequenceIs
<1>8. \A u : Pos(k, u) = Pos(h, u) /\ (Has(k, u) <=> Has(h, u))
  <2>1. Len(k.exts) = Len(h.exts) /\ \A i \in 1 .. Len(h.exts) : k.exts[i][1] = h.exts[i][1]
    BY Zenon, <1>1, <1>3, <1>4, <1>6, <1>7
  <2> QED
    BY <2>1, SamePos
<1>9. Find(k, t) = d
  <2>1. Find(k, t) = r[p][2]
    BY Zenon, <1>1, <1>3, <1>8 DEF Find
  <2>2. r[p] = <<t, d>>
    BY <1>4, <1>5
  <2> QED
    BY <2>1, <2>2
<1>10. ASSUME NEW u, u # t, Has(h, u)  PROVE Find(k, u) = Find(h, u)
  <2>1. Pos(h, u) \in DOMAIN s /\ s[Pos(h, u)][1] = u
    BY <1>1, <1>10, HasIs
  <2>2. Pos(h, u) # p
    BY <1>5, <1>10, <2>1
  <2>3. r[Pos(h, u)] = s[Pos(h, u)]
    BY <1>4, <2>1, <2>2
  <2> QED
    BY Zenon, <1>1, <1>3, <1>8, <2>3 DEF Find
<1>a. \A i \in DOMAIN h.exts : k.exts[i] = IF i = Pos(h, t) THEN <<t, d>> ELSE h.exts[i]
  BY Zenon, <1>1, <1>3, <1>4
<1>b. \A i \in DOMAIN h.exts : k.exts[i][1] = h.exts[i][1]
  BY Zenon, <1>1, <1>3, <1>6
<1>c. IsSequence(k.exts) /\ Len(k.exts) = Len(h.exts) /\ DOMAIN k.exts = DOMAIN h.exts
  BY Zenon, <1>1, <1>3, <1>4
<1> QED
  BY Zenon, <1>3, <1>8, <1>9, <1>10, <1>a, <1>b, <1>c DEF SameFields, SameLayout, OnlyAt

(* An extension left alone. *)
LEMMA BecomesItself ==
    ASSUME NEW f, IsExtension(f)
    PROVE  Becomes(f, f)
<1>1. f[1] = "key_share" => SameShares(f[2], f[2])
  BY DEF IsExtension, SameShares, IsSequence
<1>2. f[1] = "supported_groups" => SameGroups(f[2], f[2])
  BY DEF IsExtension, SameGroups, IsSequence
<1>3. f[1] = "ech" => SameECH(f[2], f[2])
  BY DEF SameECH
<1> QED
  BY Zenon, <1>1, <1>2, <1>3 DEF Becomes

(* An extension rewritten twice. *)
LEMMA BecomesTwice ==
    ASSUME NEW f, NEW e, NEW d, Becomes(f, e), Becomes(e, d)
    PROVE  Becomes(f, d)
<1>1. e[1] = f[1] /\ d[1] = f[1]
  BY Zenon DEF Becomes
<1>2. ASSUME f[1] = "key_share"  PROVE SameShares(d[2], f[2])
  <2>1. PICK x, y, z : x = f[2] /\ y = e[2] /\ z = d[2]
    OBVIOUS
  <2>2. SameShares(y, x) /\ SameShares(z, y)
    BY Zenon, <1>1, <1>2, <2>1 DEF Becomes
  <2>3. SameShares(z, x)
    <3>1. z.cut = x.cut /\ IsSequence(z.entries) /\ Len(z.entries) = Len(x.entries) /\ Len(y.entries) = Len(x.entries)
      BY Zenon, <2>2 DEF SameShares
    <3>2. ASSUME NEW k \in 1 .. Len(x.entries)
          PROVE  /\ Sentinel(z.entries[k].group) = Sentinel(x.entries[k].group)
                 /\ z.entries[k].len = x.entries[k].len
      <4>1. k \in 1 .. Len(y.entries)
        BY Zenon, <3>1
      <4>2. /\ Sentinel(z.entries[k].group) = Sentinel(y.entries[k].group)
            /\ z.entries[k].len = y.entries[k].len
        BY Zenon, <2>2, <4>1 DEF SameShares
      <4>3. /\ Sentinel(y.entries[k].group) = Sentinel(x.entries[k].group)
            /\ y.entries[k].len = x.entries[k].len
        BY Zenon, <2>2 DEF SameShares
      <4> QED
        BY Zenon, <4>2, <4>3
    <3> QED
      BY Zenon, <3>1, <3>2 DEF SameShares
  <2> QED
    BY Zenon, <2>1, <2>3
<1>3. ASSUME f[1] = "supported_groups"  PROVE SameGroups(d[2], f[2])
  <2>1. PICK x, y, z : x = f[2] /\ y = e[2] /\ z = d[2]
    OBVIOUS
  <2>2. SameGroups(y, x) /\ SameGroups(z, y)
    BY Zenon, <1>1, <1>3, <2>1 DEF Becomes
  <2>3. SameGroups(z, x)
    <3>1. IsSequence(z) /\ Len(z) = Len(x) /\ Len(y) = Len(x)
      BY Zenon, <2>2 DEF SameGroups
    <3>2. ASSUME NEW k \in 1 .. Len(x)  PROVE Sentinel(z[k]) = Sentinel(x[k])
      <4>1. Sentinel(z[k]) = Sentinel(y[k])
        BY Zenon, <2>2, <3>1 DEF SameGroups
      <4>2. Sentinel(y[k]) = Sentinel(x[k])
        BY Zenon, <2>2 DEF SameGroups
      <4> QED
        BY Zenon, <4>1, <4>2
    <3> QED
      BY Zenon, <3>1, <3>2 DEF SameGroups
  <2> QED
    BY Zenon, <2>1, <2>3
<1>4. ASSUME f[1] = "ech"  PROVE SameECH(d[2], f[2])
  <2>1. SameECH(e[2], f[2]) /\ SameECH(d[2], e[2])
    BY Zenon, <1>1, <1>4 DEF Becomes
  <2> QED
    BY Zenon, <2>1 DEF SameECH
<1>5. f[1] \notin Rewritten => d = f
  BY Zenon, <1>1 DEF Becomes
<1> QED
  BY Zenon, <1>1, <1>2, <1>3, <1>4, <1>5 DEF Becomes

(* Every extension is where it was. *)
Id(n) == [i \in 1 .. n |-> i]

(* A rewrite that moves nothing. *)
LEMMA InPlace ==
    ASSUME NEW s, NEW r, IsSequence(s), IsSequence(r), Len(s) = Len(r),
           \A i \in DOMAIN r : Becomes(r[i], s[i])
    PROVE  Moved(s, r, Id(Len(r)))
<1>1. PICK n, pi : n = Len(r) /\ pi = Id(n)
  OBVIOUS
<1>2. n \in Nat /\ DOMAIN r = 1 .. n
  BY <1>1, SequenceIs
<1>3. \A i \in 1 .. n : pi[i] = i
  BY <1>1 DEF Id
<1>4. Within(pi, n) /\ OneToOne(pi, n) /\ Onto(pi, n)
  BY Zenon, <1>3 DEF Within, OneToOne, Onto
<1>5. Come(s, r, pi, n)
  BY Zenon, <1>2, <1>3 DEF Come
<1> QED
  BY Zenon, <1>1, <1>4, <1>5 DEF Moved

-----------------------------------------------------------------------------
(* SetSNI *)

(* The hello names one host, and no other. *)
Named(h, host) == \A i \in DOMAIN h.exts : h.exts[i][1] = "server_name" => h.exts[i][2] = host

(* SetSNI puts our host where the browser's was and changes nothing else. *)
LEMMA AfterSetSNI ==
    ASSUME NEW g, IsBrowsers(g), Has(g, "server_name"), NEW host, NEW h, h = SetSNI(g, host)
    PROVE  /\ Emitting(h, g, Id(Len(g.exts))) /\ Named(h, host)
           /\ IsSequence(h.exts) /\ Once(h.exts) /\ h.session = g.session
           /\ \A i \in DOMAIN h.exts : IsExtension(h.exts[i])
<1>1. /\ IsHello(g) /\ IsSequence(g.exts) /\ Once(g.exts)
      /\ \A i \in DOMAIN g.exts : IsExtension(g.exts[i])
  BY ParsedIs
<1>2. PICK p, s, r : p = Pos(g, "server_name") /\ s = h.exts /\ r = g.exts
  OBVIOUS
<1>3. h = Put(g, "server_name", host)
  BY DEF SetSNI
<1>4. /\ IsHello(h) /\ h.session = g.session /\ h.suites = g.suites
      /\ IsSequence(s) /\ Len(s) = Len(r) /\ DOMAIN s = DOMAIN r
      /\ \A i \in DOMAIN r : s[i] = IF i = p THEN <<"server_name", host>> ELSE r[i]
      /\ \A i \in DOMAIN r : s[i][1] = r[i][1]
  <2>1. IsHello(h) /\ SameFields(h, g) /\ SameLayout(h, g) /\ OnlyAt(h, g, "server_name", host)
    BY <1>1, <1>3, PutIs
  <2>2. h.session = g.session /\ h.suites = g.suites
    BY Zenon, <2>1 DEF SameFields
  <2>3. /\ IsSequence(s) /\ Len(s) = Len(r) /\ DOMAIN s = DOMAIN r
        /\ \A i \in DOMAIN r : s[i][1] = r[i][1]
    BY Zenon, <1>2, <2>1 DEF SameLayout
  <2>4. \A i \in DOMAIN r : s[i] = IF i = p THEN <<"server_name", host>> ELSE r[i]
    BY Zenon, <1>2, <2>1 DEF OnlyAt
  <2> QED
    BY Zenon, <2>1, <2>2, <2>3, <2>4
<1>5. p \in DOMAIN r /\ r[p][1] = "server_name"
  BY <1>1, <1>2, HasIs
<1>6. \A i \in DOMAIN r : Becomes(r[i], s[i])
  <2> SUFFICES ASSUME NEW i \in DOMAIN r  PROVE Becomes(r[i], s[i])
    OBVIOUS
  <2>1. CASE i = p
    BY <1>4, <1>5, <2>1 DEF Becomes, Rewritten
  <2>2. CASE i # p
    <3>1. s[i] = r[i] /\ IsExtension(r[i])
      BY Zenon, <1>1, <1>2, <1>4, <2>2
    <3> QED
      BY <3>1, BecomesItself
  <2> QED
    BY <2>1, <2>2
<1>7. Moved(s, r, Id(Len(r)))
  BY <1>1, <1>2, <1>4, <1>6, InPlace
<1>8. Once(s)
  BY Zenon, <1>1, <1>2, <1>7, MovedOnce
<1>9. Named(h, host)
  <2> SUFFICES ASSUME NEW i \in DOMAIN r, s[i][1] = "server_name"  PROVE s[i][2] = host
    BY Zenon, <1>2, <1>4 DEF Named
  <2>1. r[i][1] = "server_name"
    BY Zenon, <1>4
  <2>2. i = p
    BY <1>1, <1>2, <1>5, <2>1 DEF Once
  <2> QED
    BY <1>4, <2>2
<1>10. \A i \in DOMAIN s : IsExtension(s[i])
  <2> SUFFICES ASSUME NEW i \in DOMAIN s  PROVE IsExtension(s[i])
    OBVIOUS
  <2>1. CASE i = p
    BY <1>4, <2>1 DEF IsExtension
  <2>2. CASE i # p
    BY Zenon, <1>1, <1>2, <1>4, <2>2
  <2> QED
    BY <2>1, <2>2
<1>11. Emitting(h, g, Id(Len(r)))
  BY Zenon, <1>2, <1>4, <1>7 DEF Emitting
<1> QED
  BY Zenon, <1>2, <1>4, <1>8, <1>9, <1>10, <1>11

-----------------------------------------------------------------------------
(* Rerandomize *)

(* The key shares hold keys drawn here, and one GREASE group. *)
FreshShares(x, group, keys) ==
    /\ DOMAIN x = {"cut", "entries"} /\ IsSequence(x.entries)
    /\ \A k \in 1 .. Len(x.entries) :
          /\ DOMAIN x.entries[k] = {"group", "len", "key"}
          /\ x.entries[k].key \in keys
          /\ x.entries[k].group[1] = "grease" => x.entries[k].group = <<"grease", group>>

(* The groups name the same GREASE group. *)
FreshGroups(x, group) ==
    IsSequence(x) /\ \A k \in 1 .. Len(x) : x[k][1] = "grease" => x[k] = <<"grease", group>>

(* The outer ECH payload is drawn here, of a length that Chrome uses. *)
FreshPayload(x) ==
    x.form = "inner" \/ (/\ DOMAIN x = {"form", "suite", "payload", "len"}
                         /\ x.payload = FreshValue /\ x.len \in echGREASELengths)

(* What Rerandomize rewrites in an extension is drawn here. *)
FreshExt(e, group, keys) ==
    /\ e[1] = "key_share" => FreshShares(e[2], group, keys)
    /\ e[1] = "supported_groups" => FreshGroups(e[2], group)
    /\ e[1] = "ech" => FreshPayload(e[2])

(* ... and so in all of them. *)
Drawn(s, group, keys) == \A i \in DOMAIN s : FreshExt(s[i], group, keys)

(* e is f with its random parts drawn again. *)
Redraws(f, e, group) ==
    /\ Becomes(f, e) /\ FreshExt(e, group, {FreshValue, ZeroValue})
    /\ f[1] = "server_name" => e = f

(* One extension of Rerandomize. *)
LEMMA RedrawnIs ==
    ASSUME NEW h, IsSequence(h.exts), Once(h.exts), NEW d, d \in Draws(h),
           NEW i, i \in DOMAIN h.exts, IsExtension(h.exts[i])
    PROVE  Redraws(h.exts[i], Redrawn(h, d, i), d.group)
<1> SUFFICES ASSUME NEW f, f = h.exts[i], NEW e, e = Redrawn(h, d, i)
             PROVE  /\ Becomes(f, e) /\ FreshExt(e, d.group, {FreshValue, ZeroValue})
                    /\ f[1] = "server_name" => e = f
  BY Zenon DEF Redraws
<1>0. IsExtension(f)
  OBVIOUS
<1>1. f[1] # "grease" => i = Pos(h, f[1])
  BY PosOnce
<1>2. CASE f[1] = "grease"
  <2>1. e[1] = "grease"
    BY <1>2 DEF Redrawn, IsGREASE, GreaseExt
  <2> QED
    BY <1>2, <2>1 DEF Becomes, FreshExt, Rewritten
<1>3. CASE f[1] = "supported_groups"
  <2>1. PICK y, x : y = f[2] /\ x = [j \in DOMAIN y |-> Group(y[j], d)]
    OBVIOUS
  <2>2. e = <<"supported_groups", x>>
    BY <1>1, <1>3, <2>1 DEF Redrawn, IsGREASE
  <2>3. IsSequence(y)
    BY <1>0, <1>3, <2>1 DEF IsExtension, IsSequence
  <2>4. Len(y) \in Nat /\ DOMAIN y = 1 .. Len(y)
    BY <2>3, SequenceIs
  <2>5. IsSequence(x) /\ Len(x) = Len(y)
    <3>1. x = [j \in 1 .. Len(y) |-> x[j]]
      BY <2>1, <2>4
    <3> QED
      BY <2>4, <3>1, SequenceOf
  <2>6. \A k \in 1 .. Len(y) : x[k] = Group(y[k], d)
    BY <2>1, <2>4
  <2>7. \A a : /\ Sentinel(Group(a, d)) = Sentinel(a)
               /\ Group(a, d)[1] = "grease" => Group(a, d) = <<"grease", d.group>>
    BY DEF Group, Sentinel
  <2>8. SameGroups(x, y) /\ FreshGroups(x, d.group)
    BY Zenon, <2>5, <2>6, <2>7 DEF SameGroups, FreshGroups
  <2> QED
    BY <1>3, <2>1, <2>2, <2>8 DEF Becomes, FreshExt, Rewritten
<1>4. CASE f[1] = "key_share"
  <2>1. PICK z, y, x : z = f[2] /\ y = z.entries /\ x = [j \in DOMAIN y |-> Fresh(y[j], d)]
    OBVIOUS
  <2>2. PICK w : w = [z EXCEPT !.entries = x]
    OBVIOUS
  <2>3. e = <<"key_share", w>>
    BY <1>1, <1>4, <2>1, <2>2 DEF Redrawn, IsGREASE
  <2>4. DOMAIN z = {"cut", "entries"} /\ IsSequence(y)
    BY <1>0, <1>4, <2>1 DEF IsExtension, IsSequence
  <2>5. DOMAIN w = {"cut", "entries"} /\ w.cut = z.cut /\ w.entries = x
    BY <2>2, <2>4
  <2>6. Len(y) \in Nat /\ DOMAIN y = 1 .. Len(y)
    BY <2>4, SequenceIs
  <2>7. IsSequence(x) /\ Len(x) = Len(y)
    <3>1. x = [j \in 1 .. Len(y) |-> x[j]]
      BY <2>1, <2>6
    <3> QED
      BY <2>6, <3>1, SequenceOf
  <2>8. \A k \in 1 .. Len(y) : x[k] = Fresh(y[k], d)
    BY <2>1, <2>6
  <2>9. \A a : /\ DOMAIN Fresh(a, d) = {"group", "len", "key"}
               /\ Fresh(a, d).group = Group(a.group, d) /\ Fresh(a, d).len = a.len
               /\ Fresh(a, d).key \in {FreshValue, ZeroValue}
    BY DEF Fresh, Share
  <2>10. \A a : /\ Sentinel(Group(a, d)) = Sentinel(a)
                /\ Group(a, d)[1] = "grease" => Group(a, d) = <<"grease", d.group>>
    BY DEF Group, Sentinel
  <2>11. SameShares(w, z)
    <3>1. ASSUME NEW k \in 1 .. Len(y)
          PROVE  Sentinel(x[k].group) = Sentinel(y[k].group) /\ x[k].len = y[k].len
      <4>1. x[k] = Fresh(y[k], d)
        BY Zenon, <2>8
      <4>2. PICK b, a, l : b = x[k] /\ a = y[k].group /\ l = y[k].len
        OBVIOUS
      <4>3. b.group = Group(a, d) /\ b.len = l
        BY Zenon, <2>9, <4>1, <4>2
      <4>4. Sentinel(b.group) = Sentinel(a)
        BY Zenon, <2>10, <4>3
      <4> QED
        BY Zenon, <4>2, <4>3, <4>4
    <3>2. y = z.entries /\ x = w.entries /\ w.cut = z.cut
      BY Zenon, <2>1, <2>5
    <3>3. ASSUME NEW k \in 1 .. Len(z.entries)
          PROVE  /\ Sentinel(w.entries[k].group) = Sentinel(z.entries[k].group)
                 /\ w.entries[k].len = z.entries[k].len
      BY Zenon, <3>1, <3>2
    <3>4. IsSequence(w.entries) /\ Len(w.entries) = Len(z.entries)
      BY Zenon, <2>7, <3>2
    <3> QED
      BY Zenon, <3>2, <3>3, <3>4 DEF SameShares
  <2>12. FreshShares(w, d.group, {FreshValue, ZeroValue})
    <3>1. ASSUME NEW k \in 1 .. Len(x)
          PROVE  /\ DOMAIN x[k] = {"group", "len", "key"}
                 /\ x[k].key \in {FreshValue, ZeroValue}
                 /\ x[k].group[1] = "grease" => x[k].group = <<"grease", d.group>>
      <4>1. x[k] = Fresh(y[k], d)
        BY Zenon, <2>7, <2>8
      <4>2. PICK b, a : b = x[k] /\ a = y[k].group
        OBVIOUS
      <4>3. /\ DOMAIN b = {"group", "len", "key"} /\ b.group = Group(a, d)
            /\ b.key \in {FreshValue, ZeroValue}
        BY Zenon, <2>9, <4>1, <4>2
      <4>4. b.group[1] = "grease" => b.group = <<"grease", d.group>>
        BY Zenon, <2>10, <4>3
      <4> QED
        BY Zenon, <4>2, <4>3, <4>4
    <3> QED
      BY Zenon, <2>5, <2>7, <3>1 DEF FreshShares
  <2> QED
    BY <1>4, <2>1, <2>3, <2>11, <2>12 DEF Becomes, FreshExt, Rewritten
<1>5. CASE f[1] = "ech"
  <2>1. PICK x, y : y = f[2] /\ x = FreshECH(y, d)
    OBVIOUS
  <2>2. e = <<"ech", x>>
    BY <1>1, <1>5, <2>1 DEF Redrawn, IsGREASE
  <2>3. y.form \in {"outer", "inner", "short"}
    BY <1>0, <1>5, <2>1 DEF IsExtension
  <2>4. d.bucket \in echGREASELengths
    BY DEF Draws, DrawsAliased
  <2>5. SameECH(x, y) /\ FreshPayload(x)
    BY <2>1, <2>3, <2>4 DEF SameECH, FreshPayload, FreshECH
  <2> QED
    BY <1>5, <2>1, <2>2, <2>5 DEF Becomes, FreshExt, Rewritten
<1>6. CASE f[1] \notin {"grease", "supported_groups", "key_share", "ech"}
  <2>1. e = f
    BY <1>6 DEF Redrawn, IsGREASE
  <2> QED
    BY <1>6, <2>1 DEF Becomes, FreshExt
<1> QED
  BY <1>2, <1>3, <1>4, <1>5, <1>6

(* The two ends of a hello that Shuffle takes have two codepoints. *)
EndsDiffer(h) == CanShuffle(h) => h.exts[1] # h.exts[Ended(h)]

(* Rerandomize gives the two GREASE ends different codepoints. *)
LEMMA EndsRedrawn ==
    ASSUME NEW h, IsSequence(h.exts), NEW d \in Draws(h), NEW k, IsSequence(k.exts),
           Len(k.exts) = Len(h.exts),
           \A i \in DOMAIN h.exts : k.exts[i] = Redrawn(h, d, i) /\ k.exts[i][1] = h.exts[i][1]
    PROVE  EndsDiffer(k)
<1> SUFFICES ASSUME CanShuffle(k)  PROVE k.exts[1] # k.exts[Ended(k)]
  BY DEF EndsDiffer
<1>1. PICK s, r, n, p : s = k.exts /\ r = h.exts /\ n = Len(s) /\ p = Ended(k)
  OBVIOUS
<1>2. n \in Nat /\ DOMAIN s = 1 .. n /\ DOMAIN r = 1 .. n
  BY <1>1, SequenceIs
<1>3. n >= 3 /\ p = n + 1 - Pinned(k) /\ Pinned(k) \in {1, 2}
  BY <1>1 DEF CanShuffle, Ended, Pinned
<1>4. p \in 1 .. n /\ 1 \in 1 .. n /\ n \in 1 .. n /\ 1 < p /\ (Pinned(k) = 1 => p = n) /\ (Pinned(k) = 2 => p = n - 1)
  BY <1>2, <1>3
<1>5. s[p][1] = "grease"
  BY <1>1, <1>3 DEF CanShuffle, IsGREASE
<1>6. s[1][1] = "grease"
  <2>1. Head(k.exts)[1] = "grease"
    BY DEF CanShuffle, IsGREASE
  <2>2. Head(k.exts) = k.exts[1]
    BY <1>1, <1>3 DEF IsSequence
  <2> QED
    BY <1>1, <2>1, <2>2
<1>7. Pinned(k) = 2 => s[n][1] = "pre_shared_key"
  BY <1>1 DEF Pinned, Last
<1>8. \A i \in 1 .. n : s[i] = Redrawn(h, d, i) /\ s[i][1] = r[i][1]
  BY Zenon, <1>1, <1>2
<1>9. PICK G : G = Greased(h)
  OBVIOUS
<1>10. G = {i \in 1 .. n : r[i][1] = "grease"}
  BY Zenon, <1>1, <1>2, <1>9 DEF Greased, IsGREASE
<1>11. 1 \in G /\ p \in G
  BY <1>4, <1>5, <1>6, <1>8, <1>10
<1>12. \A j \in G : ~(j < 1)
  BY <1>10
<1>13. \A j \in G : ~(j > p)
  <2> SUFFICES ASSUME NEW j \in G, j > p  PROVE FALSE
    OBVIOUS
  <2>1. j \in 1 .. n /\ r[j][1] = "grease"
    BY <1>10
  <2>2. p = n - 1 /\ Pinned(k) = 2
    BY <1>2, <1>3, <1>4, <2>1
  <2>3. j = n
    BY <1>2, <2>1, <2>2
  <2> QED
    BY <1>4, <1>7, <1>8, <2>1, <2>2, <2>3
<1>14. 1 \notin Between(h) /\ p \notin Between(h)
  BY <1>9, <1>12, <1>13 DEF Between
<1>15. GreaseExt(h, d, 1) = <<"grease", d.first>>
  BY <1>9, <1>12, <1>14 DEF GreaseExt
<1>16. GreaseExt(h, d, p) = <<"grease", d.last>>
  BY <1>4, <1>9, <1>11, <1>14 DEF GreaseExt
<1>17. \A i \in G : Redrawn(h, d, i) = GreaseExt(h, d, i)
  BY <1>1, <1>10 DEF Redrawn, IsGREASE
<1>18. s[1] = <<"grease", d.first>> /\ s[p] = <<"grease", d.last>>
  BY Zenon, <1>4, <1>8, <1>11, <1>15, <1>16, <1>17
<1>19. d.first # d.last
  BY DEF Draws
<1> QED
  BY <1>1, <1>18, <1>19

(* A hello whose fields were drawn anew. *)
Rewrote(h, g, pi, host, group, keys) ==
    /\ Emitting(h, g, pi) /\ Named(h, host) /\ Drawn(h.exts, group, keys)
    /\ h.random = FreshValue /\ h.session \in {<<>>, FreshValue}
    /\ EndsDiffer(h)

(* What Rerandomize makes of the hello with our host. *)
LEMMA AfterRerandomize ==
    ASSUME NEW g, IsBrowsers(g), Has(g, "server_name"), NEW host, NEW h, h = SetSNI(g, host),
           NEW d \in Draws(h), NEW k, k = Rerandomize(h, d)
    PROVE  Rewrote(k, g, Id(Len(g.exts)), host, d.group, {FreshValue, ZeroValue})
<1>1. /\ IsSequence(g.exts) /\ Once(g.exts) /\ g.session \in {<<>>, TappedValue, ZeroValue}
      /\ \A i \in DOMAIN g.exts : IsExtension(g.exts[i])
  BY ParsedIs
<1>2. /\ Emitting(h, g, Id(Len(g.exts))) /\ Named(h, host)
      /\ IsSequence(h.exts) /\ Once(h.exts) /\ h.session = g.session
      /\ \A i \in DOMAIN h.exts : IsExtension(h.exts[i])
  BY AfterSetSNI
<1>3. PICK q, s, r, n : q = g.exts /\ r = h.exts /\ s = k.exts /\ n = Len(q)
  OBVIOUS
<1>4. IsHello(h) /\ h.suites = g.suites /\ Moved(r, q, Id(n))
  BY Zenon, <1>2, <1>3 DEF Emitting
<1>5. /\ n \in Nat /\ Len(r) = n /\ DOMAIN q = 1 .. n /\ DOMAIN r = 1 .. n
      /\ \A i \in 1 .. n : Becomes(q[i], r[i])
  <2>1. /\ n \in Nat /\ DOMAIN q = 1 .. n /\ DOMAIN r = 1 .. n /\ Come(r, q, Id(n), n)
    BY <1>1, <1>3, <1>4, MovedIs
  <2>2. \A i \in 1 .. n : Id(n)[i] = i
    BY DEF Id
  <2>3. Len(r) = n
    BY Zenon, <1>3, <1>4 DEF Moved
  <2> QED
    BY Zenon, <2>1, <2>2, <2>3 DEF Come
<1>6. PICK x : x = IF h.session = <<>> THEN <<>> ELSE FreshValue
  OBVIOUS
<1>7. PICK y : y = [i \in DOMAIN r |-> Redrawn(h, d, i)]
  OBVIOUS
<1>8. k = [h EXCEPT !.random = FreshValue, !.session = x, !.exts = y]
  BY <1>3, <1>6, <1>7 DEF Rerandomize
<1>9. IsHello(k) /\ k.random = FreshValue /\ k.session = x /\ k.suites = h.suites /\ s = y
  BY <1>3, <1>4, <1>8 DEF IsHello
<1>10. x \in {<<>>, FreshValue} /\ Len(x) = Len(g.session)
  <2>1. Len(<<>>) = 0 /\ Len(FreshValue) = 1 /\ Len(TappedValue) = 1 /\ Len(ZeroValue) = 1
    BY DEF FreshValue, TappedValue, ZeroValue
  <2>2. TappedValue # <<>> /\ ZeroValue # <<>>
    BY DEF TappedValue, ZeroValue
  <2> QED
    BY <1>1, <1>2, <1>6, <2>1, <2>2
<1>11. IsSequence(s) /\ Len(s) = n /\ DOMAIN s = 1 .. n
  <2>1. s = [i \in 1 .. n |-> s[i]]
    BY <1>5, <1>7, <1>9
  <2> QED
    BY <1>5, <2>1, SequenceOf
<1>12. \A i \in 1 .. n : s[i] = Redrawn(h, d, i)
  BY <1>5, <1>7, <1>9
<1>13. ASSUME NEW i \in 1 .. n
       PROVE  /\ Becomes(r[i], s[i]) /\ FreshExt(s[i], d.group, {FreshValue, ZeroValue})
              /\ r[i][1] = "server_name" => s[i] = r[i]
  <2>1. i \in DOMAIN h.exts /\ IsExtension(r[i]) /\ r[i] = h.exts[i] /\ s[i] = Redrawn(h, d, i)
    BY Zenon, <1>2, <1>3, <1>5, <1>12
  <2>2. Redraws(h.exts[i], Redrawn(h, d, i), d.group)
    BY <1>2, <1>3, <2>1, RedrawnIs
  <2> QED
    BY Zenon, <2>1, <2>2 DEF Redraws
<1>14. \A i \in 1 .. n : s[i][1] = r[i][1]
  BY Zenon, <1>13 DEF Becomes
<1>15. EndsDiffer(k)
  <2>1. /\ IsSequence(k.exts) /\ Len(k.exts) = Len(h.exts)
        /\ \A i \in DOMAIN h.exts : k.exts[i] = Redrawn(h, d, i) /\ k.exts[i][1] = h.exts[i][1]
    BY Zenon, <1>3, <1>5, <1>11, <1>12, <1>14
  <2> QED
    BY <1>2, <2>1, EndsRedrawn
<1>16. Moved(s, q, Id(n))
  <2>1. \A i \in DOMAIN q : Becomes(q[i], s[i])
    BY <1>5, <1>13, BecomesTwice
  <2> QED
    BY <1>1, <1>3, <1>11, <2>1, InPlace
<1>17. Named(k, host)
  <2> SUFFICES ASSUME NEW i \in 1 .. n, s[i][1] = "server_name"  PROVE s[i][2] = host
    BY Zenon, <1>3, <1>11 DEF Named
  <2>1. r[i][1] = "server_name" /\ s[i] = r[i]
    BY Zenon, <1>13, <1>14
  <2> QED
    BY <1>2, <1>3, <1>5, <2>1 DEF Named
<1>18. Drawn(s, d.group, {FreshValue, ZeroValue})
  BY Zenon, <1>11, <1>13 DEF Drawn
<1>19. Emitting(k, g, Id(n))
  <2>1. IsHello(k) /\ k.suites = g.suites /\ Len(k.session) = Len(g.session) /\ Moved(k.exts, g.exts, Id(n))
    BY Zenon, <1>3, <1>4, <1>9, <1>10, <1>16
  <2> QED
    BY <2>1 DEF Emitting
<1> QED
  BY Zenon, <1>3, <1>9, <1>10, <1>15, <1>17, <1>18, <1>19 DEF Rewrote

-----------------------------------------------------------------------------
(* Shuffle *)

(* The first and the last two extensions are what Shuffle looks at. *)
LEMMA CanShuffleIs ==
    ASSUME NEW h, IsSequence(h.exts), NEW n, n = Len(h.exts), CanShuffle(h)
    PROVE  /\ n \in Nat /\ n >= 3 /\ Pinned(h) \in {1, 2} /\ Ended(h) = n + 1 - Pinned(h)
           /\ h.exts[1][1] = "grease" /\ h.exts[Ended(h)][1] = "grease"
           /\ Pinned(h) = 2 <=> h.exts[n][1] = "pre_shared_key"
<1>1. n \in Nat /\ n >= 3
  BY SequenceIs DEF CanShuffle
<1>2. Head(h.exts) = h.exts[1]
  BY <1>1 DEF IsSequence
<1> QED
  BY <1>1, <1>2 DEF CanShuffle, IsGREASE, Ended, Pinned, Last

(* A hello with the same ends can be shuffled like the other. *)
LEMMA SameEnds ==
    ASSUME NEW h, NEW k, IsSequence(h.exts), IsSequence(k.exts), Len(k.exts) = Len(h.exts),
           CanShuffle(h), k.exts[1] = h.exts[1], k.exts[Ended(h)] = h.exts[Ended(h)],
           k.exts[Len(h.exts)][1] = h.exts[Len(h.exts)][1]
    PROVE  CanShuffle(k) /\ Ended(k) = Ended(h) /\ Pinned(k) = Pinned(h)
<1>1. PICK n : n = Len(h.exts)
  OBVIOUS
<1>2. /\ n \in Nat /\ n >= 3 /\ Ended(h) = n + 1 - Pinned(h)
      /\ h.exts[1][1] = "grease" /\ h.exts[Ended(h)][1] = "grease"
  BY <1>1, CanShuffleIs
<1>3. Pinned(k) = Pinned(h)
  BY <1>1 DEF Pinned, Last
<1>4. Ended(k) = Ended(h)
  BY <1>3 DEF Ended
<1>5. Head(k.exts) = k.exts[1]
  BY <1>1, <1>2 DEF IsSequence
<1>6. IsGREASE(Head(k.exts)) /\ IsGREASE(k.exts[Ended(k)])
  BY <1>2, <1>4, <1>5 DEF IsGREASE
<1>7. CanShuffle(k)
  BY <1>1, <1>2, <1>6 DEF CanShuffle, Ended
<1> QED
  BY <1>3, <1>4, <1>7

(* Shuffle moves the extensions between the ends and rewrites none. *)
LEMMA AfterShuffle ==
    ASSUME NEW g, IsBrowsers(g), NEW h, NEW host, NEW group, NEW keys,
           Rewrote(h, g, Id(Len(g.exts)), host, group, keys), CanShuffle(h),
           NEW perm, perm \in Bijection(Interior(h), Interior(h)), NEW k, k = Shuffle(h, perm)
    PROVE  CanShuffle(k) /\ \E pi : Rewrote(k, g, pi, host, group, keys)
<1>1. PICK q, r, s, n, I : q = g.exts /\ r = h.exts /\ s = k.exts /\ n = Len(q) /\ I = Interior(h)
  OBVIOUS
<1>2. IsSequence(q) /\ Emitting(h, g, Id(n))
  BY Zenon, <1>1, ParsedIs DEF Rewrote
<1>3. IsHello(h) /\ Moved(r, q, Id(n)) /\ Len(r) = n
  BY Zenon, <1>1, <1>2 DEF Emitting, Moved
<1>4. /\ n \in Nat /\ DOMAIN q = 1 .. n /\ DOMAIN r = 1 .. n /\ IsSequence(r)
      /\ Come(r, q, Id(n), n)
  BY <1>1, <1>2, <1>3, MovedIs
<1>5. \A i \in 1 .. n : Becomes(q[i], r[i])
  <2>1. \A i \in 1 .. n : Id(n)[i] = i
    BY DEF Id
  <2> QED
    BY Zenon, <1>4, <2>1 DEF Come
<1>6. /\ n >= 3 /\ Pinned(h) \in {1, 2} /\ Ended(h) = n + 1 - Pinned(h)
  BY <1>1, <1>3, <1>4, CanShuffleIs
<1>7. /\ I = 2 .. n - Pinned(h) /\ I \subseteq 1 .. n
      /\ 1 \notin I /\ n \notin I /\ Ended(h) \notin I
      /\ 1 \in 1 .. n /\ n \in 1 .. n /\ Ended(h) \in 1 .. n
  BY <1>1, <1>3, <1>4, <1>6 DEF Interior
<1>8. /\ \A i \in I : perm[i] \in I
      /\ \A i, j \in I : perm[i] = perm[j] => i = j
      /\ \A j \in I : \E i \in I : perm[i] = j
  BY <1>1 DEF Bijection, Injection, Surjection, IsInjective
<1>9. PICK pi : pi = [i \in 1 .. n |-> IF i \in I THEN perm[i] ELSE i]
  OBVIOUS
<1>10. \A i \in 1 .. n : pi[i] = IF i \in I THEN perm[i] ELSE i
  BY <1>9
<1>11. Within(pi, n)
  BY Zenon, <1>7, <1>8, <1>10 DEF Within
<1>12. OneToOne(pi, n)
  <2> SUFFICES ASSUME NEW i \in 1 .. n, NEW j \in 1 .. n, pi[i] = pi[j]  PROVE i = j
    BY Zenon DEF OneToOne
  <2> QED
    BY <1>8, <1>10
<1>13. Onto(pi, n)
  <2> SUFFICES ASSUME NEW j \in 1 .. n  PROVE \E i \in 1 .. n : pi[i] = j
    BY Zenon DEF Onto
  <2>1. CASE j \in I
    <3>1. PICK i \in I : perm[i] = j
      BY <1>8, <2>1
    <3> QED
      BY <1>7, <1>10, <3>1
  <2>2. CASE j \notin I
    BY <1>10, <2>2
  <2> QED
    BY <2>1, <2>2
<1>14. PICK y : y = [i \in DOMAIN r |-> IF i \in I THEN r[perm[i]] ELSE r[i]]
  OBVIOUS
<1>15. k = [h EXCEPT !.exts = y]
  BY <1>1, <1>14 DEF Shuffle
<1>16. /\ IsHello(k) /\ k.random = h.random /\ k.session = h.session /\ k.suites = h.suites
       /\ s = y
  BY <1>1, <1>3, <1>15 DEF IsHello
<1>17. IsSequence(s) /\ Len(s) = n /\ DOMAIN s = 1 .. n
  <2>1. s = [i \in 1 .. n |-> s[i]]
    BY <1>4, <1>14, <1>16
  <2> QED
    BY <1>4, <2>1, SequenceOf
<1>18. \A i \in 1 .. n : s[i] = r[pi[i]] /\ pi[i] \in 1 .. n
  <2>1. \A i \in 1 .. n : s[i] = r[pi[i]]
    BY <1>4, <1>10, <1>14, <1>16
  <2> QED
    BY Zenon, <1>11, <2>1 DEF Within
<1>19. s[1] = r[1] /\ s[n] = r[n] /\ s[Ended(h)] = r[Ended(h)]
  <2>1. \A i \in 1 .. n : i \notin I => pi[i] = i
    BY <1>10
  <2>2. \A i \in 1 .. n : i \notin I => s[i] = r[i]
    BY Zenon, <1>18, <2>1
  <2> QED
    BY Zenon, <1>7, <2>2
<1>20. CanShuffle(k) /\ Ended(k) = Ended(h)
  <2>1. /\ IsSequence(h.exts) /\ IsSequence(k.exts) /\ Len(k.exts) = Len(h.exts)
        /\ k.exts[1] = h.exts[1] /\ k.exts[Ended(h)] = h.exts[Ended(h)]
        /\ k.exts[Len(h.exts)][1] = h.exts[Len(h.exts)][1]
    BY Zenon, <1>1, <1>3, <1>4, <1>17, <1>19
  <2> QED
    BY <2>1, SameEnds
<1>21. EndsDiffer(k)
  <2>1. r[1] # r[Ended(h)]
    BY <1>1 DEF Rewrote, EndsDiffer
  <2> QED
    BY Zenon, <1>1, <1>19, <1>20, <2>1 DEF EndsDiffer
<1>22. Emitting(k, g, pi)
  <2>1. Come(s, q, pi, n)
    BY Zenon, <1>5, <1>18 DEF Come
  <2>2. Moved(s, q, pi)
    BY Zenon, <1>1, <1>11, <1>12, <1>13, <1>17, <2>1 DEF Moved
  <2>3. k.suites = g.suites /\ Len(k.session) = Len(g.session)
    BY Zenon, <1>2, <1>16 DEF Emitting
  <2> QED
    BY Zenon, <1>1, <1>16, <2>2, <2>3 DEF Emitting
<1>23. Named(k, host)
  <2>1. \A i \in 1 .. n : r[i][1] = "server_name" => r[i][2] = host
    BY Zenon, <1>1, <1>4 DEF Rewrote, Named
  <2>2. \A i \in 1 .. n : s[i][1] = "server_name" => s[i][2] = host
    BY <1>18, <2>1
  <2> QED
    BY Zenon, <1>1, <1>17, <2>2 DEF Named
<1>24. Drawn(s, group, keys)
  <2>1. \A i \in 1 .. n : FreshExt(r[i], group, keys)
    BY Zenon, <1>1, <1>4 DEF Rewrote, Drawn
  <2> QED
    BY Zenon, <1>17, <1>18, <2>1 DEF Drawn
<1>25. k.random = FreshValue /\ k.session \in {<<>>, FreshValue}
  BY Zenon, <1>16 DEF Rewrote
<1>26. Rewrote(k, g, pi, host, group, keys)
  BY Zenon, <1>1, <1>21, <1>22, <1>23, <1>24, <1>25 DEF Rewrote
<1> QED
  BY <1>20, <1>26

-----------------------------------------------------------------------------
(* SetKeyShare *)

(* The share that SetKeyShare takes is the X25519 one. *)
LEMMA OurShareIs ==
    ASSUME NEW h, IsSequence(Shares(h)), OurShare(h) # 0
    PROVE  /\ OurShare(h) \in 1 .. Len(Shares(h)) /\ OurShare(h) \in DOMAIN Shares(h)
           /\ Shares(h)[OurShare(h)].group = X25519 /\ Shares(h)[OurShare(h)].len = 32
<1>1. PICK x : x = Shares(h)
  OBVIOUS
<1>2. Len(x) \in Nat /\ DOMAIN x = 1 .. Len(x)
  BY <1>1, SequenceIs
<1>3. PICK I : I = {i \in 1 .. Len(x) : x[i].group = X25519 /\ x[i].len = 32}
  OBVIOUS
<1>4. OurShare(h) = IF I # {} THEN Min(I) ELSE 0
  BY <1>1, <1>3 DEF OurShare, SelectInSeq
<1>5. I # {} /\ I \subseteq Nat
  BY <1>2, <1>3, <1>4
<1>6. OurShare(h) \in I
  BY <1>4, <1>5, MinIsLeast
<1> QED
  BY <1>1, <1>2, <1>3, <1>6

(* One share holds the key of Client. *)
OneOurs(h) == Cardinality({s \in ToSet(Shares(h)) : s.key = OurKey}) = 1

(* One entry of the key share gets the key. *)
LEMMA KeyedShares ==
    ASSUME NEW x, NEW group, FreshShares(x, group, {FreshValue, ZeroValue}),
           NEW o, o \in 1 .. Len(x.entries), NEW w, w = [x EXCEPT !.entries[o].key = OurKey]
    PROVE  /\ SameShares(w, x) /\ FreshShares(w, group, {FreshValue, ZeroValue, OurKey})
           /\ Cardinality({s \in ToSet(w.entries) : s.key = OurKey}) = 1
<1>1. PICK a, b, e : a = x.entries /\ e = [a[o] EXCEPT !.key = OurKey] /\ b = [a EXCEPT ![o] = e]
  OBVIOUS
<1>2. w = [x EXCEPT !.entries = b]
  BY <1>1
<1>3. DOMAIN x = {"cut", "entries"} /\ IsSequence(a)
  BY Zenon, <1>1 DEF FreshShares
<1>4. DOMAIN w = {"cut", "entries"} /\ w.cut = x.cut /\ w.entries = b
  BY <1>2, <1>3
<1>5. /\ IsSequence(b) /\ Len(b) = Len(a) /\ DOMAIN b = DOMAIN a
      /\ \A i \in DOMAIN a : b[i] = IF i = o THEN e ELSE a[i]
  <2>1. Replaces(b, a, o, e)
    BY <1>1, <1>3, ReplacedOne
  <2> QED
    BY Zenon, <2>1 DEF Replaces
<1>6. DOMAIN a = 1 .. Len(a) /\ o \in DOMAIN a
  BY <1>1, <1>3, SequenceIs
<1>7. \A k \in 1 .. Len(a) :
          /\ DOMAIN a[k] = {"group", "len", "key"}
          /\ a[k].key \in {FreshValue, ZeroValue}
          /\ a[k].group[1] = "grease" => a[k].group = <<"grease", group>>
  BY Zenon, <1>1 DEF FreshShares
<1>8. /\ DOMAIN e = {"group", "len", "key"} /\ e.key = OurKey
      /\ e.group = a[o].group /\ e.len = a[o].len
  BY <1>1, <1>6, <1>7
<1>9. OurKey \notin {FreshValue, ZeroValue}
  BY DEF OurKey, FreshValue, ZeroValue
<1>10. \A k \in 1 .. Len(a) : b[k].group = a[k].group /\ b[k].len = a[k].len
  BY <1>5, <1>6, <1>8
<1>11. SameShares(w, x)
  <2>1. a = x.entries /\ b = w.entries
    BY Zenon, <1>1, <1>4
  <2>2. ASSUME NEW k \in 1 .. Len(x.entries)
        PROVE  /\ Sentinel(w.entries[k].group) = Sentinel(x.entries[k].group)
               /\ w.entries[k].len = x.entries[k].len
    BY Zenon, <1>10, <2>1
  <2>3. IsSequence(w.entries) /\ Len(w.entries) = Len(x.entries)
    BY Zenon, <1>5, <2>1
  <2> QED
    BY Zenon, <1>4, <2>2, <2>3 DEF SameShares
<1>12. FreshShares(w, group, {FreshValue, ZeroValue, OurKey})
  <2>1. ASSUME NEW k \in 1 .. Len(b)
        PROVE  /\ DOMAIN b[k] = {"group", "len", "key"}
               /\ b[k].key \in {FreshValue, ZeroValue, OurKey}
               /\ b[k].group[1] = "grease" => b[k].group = <<"grease", group>>
    <3>1. CASE k = o
      <4>1. b[k] = e /\ o \in 1 .. Len(a)
        BY <1>5, <1>6, <3>1
      <4> QED
        BY <1>7, <1>8, <4>1
    <3>2. CASE k # o
      <4>1. b[k] = a[k] /\ k \in 1 .. Len(a)
        BY <1>5, <1>6, <3>2
      <4> QED
        BY <1>7, <4>1
    <3> QED
      BY <3>1, <3>2
  <2> QED
    BY Zenon, <1>4, <1>5, <2>1 DEF FreshShares
<1>13. {s \in ToSet(b) : s.key = OurKey} = {e}
  <2>1. b[o] = e /\ o \in DOMAIN b
    BY <1>5, <1>6
  <2>2. ASSUME NEW i \in DOMAIN b, b[i].key = OurKey  PROVE b[i] = e
    <3>1. CASE i # o
      <4>1. b[i] = a[i] /\ a[i].key \in {FreshValue, ZeroValue}
        BY <1>5, <1>6, <1>7, <3>1
      <4> QED
        BY <1>9, <2>2, <4>1
    <3> QED
      BY <2>1, <3>1
  <2> QED
    BY <1>8, <2>1, <2>2 DEF ToSet
<1>14. Cardinality({e}) = 1
  BY FS_Singleton
<1> QED
  BY Zenon, <1>4, <1>11, <1>12, <1>13, <1>14

(* SetKeyShare puts our key into one share and leaves the layout. *)
LEMMA AfterSetKeyShare ==
    ASSUME NEW g, IsBrowsers(g), NEW h, NEW pi, NEW host, NEW group,
           Rewrote(h, g, pi, host, group, {FreshValue, ZeroValue}), CanShuffle(h),
           CanSetKeyShare(h), NEW k, k = SetKeyShare(h)
    PROVE  /\ Rewrote(k, g, pi, host, group, {FreshValue, ZeroValue, OurKey})
           /\ CanShuffle(k) /\ OneOurs(k) /\ Has(k, "key_share")
<1>1. PICK q, r, s, n, p : /\ q = g.exts /\ r = h.exts /\ s = k.exts /\ n = Len(q)
                           /\ p = Pos(h, "key_share")
  OBVIOUS
<1>2. IsSequence(q) /\ Once(q) /\ Emitting(h, g, pi)
  BY Zenon, <1>1, ParsedIs DEF Rewrote
<1>3. IsHello(h) /\ Moved(r, q, pi) /\ Len(r) = n
  BY Zenon, <1>1, <1>2 DEF Emitting, Moved
<1>4. /\ n \in Nat /\ DOMAIN q = 1 .. n /\ DOMAIN r = 1 .. n /\ IsSequence(r)
      /\ Within(pi, n) /\ OneToOne(pi, n) /\ Onto(pi, n) /\ Come(r, q, pi, n)
  BY <1>1, <1>2, <1>3, MovedIs
<1>5. Once(r)
  BY Zenon, <1>2, <1>3, MovedOnce
<1>6. Has(h, "key_share") /\ OurShare(h) # 0
  BY DEF CanSetKeyShare
<1>7. p \in DOMAIN r /\ r[p][1] = "key_share"
  BY <1>1, <1>4, <1>6, HasIs
<1>8. PICK x, o, w : /\ x = r[p][2] /\ o = OurShare(h) /\ w = [x EXCEPT !.entries[o].key = OurKey]
  OBVIOUS
<1>9. x = Find(h, "key_share") /\ x.entries = Shares(h)
  BY Zenon, <1>1, <1>8 DEF Find, Shares
<1>10. FreshShares(x, group, {FreshValue, ZeroValue})
  BY Zenon, <1>1, <1>7, <1>8 DEF Rewrote, Drawn, FreshExt
<1>11. o \in 1 .. Len(x.entries)
  <2>1. IsSequence(Shares(h))
    BY Zenon, <1>9, <1>10 DEF FreshShares
  <2>2. OurShare(h) \in 1 .. Len(Shares(h))
    BY <1>6, <2>1, OurShareIs
  <2> QED
    BY Zenon, <1>8, <1>9, <2>2
<1>12. /\ SameShares(w, x) /\ FreshShares(w, group, {FreshValue, ZeroValue, OurKey})
       /\ Cardinality({e \in ToSet(w.entries) : e.key = OurKey}) = 1
  BY <1>8, <1>10, <1>11, KeyedShares
<1>13. k = Put(h, "key_share", w)
  BY Zenon, <1>8, <1>9 DEF SetKeyShare
<1>14. IsHello(k) /\ SameFields(k, h) /\ SameLayout(k, h) /\ OnlyAt(k, h, "key_share", w)
  BY <1>1, <1>3, <1>4, <1>6, <1>13, PutIs
<1>15. /\ IsSequence(s) /\ Len(s) = n /\ DOMAIN s = 1 .. n
       /\ \A i \in 1 .. n : s[i][1] = r[i][1]
  BY Zenon, <1>1, <1>3, <1>4, <1>14 DEF SameLayout
<1>16. \A i \in 1 .. n : s[i] = IF i = p THEN <<"key_share", w>> ELSE r[i]
  BY Zenon, <1>1, <1>4, <1>14 DEF OnlyAt
<1>17. Has(k, "key_share") /\ Find(k, "key_share") = w
  BY Zenon, <1>6, <1>14 DEF SameLayout, OnlyAt
<1>18. OneOurs(k)
  BY Zenon, <1>12, <1>17 DEF OneOurs, Shares
<1>19. /\ n >= 3 /\ Pinned(h) \in {1, 2} /\ Ended(h) = n + 1 - Pinned(h)
       /\ r[1][1] = "grease" /\ r[Ended(h)][1] = "grease"
  BY <1>1, <1>3, <1>4, CanShuffleIs
<1>20. 1 \in 1 .. n /\ n \in 1 .. n /\ Ended(h) \in 1 .. n
  BY <1>4, <1>19
<1>21. s[1] = r[1] /\ s[Ended(h)] = r[Ended(h)] /\ s[n][1] = r[n][1]
  <2>1. 1 # p /\ Ended(h) # p
    BY <1>7, <1>19
  <2> QED
    BY <1>15, <1>16, <1>20, <2>1
<1>22. CanShuffle(k) /\ Ended(k) = Ended(h)
  <2>1. /\ IsSequence(h.exts) /\ IsSequence(k.exts) /\ Len(k.exts) = Len(h.exts)
        /\ k.exts[1] = h.exts[1] /\ k.exts[Ended(h)] = h.exts[Ended(h)]
        /\ k.exts[Len(h.exts)][1] = h.exts[Len(h.exts)][1]
    BY Zenon, <1>1, <1>3, <1>4, <1>15, <1>21
  <2> QED
    BY <2>1, SameEnds
<1>23. EndsDiffer(k)
  <2>1. r[1] # r[Ended(h)]
    BY <1>1 DEF Rewrote, EndsDiffer
  <2> QED
    BY Zenon, <1>1, <1>21, <1>22, <2>1 DEF EndsDiffer
<1>24. Becomes(r[p], <<"key_share", w>>)
  BY <1>7, <1>8, <1>12 DEF Becomes, Rewritten
<1>25. Come(s, q, pi, n)
  <2> SUFFICES ASSUME NEW i \in 1 .. n  PROVE Becomes(q[pi[i]], s[i])
    BY Zenon DEF Come
  <2>1. Becomes(q[pi[i]], r[i])
    BY Zenon, <1>4 DEF Come
  <2>2. CASE i = p
    <3>1. Becomes(r[i], s[i])
      BY <1>16, <1>24, <2>2
    <3> QED
      BY <2>1, <3>1, BecomesTwice
  <2>3. CASE i # p
    <3>1. s[i] = r[i]
      BY <1>16, <2>3
    <3> QED
      BY <2>1, <3>1
  <2> QED
    BY <2>2, <2>3
<1>26. Emitting(k, g, pi)
  <2>1. Moved(s, q, pi)
    BY Zenon, <1>1, <1>4, <1>15, <1>25 DEF Moved
  <2>2. k.suites = g.suites /\ Len(k.session) = Len(g.session)
    BY Zenon, <1>2, <1>14 DEF Emitting, SameFields
  <2> QED
    BY Zenon, <1>1, <1>14, <2>1, <2>2 DEF Emitting
<1>27. Named(k, host)
  <2>1. \A i \in 1 .. n : r[i][1] = "server_name" => r[i][2] = host
    BY Zenon, <1>1, <1>4 DEF Rewrote, Named
  <2>2. \A i \in 1 .. n : s[i][1] = "server_name" => s[i] = r[i]
    BY <1>16
  <2>3. \A i \in 1 .. n : s[i][1] = "server_name" => s[i][2] = host
    BY Zenon, <1>15, <2>1, <2>2
  <2> QED
    BY Zenon, <1>1, <1>15, <2>3 DEF Named
<1>28. Drawn(s, group, {FreshValue, ZeroValue, OurKey})
  <2> SUFFICES ASSUME NEW i \in 1 .. n  PROVE FreshExt(s[i], group, {FreshValue, ZeroValue, OurKey})
    BY Zenon, <1>15 DEF Drawn
  <2>1. CASE i = p
    <3>1. s[i] = <<"key_share", w>>
      BY <1>16, <2>1
    <3> QED
      BY <1>12, <3>1 DEF FreshExt
  <2>2. CASE i # p
    <3>1. s[i] = r[i] /\ r[i][1] # "key_share"
      BY <1>4, <1>5, <1>7, <1>16, <2>2 DEF Once
    <3>2. FreshExt(r[i], group, {FreshValue, ZeroValue})
      BY Zenon, <1>1, <1>4 DEF Rewrote, Drawn
    <3> QED
      BY Zenon, <3>1, <3>2 DEF FreshExt
  <2> QED
    BY <2>1, <2>2
<1>29. k.random = FreshValue /\ k.session \in {<<>>, FreshValue}
  BY Zenon, <1>14 DEF Rewrote, SameFields
<1>30. Rewrote(k, g, pi, host, group, {FreshValue, ZeroValue, OurKey})
  BY Zenon, <1>1, <1>23, <1>26, <1>27, <1>28, <1>29 DEF Rewrote
<1> QED
  BY <1>17, <1>18, <1>22, <1>30

-----------------------------------------------------------------------------
(* The authenticator *)

(* What SetTicketAuth drops first. *)
PSKType == {"pre_shared_key"}

(* The hello without a pre_shared_key begins and ends with the GREASE of   *)
(* the hello that was shuffled.                                            *)
LEMMA Stripped ==
    ASSUME NEW h, IsSequence(h.exts), CanShuffle(h), NEW out, out = Without(h.exts, PSKType),
           NEW m, m = Len(out)
    PROVE  /\ m \in Nat /\ m >= 1 /\ DOMAIN out = 1 .. m /\ IsSequence(out)
           /\ out \in Seq(ToSet(h.exts))
           /\ \A i \in 1 .. m : out[i][1] # "pre_shared_key" /\ \E j \in DOMAIN h.exts : out[i] = h.exts[j]
           /\ out[1] = h.exts[1] /\ out[m] = h.exts[Ended(h)]
<1>1. PICK s, S, n : s = h.exts /\ S = ToSet(s) /\ n = Len(s)
  OBVIOUS
<1>2. s \in Seq(S) /\ DOMAIN s = 1 .. n
  BY <1>1, SequenceIs DEF IsSequence
<1>3. /\ out \in Seq(S) /\ Left(s, PSKType, n, out)
      /\ n >= 2 /\ s[n][1] \in PSKType => EndsSame(s, PSKType, n - 1, out)
  BY Zenon, <1>1, <1>2, WithoutLeft
<1>4. /\ n \in Nat /\ n >= 3 /\ Pinned(h) \in {1, 2} /\ Ended(h) = n + 1 - Pinned(h)
      /\ s[1][1] = "grease" /\ s[Ended(h)][1] = "grease"
      /\ Pinned(h) = 2 <=> s[n][1] = "pre_shared_key"
  BY <1>1, CanShuffleIs
<1>5. m \in Nat /\ DOMAIN out = 1 .. m /\ out = [i \in 1 .. m |-> out[i]]
  BY <1>3
<1>6. IsSequence(out)
  BY <1>5, SequenceOf
<1>7. /\ FromFirst(s, PSKType, n, out) /\ StartsSame(s, PSKType, n, out)
      /\ EndsSame(s, PSKType, n, out)
  BY Zenon, <1>3 DEF Left
<1>8. \A i \in 1 .. m : out[i][1] # "pre_shared_key" /\ \E j \in DOMAIN s : out[i] = s[j]
  <2>1. \A i \in 1 .. m : out[i][1] \notin PSKType /\ \E j \in 1 .. n : out[i] = s[j]
    BY Zenon, <1>7 DEF FromFirst
  <2> QED
    BY <1>2, <2>1 DEF PSKType
<1>9. s[1][1] \notin PSKType /\ s[Ended(h)][1] \notin PSKType
  BY <1>4 DEF PSKType
<1>10. m >= 1 /\ out[1] = s[1]
  BY <1>4, <1>7, <1>9 DEF StartsSame
<1>11. out[m] = s[Ended(h)]
  <2>1. CASE Pinned(h) = 1
    <3>1. Ended(h) = n
      BY <1>4, <2>1
    <3> QED
      BY <1>4, <1>7, <1>9, <3>1 DEF EndsSame
  <2>2. CASE Pinned(h) = 2
    <3>1. Ended(h) = n - 1 /\ n - 1 >= 1 /\ s[n][1] \in PSKType /\ n >= 2
      BY <1>4, <2>2 DEF PSKType
    <3> QED
      BY <1>3, <1>9, <3>1 DEF EndsSame
  <2> QED
    BY <1>4, <2>1, <2>2
<1> QED
  BY Zenon, <1>1, <1>3, <1>5, <1>6, <1>8, <1>10, <1>11

(* What is on the wire, of the hello that was authenticated. *)
SameStart(k, h) == /\ IsSequence(k.exts) /\ Ended(k) \in 1 .. Len(k.exts)
                   /\ k.exts[1] = h.exts[1] /\ k.exts[Ended(k)] = h.exts[Ended(h)]
NoPSKBefore(k)  == \A i \in 1 .. Ended(k) : k.exts[i][1] # "pre_shared_key"
StillFound(k, h, u) == (Has(k, u) <=> Has(h, u)) /\ (Has(h, u) => Find(k, u) = Find(h, u))
AllFound(k, h) == /\ StillFound(k, h, "server_name") /\ StillFound(k, h, "key_share")
                  /\ StillFound(k, h, "supported_groups")
NothingElse(k, h) ==
    \A i \in DOMAIN k.exts : (\E j \in DOMAIN h.exts : k.exts[i] = h.exts[j]) \/ ~TappedPart(k.exts[i])

(* What a hello on the wire has of the one that was keyed. *)
Wired(k, h) ==
    /\ SameStart(k, h) /\ NoPSKBefore(k) /\ AllFound(k, h) /\ NothingElse(k, h)
    /\ k.suites = h.suites /\ k.session = h.session

(* A resumed hello. *)
LEMMA ResumedWire ==
    ASSUME NEW h, IsHello(h), IsSequence(h.exts), Once(h.exts), CanShuffle(h),
           NEW ticket, NEW len, NEW k, k = SetTicketAuth(h, ticket, len)
    PROVE  /\ Wired(k, h) /\ Has(k, "pre_shared_key") /\ k.random = h.random
           /\ Find(k, "pre_shared_key").ticket = ticket
           /\ Find(k, "pre_shared_key").binder[2] = len
           /\ KeyShare(k) => VerifyTicketAuth(k)
<1>1. PICK out, m, binder, x : /\ out = Without(h.exts, PSKType) /\ m = Len(out)
                               /\ binder = Binder(h, ticket, len)
                               /\ x = <<"pre_shared_key", [ticket |-> ticket, binder |-> binder]>>
  OBVIOUS
<1>2. /\ m \in Nat /\ m >= 1 /\ DOMAIN out = 1 .. m /\ IsSequence(out)
      /\ out \in Seq(ToSet(h.exts))
      /\ \A i \in 1 .. m : out[i][1] # "pre_shared_key" /\ \E j \in DOMAIN h.exts : out[i] = h.exts[j]
      /\ out[1] = h.exts[1] /\ out[m] = h.exts[Ended(h)]
  BY <1>1, Stripped
<1>3. \A hh, t, b : IsHello(hh) =>
         setPSK(hh, t, b) = [hh EXCEPT !.exts = Append(Without(hh.exts, PSKType),
                                                <<"pre_shared_key", [ticket |-> t, binder |-> b]>>)]
  BY DEF setPSK, dropExtension, IsHello, PSKType
<1>4. k = [h EXCEPT !.exts = Append(out, x)]
  BY <1>1, <1>3 DEF SetTicketAuth
<1>5. PICK s, S : s = Append(out, x) /\ S = ToSet(h.exts) \cup {x}
  OBVIOUS
<1>6. out \in Seq(S) /\ x \in S
  <2>1. ToSet(h.exts) \subseteq S /\ x \in S
    BY <1>5
  <2>2. out \in [1 .. m -> S]
    BY <1>1, <1>2, <2>1
  <2> QED
    BY <1>2, <2>1, <2>2
<1>7. /\ s \in Seq(S) /\ Len(s) = m + 1 /\ s[m + 1] = x
      /\ \A i \in 1 .. m : s[i] = out[i]
  BY <1>1, <1>5, <1>6, AppendProperties
<1>8. /\ IsHello(k) /\ k.exts = s /\ k.random = h.random /\ k.session = h.session
      /\ k.suites = h.suites
  BY <1>4, <1>5 DEF IsHello
<1>9. /\ DOMAIN s = 1 .. m + 1 /\ 1 .. m + 1 = (1 .. m) \cup {m + 1} /\ m + 1 \notin 1 .. m
      /\ IsSequence(s)
  <2>1. DOMAIN s = 1 .. m + 1 /\ s = [i \in 1 .. m + 1 |-> s[i]]
    BY <1>2, <1>7
  <2>2. m + 1 \in Nat
    BY <1>2
  <2>3. IsSequence(s)
    BY <2>1, <2>2, SequenceOf
  <2>4. 1 .. m + 1 = (1 .. m) \cup {m + 1} /\ m + 1 \notin 1 .. m
    BY <1>2
  <2> QED
    BY Zenon, <2>1, <2>3, <2>4
<1>10. x[1] = "pre_shared_key" /\ x[2] = [ticket |-> ticket, binder |-> binder]
  BY <1>1
<1>11. Ended(k) = m
  <2>1. Last(k.exts) = x
    BY <1>7, <1>8 DEF Last
  <2>2. Pinned(k) = 2
    BY <1>10, <2>1 DEF Pinned
  <2> QED
    BY <1>2, <1>7, <1>8, <2>2 DEF Ended
<1>12. PICK g : g = dropExtension(h, "pre_shared_key")
  OBVIOUS
<1>13. g.exts = out
  BY <1>1, <1>12 DEF dropExtension, IsHello, PSKType
<1>14. /\ Once(out)
       /\ \A t : t # "grease" /\ t \notin PSKType => StillFound(g, h, t)
  BY <1>1, <1>13, WithoutFind DEF StillFound
<1>15. Once(s)
  <2>1. \A i, j \in 1 .. m : out[i][1] = out[j][1] /\ out[i][1] # "grease" => i = j
    BY Zenon, <1>2, <1>14 DEF Once
  <2> SUFFICES ASSUME NEW i \in 1 .. m + 1, NEW j \in 1 .. m + 1, s[i][1] = s[j][1],
                      s[i][1] # "grease"
               PROVE  i = j
    BY Zenon, <1>9 DEF Once
  <2>2. CASE i \in 1 .. m /\ j \in 1 .. m
    BY Zenon, <1>7, <2>1, <2>2
  <2>3. CASE i = m + 1 /\ j \in 1 .. m
    BY Zenon, <1>2, <1>7, <1>10, <2>3
  <2>4. CASE i \in 1 .. m /\ j = m + 1
    BY Zenon, <1>2, <1>7, <1>10, <2>4
  <2>5. CASE i = m + 1 /\ j = m + 1
    BY <2>5
  <2> QED
    BY Zenon, <1>9, <2>2, <2>3, <2>4, <2>5
<1>16. Has(k, "pre_shared_key") /\ Find(k, "pre_shared_key") = x[2]
  <2>1. Has(k, "pre_shared_key") /\ Pos(k, "pre_shared_key") = m + 1
    BY <1>7, <1>8, <1>9, <1>10, <1>15, PosOnce
  <2> QED
    BY <1>7, <1>8, <2>1 DEF Find
<1>17. ASSUME NEW u, u # "grease", u # "pre_shared_key"  PROVE StillFound(k, h, u)
  <2>1. StillFound(g, h, u)
    BY <1>14, <1>17 DEF PSKType
  <2>2. Has(g, u) <=> \E i \in 1 .. m : out[i][1] = u
    BY <1>2, <1>13, HasIs
  <2>3. Has(k, u) <=> \E i \in 1 .. m + 1 : s[i][1] = u
    BY <1>8, <1>9, HasIs
  <2>4. ASSUME Has(k, u)  PROVE Has(g, u)
    <3>1. PICK i \in 1 .. m + 1 : s[i][1] = u
      BY <2>3, <2>4
    <3>2. i \in 1 .. m
      BY Zenon, <1>7, <1>9, <1>10, <1>17, <3>1
    <3> QED
      BY Zenon, <1>7, <2>2, <3>1, <3>2
  <2>5. ASSUME Has(g, u)  PROVE Has(k, u) /\ Find(k, u) = Find(g, u)
    <3>1. PICK i \in 1 .. m : out[i][1] = u
      BY <2>2, <2>5
    <3>2. i \in 1 .. m + 1 /\ s[i] = out[i]
      BY Zenon, <1>7, <1>9
    <3>3. Pos(g, u) = i
      BY <1>2, <1>13, <1>14, <1>17, <3>1, PosOnce
    <3>4. Has(k, u) /\ Pos(k, u) = i
      BY <1>8, <1>9, <1>15, <1>17, <3>1, <3>2, PosOnce
    <3> QED
      BY Zenon, <1>8, <1>13, <3>2, <3>3, <3>4 DEF Find
  <2> QED
    BY Zenon, <2>1, <2>4, <2>5 DEF StillFound
<1>18. AllFound(k, h)
  BY <1>17 DEF AllFound
<1>19. SameStart(k, h) /\ NoPSKBefore(k)
  <2>1. 1 \in 1 .. m /\ m \in 1 .. m /\ m \in 1 .. m + 1
    BY <1>2
  <2>2. s[1] = h.exts[1] /\ s[m] = h.exts[Ended(h)]
    BY Zenon, <1>2, <1>7, <2>1
  <2>3. \A i \in 1 .. m : s[i][1] # "pre_shared_key"
    BY Zenon, <1>2, <1>7
  <2> QED
    BY Zenon, <1>7, <1>8, <1>9, <1>11, <2>1, <2>2, <2>3 DEF SameStart, NoPSKBefore
<1>20. binder = <<"binder", len, ticket.psk, setPSK(h, ticket, Blank(len))>>
  BY <1>1 DEF Binder
<1>21. ~TappedPart(x)
  <2>1. binder # TappedValue
    BY <1>20 DEF TappedValue
  <2> QED
    BY <1>10, <2>1 DEF TappedPart
<1>22. NothingElse(k, h)
  <2> SUFFICES ASSUME NEW i \in 1 .. m + 1
               PROVE  (\E j \in DOMAIN h.exts : s[i] = h.exts[j]) \/ ~TappedPart(s[i])
    BY Zenon, <1>8, <1>9 DEF NothingElse
  <2>1. CASE i \in 1 .. m
    BY Zenon, <1>2, <1>7, <2>1
  <2>2. CASE i = m + 1
    BY Zenon, <1>7, <1>21, <2>2
  <2> QED
    BY Zenon, <1>9, <2>1, <2>2
<1>23. Without(s, PSKType) = out
  <2>1. x[1] \in PSKType /\ \A i \in 1 .. Len(out) : out[i][1] \notin PSKType
    BY <1>1, <1>2, <1>10 DEF PSKType
  <2> QED
    BY <1>5, <1>6, <2>1, WithoutAppended
<1>24. setPSK(k, ticket, Blank(len)) = setPSK(h, ticket, Blank(len))
  <2>1. PICK z : z = Append(out, <<"pre_shared_key", [ticket |-> ticket, binder |-> Blank(len)]>>)
    OBVIOUS
  <2>2. setPSK(h, ticket, Blank(len)) = [h EXCEPT !.exts = z]
    BY Zenon, <1>1, <1>3, <2>1
  <2>3. setPSK(k, ticket, Blank(len)) = [k EXCEPT !.exts = z]
    <3>1. Without(k.exts, PSKType) = out /\ IsHello(k)
      BY Zenon, <1>8, <1>23
    <3>2. setPSK(k, ticket, Blank(len))
            = [k EXCEPT !.exts = Append(Without(k.exts, PSKType),
                                   <<"pre_shared_key", [ticket |-> ticket, binder |-> Blank(len)]>>)]
      BY Zenon, <1>3, <3>1
    <3> QED
      BY Zenon, <2>1, <3>1, <3>2
  <2>4. [k EXCEPT !.exts = z] = [h EXCEPT !.exts = z]
    BY <1>4
  <2> QED
    BY Zenon, <2>2, <2>3, <2>4
<1>25. Binder(k, ticket, len) = binder /\ binder[2] = len
  BY <1>20, <1>24 DEF Binder
<1>26. x[2].ticket = ticket /\ x[2].binder = binder
  BY <1>10
<1>27. KeyShare(k) => VerifyTicketAuth(k)
  BY Zenon, <1>16, <1>25, <1>26 DEF VerifyTicketAuth
<1>28. Wired(k, h)
  BY Zenon, <1>8, <1>18, <1>19, <1>22 DEF Wired
<1> QED
  BY Zenon, <1>8, <1>16, <1>25, <1>26, <1>27, <1>28

(* A hello with the same extensions. *)
LEMMA SameExts ==
    ASSUME NEW h, NEW k, k.exts = h.exts
    PROVE  /\ \A u : Pos(k, u) = Pos(h, u) /\ (Has(k, u) <=> Has(h, u)) /\ Find(k, u) = Find(h, u)
           /\ Ended(k) = Ended(h)
<1>1. \A u : Pos(k, u) = Pos(h, u)
  BY DEF Pos
<1>2. \A u : (Has(k, u) <=> Has(h, u)) /\ Find(k, u) = Find(h, u)
  BY Zenon, <1>1 DEF Has, Find
<1>3. Ended(k) = Ended(h)
  BY DEF Ended, Pinned
<1> QED
  BY Zenon, <1>1, <1>2, <1>3

(* A full hello. *)
LEMMA FullWire ==
    ASSUME NEW h, IsHello(h), IsSequence(h.exts), Once(h.exts), CanShuffle(h),
           Has(h, "ech"), FreshPayload(Find(h, "ech")), Find(h, "ech").form = "outer",
           NEW ticket, NEW k, k = SetECHTicketAuth(dropExtension(h, "pre_shared_key"), ticket)
    PROVE  /\ Wired(k, h) /\ ~Has(k, "pre_shared_key") /\ k.random # TappedValue
           /\ CarriesTicket(k)
           /\ KeyShare(k) => VerifyECHTicketAuth(k)
<1>1. PICK out, m, g : /\ out = Without(h.exts, PSKType) /\ m = Len(out)
                       /\ g = dropExtension(h, "pre_shared_key")
  OBVIOUS
<1>2. /\ m \in Nat /\ m >= 1 /\ DOMAIN out = 1 .. m /\ IsSequence(out)
      /\ \A i \in 1 .. m : out[i][1] # "pre_shared_key" /\ \E j \in DOMAIN h.exts : out[i] = h.exts[j]
      /\ out[1] = h.exts[1] /\ out[m] = h.exts[Ended(h)]
  BY <1>1, Stripped
<1>3. h.exts[1][1] = "grease" /\ h.exts[Ended(h)][1] = "grease"
  BY CanShuffleIs
<1>4. g = [h EXCEPT !.exts = out]
  BY <1>1 DEF dropExtension, IsHello, PSKType
<1>5. IsHello(g) /\ g.exts = out /\ g.suites = h.suites /\ g.session = h.session
  BY <1>4 DEF IsHello
<1>6. /\ Once(out) /\ \A t \in PSKType : ~Has(g, t)
      /\ \A t : t # "grease" /\ t \notin PSKType => StillFound(g, h, t)
  <2>1. g.exts = Without(h.exts, PSKType)
    BY Zenon, <1>1, <1>5
  <2>2. /\ Once(g.exts) /\ \A t \in PSKType : ~Has(g, t)
        /\ \A t : t # "grease" /\ t \notin PSKType =>
               (Has(g, t) <=> Has(h, t)) /\ (Has(h, t) => Find(g, t) = Find(h, t))
    BY <2>1, WithoutFind
  <2> QED
    BY Zenon, <1>5, <2>2 DEF StillFound
<1>7. ~Has(g, "pre_shared_key")
  BY <1>6 DEF PSKType
<1>8. \A t : t # "grease" /\ t # "pre_shared_key" => StillFound(g, h, t)
  BY <1>6 DEF PSKType
<1>9. Has(g, "ech") /\ Find(g, "ech") = Find(h, "ech")
  BY <1>8 DEF StillFound
<1>10. PICK x, w, c, p : /\ x = Find(g, "ech") /\ w = [x EXCEPT !.payload = <<"ticket", ticket.psk>>]
                         /\ c = Put(g, "ech", w) /\ p = Pos(g, "ech")
  OBVIOUS
<1>11. /\ DOMAIN x = {"form", "suite", "payload", "len"} /\ x.form = "outer"
       /\ x.len \in echGREASELengths
  BY <1>9, <1>10 DEF FreshPayload
<1>12. w.payload = <<"ticket", ticket.psk>> /\ w.form = "outer" /\ w.len \in echGREASELengths
  BY <1>10, <1>11
<1>13. IsHello(c) /\ SameFields(c, g) /\ SameLayout(c, g) /\ OnlyAt(c, g, "ech", w)
  BY <1>2, <1>5, <1>9, <1>10, PutIs
<1>14. PICK mac : mac = MAC(c, ticket.psk)
  OBVIOUS
<1>15. k = [c EXCEPT !.random = mac]
  BY Zenon, <1>1, <1>10, <1>14 DEF SetECHTicketAuth
<1>16. /\ k.exts = c.exts /\ k.random = mac /\ k.suites = c.suites /\ k.session = c.session
  BY <1>13, <1>15 DEF IsHello
<1>17. k.suites = h.suites /\ k.session = h.session
  BY Zenon, <1>5, <1>13, <1>16 DEF SameFields
<1>18. PICK s : s = k.exts
  OBVIOUS
<1>19. IsSequence(s) /\ Len(s) = m /\ DOMAIN s = 1 .. m /\ \A i \in 1 .. m : s[i][1] = out[i][1]
  BY Zenon, <1>1, <1>2, <1>5, <1>13, <1>16, <1>18 DEF SameLayout
<1>20. \A i \in 1 .. m : s[i] = IF i = p THEN <<"ech", w>> ELSE out[i]
  <2>1. \A i \in DOMAIN g.exts : c.exts[i] = IF i = Pos(g, "ech") THEN <<"ech", w>> ELSE g.exts[i]
    BY Zenon, <1>13 DEF OnlyAt
  <2>2. s = c.exts /\ g.exts = out /\ p = Pos(g, "ech") /\ DOMAIN out = 1 .. m
    BY Zenon, <1>2, <1>5, <1>10, <1>16, <1>18
  <2> QED
    BY <2>1, <2>2
<1>21. \A u : (Has(k, u) <=> Has(c, u)) /\ Find(k, u) = Find(c, u)
  BY <1>16, SameExts
<1>22. \A u : (Has(c, u) <=> Has(g, u)) /\ (u # "ech" /\ Has(g, u) => Find(c, u) = Find(g, u))
  BY Zenon, <1>13 DEF SameLayout, OnlyAt
<1>23. \A u : u # "grease" /\ u # "pre_shared_key" /\ u # "ech" => StillFound(k, h, u)
  <2> SUFFICES ASSUME NEW u, u # "grease", u # "pre_shared_key", u # "ech"  PROVE StillFound(k, h, u)
    OBVIOUS
  <2>1. StillFound(g, h, u)
    BY <1>8
  <2>2. (Has(k, u) <=> Has(g, u)) /\ (Has(g, u) => Find(k, u) = Find(g, u))
    BY Zenon, <1>21, <1>22
  <2> QED
    BY Zenon, <2>1, <2>2 DEF StillFound
<1>24. AllFound(k, h)
  BY <1>23 DEF AllFound
<1>25. ~Has(k, "pre_shared_key")
  BY Zenon, <1>7, <1>21, <1>22
<1>26. Has(k, "ech") /\ Find(k, "ech") = w
  BY Zenon, <1>9, <1>13, <1>21, <1>22 DEF OnlyAt
<1>27. CarriesTicket(k)
  BY <1>12, <1>26 DEF CarriesTicket, echGREASELengths, FullTicketLen
<1>28. 1 \in 1 .. m /\ m \in 1 .. m
  BY <1>2
<1>29. p \in 1 .. m /\ out[p][1] = "ech"
  BY <1>2, <1>5, <1>9, <1>10, HasIs
<1>30. s[1] = h.exts[1] /\ s[m] = h.exts[Ended(h)]
  BY <1>2, <1>3, <1>20, <1>28, <1>29
<1>31. Ended(k) = m
  <2>1. Last(k.exts)[1] = "grease"
    BY <1>3, <1>18, <1>19, <1>30 DEF Last
  <2>2. Pinned(k) = 1
    BY <2>1 DEF Pinned
  <2> QED
    BY <1>2, <1>18, <1>19, <2>2 DEF Ended
<1>32. SameStart(k, h)
  BY Zenon, <1>18, <1>19, <1>28, <1>30, <1>31 DEF SameStart
<1>33. NoPSKBefore(k)
  BY Zenon, <1>2, <1>18, <1>19, <1>31 DEF NoPSKBefore
<1>34. ~TappedPart(<<"ech", w>>)
  <2>1. w.payload # TappedValue
    BY <1>12 DEF TappedValue
  <2> QED
    BY <2>1 DEF TappedPart
<1>35. NothingElse(k, h)
  <2> SUFFICES ASSUME NEW i \in 1 .. m
               PROVE  (\E j \in DOMAIN h.exts : s[i] = h.exts[j]) \/ ~TappedPart(s[i])
    BY Zenon, <1>18, <1>19 DEF NothingElse
  <2>1. CASE i = p
    <3>1. s[i] = <<"ech", w>>
      BY <1>20, <2>1
    <3> QED
      BY Zenon, <1>34, <3>1
  <2>2. CASE i # p
    <3>1. s[i] = out[i]
      BY <1>20, <2>2
    <3> QED
      BY Zenon, <1>2, <3>1
  <2> QED
    BY <2>1, <2>2
<1>36. mac = <<"mac", ticket.psk, [c EXCEPT !.random = ZeroValue]>>
  BY <1>14 DEF MAC
<1>37. k.random # TappedValue
  BY <1>16, <1>36 DEF TappedValue
<1>38. MAC(k, ticket.psk) = mac
  <2>1. [k EXCEPT !.random = ZeroValue] = [c EXCEPT !.random = ZeroValue]
    BY <1>15
  <2> QED
    BY Zenon, <1>36, <2>1 DEF MAC
<1>39. KeyShare(k) => VerifyECHTicketAuth(k)
  <2>1. w.payload[1] = "ticket" /\ w.payload[2] = ticket.psk
    BY <1>12
  <2> QED
    BY Zenon, <1>16, <1>26, <1>38, <2>1 DEF VerifyECHTicketAuth
<1>40. Wired(k, h)
  BY Zenon, <1>17, <1>24, <1>32, <1>33, <1>35 DEF Wired
<1> QED
  BY <1>25, <1>27, <1>37, <1>39, <1>40

-----------------------------------------------------------------------------
(* Sanitize *)

(* A hello of the device pool: nothing that resumes, no ticket. *)
Untapped(g) ==
    \A i \in DOMAIN g.exts :
        /\ g.exts[i][1] \notin ResumptionExts
        /\ g.exts[i][1] = "session_ticket" => g.exts[i][2] = ZeroValue

(* What Offer keeps of a browser's hello is a hello that a browser could   *)
(* have sent.                                                              *)
LEMMA SanitizedIs ==
    ASSUME NEW c, IsBrowsers(c), Has(c, "server_name")
    PROVE  IsBrowsers(Sanitize(c)) /\ Untapped(Sanitize(c))
<1>1. PICK h : h = SetSNI(c, "placeholder")
  OBVIOUS
<1>2. /\ IsSequence(h.exts) /\ Once(h.exts)
      /\ \A i \in DOMAIN h.exts : IsExtension(h.exts[i])
  BY <1>1, AfterSetSNI
<1>3. /\ IsHello(c) /\ c.session \in {<<>>, TappedValue, ZeroValue}
      /\ IsSequence(c.exts) /\ OffersShares(c)
  BY ParsedIs
<1>4. PICK kept : kept = Without(h.exts, ResumptionExts)
  OBVIOUS
<1>5. PICK m : m = [exts |-> kept]
  OBVIOUS
<1>6. m.exts = kept
  BY <1>5
<1>7. /\ IsSequence(m.exts) /\ Once(m.exts)
      /\ \A t \in ResumptionExts : ~Has(m, t)
      /\ \A t : t # "grease" /\ t \notin ResumptionExts =>
             (Has(m, t) <=> Has(h, t)) /\ (Has(h, t) => Find(m, t) = Find(h, t))
  BY <1>2, <1>4, <1>6, WithoutFind
<1>8. PICK r : r = Sanitize(c)
  OBVIOUS
<1>9. /\ IsHello(r) /\ r.session = Zeroed(c.session)
      /\ r.exts = [i \in DOMAIN kept |-> Unticketed(kept[i])]
  <2>1. r = Blanked(c, [i \in DOMAIN kept |-> Unticketed(kept[i])])
    BY Zenon, <1>1, <1>4, <1>8 DEF Sanitize
  <2> QED
    BY <1>3, <2>1 DEF Blanked, IsHello
<1>10. PICK n : n = Len(kept)
  OBVIOUS
<1>11. n \in Nat /\ DOMAIN kept = 1 .. n
  BY <1>6, <1>7, <1>10, SequenceIs
<1>12. IsSequence(r.exts) /\ Len(r.exts) = n /\ DOMAIN r.exts = 1 .. n
  <2>1. r.exts = [i \in 1 .. n |-> r.exts[i]]
    BY <1>9, <1>11
  <2> QED
    BY <1>11, <2>1, SequenceOf
<1>13. \A i \in 1 .. n : r.exts[i] = Unticketed(kept[i])
  BY <1>9, <1>11
<1>14. \A i \in 1 .. n : /\ r.exts[i][1] = kept[i][1]
                         /\ kept[i][1] # "session_ticket" => r.exts[i] = kept[i]
                         /\ kept[i][1] = "session_ticket" => r.exts[i][2] = ZeroValue
  <2> SUFFICES ASSUME NEW i \in 1 .. n
               PROVE  /\ r.exts[i][1] = kept[i][1]
                      /\ kept[i][1] # "session_ticket" => r.exts[i] = kept[i]
                      /\ kept[i][1] = "session_ticket" => r.exts[i][2] = ZeroValue
    OBVIOUS
  <2>2. PICK e, f : e = kept[i] /\ f = r.exts[i]
    OBVIOUS
  <2>3. f = Unticketed(e)
    BY Zenon, <1>13, <2>2
  <2>4. f[1] = e[1] /\ (e[1] # "session_ticket" => f = e) /\ (e[1] = "session_ticket" => f[2] = ZeroValue)
    <3>1. CASE e[1] = "session_ticket"
      <4>1. f = <<e[1], ZeroValue>>
        BY Zenon, <2>3, <3>1 DEF Unticketed
      <4> QED
        BY <3>1, <4>1
    <3>2. CASE e[1] # "session_ticket"
      <4>1. f = e
        BY Zenon, <2>3, <3>2 DEF Unticketed
      <4> QED
        BY <3>2, <4>1
    <3> QED
      BY Zenon, <3>1, <3>2
  <2> QED
    BY Zenon, <2>2, <2>4
<1>15. \A i \in 1 .. n : \E j \in DOMAIN h.exts : kept[i] = h.exts[j]
  <2>1. PICK s, S : s = h.exts /\ S = ToSet(h.exts)
    OBVIOUS
  <2>2. s \in Seq(S)
    BY Zenon, <1>2, <2>1 DEF IsSequence
  <2>3. Left(s, ResumptionExts, Len(s), Without(s, ResumptionExts))
    BY <2>2, WithoutLeft
  <2>4. \A i \in 1 .. n : \E j \in 1 .. Len(s) : kept[i] = s[j]
    BY Zenon, <1>4, <1>10, <2>1, <2>3 DEF Left, FromFirst
  <2>5. 1 .. Len(s) = DOMAIN h.exts
    BY <1>2, <2>1, SequenceIs
  <2> QED
    BY Zenon, <2>1, <2>4, <2>5
<1>16. \A i \in DOMAIN r.exts : IsExtension(r.exts[i])
  <2> SUFFICES ASSUME NEW i \in 1 .. n  PROVE IsExtension(r.exts[i])
    BY <1>12
  <2>1. CASE kept[i][1] = "session_ticket"
    <3>1. r.exts[i][1] = "session_ticket"
      BY <1>14, <2>1
    <3> QED
      BY <3>1 DEF IsExtension
  <2>2. CASE kept[i][1] # "session_ticket"
    <3>1. r.exts[i] = kept[i]
      BY Zenon, <1>14, <2>2
    <3>2. PICK j \in DOMAIN h.exts : kept[i] = h.exts[j]
      BY Zenon, <1>15
    <3> QED
      BY Zenon, <1>2, <3>1, <3>2
  <2> QED
    BY <2>1, <2>2
<1>17. IsSentOnce(r)
  BY Zenon, <1>6, <1>7, <1>11, <1>12, <1>14 DEF IsSentOnce, Once, IsGREASE
<1>18. OffersShares(r)
  <2>1. \A t : Pos(r, t) = Pos(m, t) /\ (Has(r, t) <=> Has(m, t))
    <3>1. Len(r.exts) = Len(m.exts) /\ \A i \in 1 .. Len(m.exts) : r.exts[i][1] = m.exts[i][1]
      BY <1>6, <1>10, <1>12, <1>14
    <3> QED
      BY <3>1, SamePos
  <2>2. \A t : t # "session_ticket" /\ Has(m, t) => Find(r, t) = Find(m, t)
    <3> SUFFICES ASSUME NEW t, t # "session_ticket", Has(m, t)  PROVE Find(r, t) = Find(m, t)
      OBVIOUS
    <3>1. Pos(m, t) \in DOMAIN m.exts /\ m.exts[Pos(m, t)][1] = t
      BY <1>7, HasIs
    <3>2. r.exts[Pos(m, t)] = m.exts[Pos(m, t)]
      BY Zenon, <1>6, <1>11, <1>14, <3>1
    <3> QED
      BY Zenon, <2>1, <3>2 DEF Find
  <2>3. \A t : t # "grease" /\ t \notin ResumptionExts /\ t # "server_name" /\ t # "session_ticket" =>
           (Has(r, t) <=> Has(c, t)) /\ (Has(c, t) => Find(r, t) = Find(c, t))
    <3>1. SameLayout(h, c) /\ OnlyAt(h, c, "server_name", "placeholder")
      BY <1>1, <1>3, PutIs DEF SetSNI
    <3> QED
      BY Zenon, <1>7, <2>1, <2>2, <3>1 DEF SameLayout, OnlyAt
  <2>4. /\ (Has(r, "key_share") <=> Has(c, "key_share"))
        /\ Has(c, "key_share") => Find(r, "key_share") = Find(c, "key_share")
        /\ (Has(r, "supported_groups") <=> Has(c, "supported_groups"))
        /\ Has(c, "supported_groups") => Find(r, "supported_groups") = Find(c, "supported_groups")
    BY <2>3 DEF ResumptionExts
  <2> QED
    BY Zenon, <1>3, <2>4 DEF OffersShares, OffersGroup, Shares
<1>19. r.session \in {<<>>, TappedValue, ZeroValue}
  BY <1>9 DEF Zeroed
<1>20. Untapped(r)
  <2> SUFFICES ASSUME NEW i \in 1 .. n
               PROVE  /\ r.exts[i][1] \notin ResumptionExts
                      /\ r.exts[i][1] = "session_ticket" => r.exts[i][2] = ZeroValue
    BY <1>12 DEF Untapped
  <2>1. r.exts[i][1] \notin ResumptionExts
    BY Zenon, <1>6, <1>7, <1>11, <1>14, HasIs
  <2> QED
    BY Zenon, <1>14, <2>1
<1> QED
  BY Zenon, <1>8, <1>9, <1>12, <1>16, <1>17, <1>18, <1>19, <1>20 DEF IsBrowsers, IsParsed, IsSequence

-----------------------------------------------------------------------------
(* The wire *)

(* A hello of which a GREASE share is of the GREASE group it offers. *)
GreaseOffered(h) == \A s \in ToSet(Shares(h)) : s.group[1] = "grease" => OffersGroup(h, s.group)

(* GREASE is told from other groups by its sentinel. *)
LEMMA SentinelIs ==
    ASSUME NEW x, NEW y, Sentinel(x) = Sentinel(y)
    PROVE  x[1] = "grease" <=> y[1] = "grease"
<1>1. \A z : Sentinel(z)[1] = "grease" <=> z[1] = "grease"
  BY DEF Sentinel
<1> QED
  BY Zenon, <1>1

(* The redrawn groups keep the GREASE shares among the groups on offer. *)
LEMMA StillOffered ==
    ASSUME NEW g, IsBrowsers(g), NEW h, NEW pi, NEW host, NEW group, NEW keys,
           Rewrote(h, g, pi, host, group, keys), Has(h, "key_share"),
           NEW s, s \in ToSet(Shares(h)), s.group[1] = "grease"
    PROVE  Has(h, "supported_groups") /\ OffersGroup(h, s.group)
<1>1. IsSequence(g.exts) /\ Once(g.exts) /\ OffersShares(g)
  BY ParsedIs
<1>2. Moved(h.exts, g.exts, pi) /\ Drawn(h.exts, group, keys)
  BY Zenon DEF Rewrote, Emitting
<1>3. PICK x, y : x = Find(h, "key_share") /\ y = Find(g, "key_share")
  OBVIOUS
<1>4. Has(g, "key_share") /\ SameShares(x, y) /\ FreshShares(x, group, keys)
  <2>1. (Has(h, "key_share") <=> Has(g, "key_share"))
        /\ (Has(g, "key_share") =>
              /\ Becomes(g.exts[Pos(g, "key_share")], h.exts[Pos(h, "key_share")])
              /\ g.exts[Pos(g, "key_share")][1] = "key_share"
              /\ Pos(h, "key_share") \in DOMAIN h.exts
              /\ h.exts[Pos(h, "key_share")][1] = "key_share")
    BY <1>1, <1>2, MovedFind
  <2> QED
    BY Zenon, <1>2, <1>3, <2>1 DEF Becomes, Find, Drawn, FreshExt
<1>5. PICK i \in 1 .. Len(x.entries) : s = x.entries[i]
  <2>1. IsSequence(x.entries)
    BY Zenon, <1>4 DEF SameShares
  <2>2. DOMAIN x.entries = 1 .. Len(x.entries)
    BY <2>1, SequenceIs
  <2> QED
    BY Zenon, <1>3, <2>2 DEF Shares, ToSet
<1>6. s.group = <<"grease", group>>
  BY Zenon, <1>4, <1>5 DEF FreshShares
<1>7. PICK z : z \in ToSet(y.entries) /\ z.group[1] = "grease"
  <2>1. i \in 1 .. Len(y.entries) /\ Sentinel(x.entries[i].group) = Sentinel(y.entries[i].group)
    BY Zenon, <1>4, <1>5 DEF SameShares
  <2>2. y.entries[i].group[1] = "grease"
    BY Zenon, <1>5, <2>1, SentinelIs
  <2>3. IsSequence(y.entries)
    <3>1. Pos(g, "key_share") \in DOMAIN g.exts /\ g.exts[Pos(g, "key_share")][1] = "key_share"
      BY <1>1, <1>4, HasIs
    <3>2. IsExtension(g.exts[Pos(g, "key_share")])
      BY Zenon, <3>1, ParsedIs
    <3>3. PICK e : e = g.exts[Pos(g, "key_share")]
      OBVIOUS
    <3>4. e[1] = "key_share" /\ IsExtension(e) /\ y = e[2]
      BY Zenon, <1>3, <3>1, <3>2, <3>3 DEF Find
    <3> QED
      BY <3>4 DEF IsExtension, IsSequence
  <2>4. DOMAIN y.entries = 1 .. Len(y.entries)
    BY <2>3, SequenceIs
  <2> QED
    BY Zenon, <2>1, <2>2, <2>4 DEF ToSet
<1>8. Has(g, "supported_groups") /\ OffersGroup(g, z.group)
  BY Zenon, <1>1, <1>3, <1>4, <1>7 DEF OffersShares, Shares
<1>9. PICK u, v : u = Find(h, "supported_groups") /\ v = Find(g, "supported_groups")
  OBVIOUS
<1>10. Has(h, "supported_groups") /\ SameGroups(u, v) /\ FreshGroups(u, group)
  <2>1. (Has(h, "supported_groups") <=> Has(g, "supported_groups"))
        /\ (Has(g, "supported_groups") =>
              /\ Becomes(g.exts[Pos(g, "supported_groups")], h.exts[Pos(h, "supported_groups")])
              /\ g.exts[Pos(g, "supported_groups")][1] = "supported_groups"
              /\ Pos(h, "supported_groups") \in DOMAIN h.exts
              /\ h.exts[Pos(h, "supported_groups")][1] = "supported_groups")
    BY <1>1, <1>2, MovedFind
  <2> QED
    BY Zenon, <1>2, <1>8, <1>9, <2>1 DEF Becomes, Find, Drawn, FreshExt
<1>11. PICK j \in 1 .. Len(v) : v[j] = z.group
  BY Zenon, <1>8, <1>9 DEF OffersGroup, Contains
<1>12. j \in 1 .. Len(u) /\ u[j][1] = "grease"
  <2>1. j \in 1 .. Len(u) /\ Sentinel(u[j]) = Sentinel(v[j])
    BY Zenon, <1>10, <1>11 DEF SameGroups
  <2> QED
    BY Zenon, <1>7, <1>11, <2>1, SentinelIs
<1>13. u[j] = <<"grease", group>>
  BY Zenon, <1>10, <1>12 DEF FreshGroups
<1> QED
  BY Zenon, <1>6, <1>9, <1>10, <1>12, <1>13 DEF OffersGroup, Contains

(* A hello on the wire looks like a browser's. *)
ChromeShape(k) ==
    /\ IsGREASE(k.exts[1]) /\ IsGREASE(k.exts[Ended(k)]) /\ k.exts[1] # k.exts[Ended(k)]
    /\ NoPSKBefore(k) /\ GreaseOffered(k)

(* The keys that may be on the wire. *)
SentKeys == {FreshValue, ZeroValue, OurKey}

(* A keyed hello with its authenticator has the shape of a browser's. *)
LEMMA WireLooks ==
    ASSUME NEW g, IsBrowsers(g), NEW h, NEW pi, NEW host, NEW group,
           Rewrote(h, g, pi, host, group, SentKeys), CanShuffle(h), Has(h, "key_share"),
           NEW k, Wired(k, h)
    PROVE  ChromeShape(k)
<1>1. IsSequence(h.exts) /\ EndsDiffer(h)
  BY Zenon DEF Rewrote, Emitting, Moved
<1>2. /\ h.exts[1][1] = "grease" /\ h.exts[Ended(h)][1] = "grease"
  BY <1>1, CanShuffleIs
<1>3. h.exts[1] # h.exts[Ended(h)]
  BY Zenon, <1>1 DEF EndsDiffer
<1>4. SameStart(k, h) /\ NoPSKBefore(k) /\ AllFound(k, h)
  BY Zenon DEF Wired
<1>5. k.exts[1] = h.exts[1] /\ k.exts[Ended(k)] = h.exts[Ended(h)]
  BY Zenon, <1>4 DEF SameStart
<1>6. /\ Find(k, "key_share") = Find(h, "key_share")
      /\ Has(h, "supported_groups") => Find(k, "supported_groups") = Find(h, "supported_groups")
  BY Zenon, <1>4 DEF AllFound, StillFound
<1>7. GreaseOffered(k)
  <2> SUFFICES ASSUME NEW s \in ToSet(Shares(k)), s.group[1] = "grease"  PROVE OffersGroup(k, s.group)
    BY Zenon DEF GreaseOffered
  <2>1. s \in ToSet(Shares(h))
    BY Zenon, <1>6 DEF Shares
  <2>2. Has(h, "supported_groups") /\ OffersGroup(h, s.group)
    BY <2>1, StillOffered
  <2> QED
    BY Zenon, <1>6, <2>2 DEF OffersGroup
<1> QED
  BY Zenon, <1>2, <1>3, <1>4, <1>5, <1>7 DEF ChromeShape, IsGREASE

(* Nothing of a tapped connection is on the wire. *)
Clean(k) == \A i \in DOMAIN k.exts : ~TappedPart(k.exts[i])

(* A keyed hello of a screened capture brings nothing tapped to the wire. *)
LEMMA WireClean ==
    ASSUME NEW g, IsBrowsers(g), Untapped(g), NEW h, NEW pi, NEW host, host # "visited", NEW group,
           Rewrote(h, g, pi, host, group, SentKeys), NEW k, Wired(k, h)
    PROVE  Clean(k) /\ k.session # TappedValue
<1>1. Moved(h.exts, g.exts, pi) /\ Named(h, host) /\ Drawn(h.exts, group, SentKeys)
  BY Zenon DEF Rewrote, Emitting
<1>2. IsSequence(g.exts)
  BY ParsedIs
<1>3. PICK n : n = Len(g.exts)
  OBVIOUS
<1>4. DOMAIN h.exts = 1 .. n /\ DOMAIN g.exts = 1 .. n /\ Within(pi, n) /\ Come(h.exts, g.exts, pi, n)
  BY <1>1, <1>2, <1>3, MovedIs
<1>5. ASSUME NEW j \in DOMAIN h.exts  PROVE ~TappedPart(h.exts[j])
  <2>1. PICK e, f : e = h.exts[j] /\ f = g.exts[pi[j]]
    OBVIOUS
  <2>2. pi[j] \in DOMAIN g.exts /\ Becomes(f, e)
    BY Zenon, <1>4, <1>5, <2>1 DEF Within, Come
  <2>3. e[1] = f[1] /\ (f[1] \notin Rewritten => e = f)
    BY Zenon, <2>2 DEF Becomes
  <2>4. f[1] \notin ResumptionExts /\ (f[1] = "session_ticket" => f[2] = ZeroValue)
    BY Zenon, <2>1, <2>2 DEF Untapped
  <2>5. e[1] = "server_name" => e[2] = host
    BY Zenon, <1>1, <1>5, <2>1 DEF Named
  <2>6. FreshExt(e, group, SentKeys)
    BY Zenon, <1>1, <1>5, <2>1 DEF Drawn
  <2>7. e[1] \notin {"pre_shared_key", "early_data"}
    BY <2>3, <2>4 DEF ResumptionExts
  <2>8. e[1] = "session_ticket" => e[2] # TappedValue
    BY <2>3, <2>4 DEF Rewritten, ZeroValue, TappedValue
  <2>9. e[1] = "key_share" => ~\E s \in ToSet(e[2].entries) : s.key = TappedValue
    <3> SUFFICES ASSUME e[1] = "key_share", NEW s \in ToSet(e[2].entries), s.key = TappedValue  PROVE FALSE
      OBVIOUS
    <3>1. PICK x : x = e[2]
      OBVIOUS
    <3>2. FreshShares(x, group, SentKeys)
      BY Zenon, <2>6, <3>1 DEF FreshExt
    <3>3. IsSequence(x.entries)
      BY Zenon, <3>2 DEF FreshShares
    <3>4. DOMAIN x.entries = 1 .. Len(x.entries)
      BY <3>3, SequenceIs
    <3>5. PICK l \in 1 .. Len(x.entries) : s = x.entries[l]
      BY Zenon, <3>1, <3>4 DEF ToSet
    <3>6. s.key \in SentKeys
      BY Zenon, <3>2, <3>5 DEF FreshShares
    <3> QED
      BY <3>6 DEF SentKeys, FreshValue, ZeroValue, OurKey, TappedValue
  <2>10. e[1] = "ech" => e[2].form = "inner" \/ e[2].payload # TappedValue
    <3>1. e[1] = "ech" => e[2].form = "inner" \/ e[2].payload = FreshValue
      BY Zenon, <2>6 DEF FreshExt, FreshPayload
    <3>2. FreshValue # TappedValue
      BY DEF FreshValue, TappedValue
    <3> QED
      BY Zenon, <3>1, <3>2
  <2>11. ~TappedPart(e)
    BY <2>5, <2>7, <2>8, <2>9, <2>10 DEF TappedPart
  <2> QED
    BY Zenon, <2>1, <2>11
<1>6. NothingElse(k, h) /\ k.session = h.session
  BY Zenon DEF Wired
<1>7. Clean(k)
  BY Zenon, <1>5, <1>6 DEF NothingElse, Clean
<1>8. h.session \in {<<>>, FreshValue}
  BY Zenon DEF Rewrote
<1>9. TappedValue \notin {<<>>, FreshValue}
  BY DEF FreshValue, TappedValue
<1> QED
  BY <1>6, <1>7, <1>8, <1>9

(* The key that Server finds is the one that Client set. *)
LEMMA WireKey ==
    ASSUME NEW g, IsBrowsers(g), NEW h, NEW pi, NEW host, NEW group,
           Rewrote(h, g, pi, host, group, SentKeys), Has(h, "key_share"),
           OurShare(g) # 0, FirstShare(g) = OurShare(g), NEW k, Wired(k, h)
    PROVE  KeyShare(k)
<1>1. IsSequence(g.exts) /\ Once(g.exts)
  BY ParsedIs
<1>2. Moved(h.exts, g.exts, pi)
  BY Zenon DEF Rewrote, Emitting
<1>3. SameShares(Find(h, "key_share"), Find(g, "key_share"))
  <2>1. (Has(h, "key_share") <=> Has(g, "key_share"))
        /\ (Has(g, "key_share") =>
              /\ Becomes(g.exts[Pos(g, "key_share")], h.exts[Pos(h, "key_share")])
              /\ g.exts[Pos(g, "key_share")][1] = "key_share")
    BY <1>1, <1>2, MovedFind
  <2> QED
    BY Zenon, <2>1 DEF Becomes, Find
<1>4. OurShare(h) = OurShare(g) /\ FirstShare(h) = FirstShare(g)
  BY <1>3, SharesKept
<1>5. IsSequence(Shares(h))
  BY Zenon, <1>3 DEF SameShares, Shares
<1>6. Shares(h)[OurShare(h)].len = 32
  BY <1>4, <1>5, OurShareIs
<1>7. Has(k, "key_share") /\ Find(k, "key_share") = Find(h, "key_share")
  BY Zenon DEF Wired, AllFound, StillFound
<1>8. Shares(k) = Shares(h) /\ FirstShare(k) = FirstShare(h)
  BY Zenon, <1>7 DEF Shares, FirstShare
<1>9. FirstShare(k) # 0 /\ Shares(k)[FirstShare(k)].len = 32
  BY Zenon, <1>4, <1>6, <1>8
<1> QED
  BY Zenon, <1>7, <1>9 DEF KeyShare

-----------------------------------------------------------------------------
(* The invariant of an opening *)

(* The configuration is for the cover of the egress. *)
ForCover(cfg) ==
    /\ cfg.cover.host \in ClientHosts /\ Lower[cfg.cover.host] = Lower[cover.host]
    /\ cfg.cover.binder = cover.binder /\ cfg.cred.ticket = cover.ticket

(* What Client chose. *)
Chosen ==
    /\ IsBrowsers(open.drawn)
    /\ open.cfg.device => Untapped(open.drawn)
    /\ ForCover(open.cfg)
    /\ open.full => CarriesTicket(open.drawn)
    /\ open.full /\ ~CompanionUsable(open.cfg) => open.cfg.want = "full"

(* How far Twiddle is. *)
Rerandomized(h, g, host) ==
    /\ Has(g, "server_name")
    /\ \E group : Rewrote(h, g, Id(Len(g.exts)), host, group, {FreshValue, ZeroValue})
Shuffled(h, g, host) ==
    /\ Has(g, "server_name") /\ CanShuffle(h)
    /\ \E pi, group : Rewrote(h, g, pi, host, group, {FreshValue, ZeroValue})
Keyed(h, g, host) ==
    /\ Has(g, "server_name") /\ CanShuffle(h)
    /\ OneOurs(h) /\ Has(h, "key_share") /\ OurShare(g) # 0
    /\ \E pi, group : Rewrote(h, g, pi, host, group, SentKeys)

(* How far the hello is built from the one drawn, by the place of Client. *)
Built(pc, h, g, host) ==
    /\ pc = "sni" => h = g
    /\ pc = "rerandomize" => Has(g, "server_name") /\ h = SetSNI(g, host)
    /\ pc = "shuffle" => Rerandomized(h, g, host)
    /\ pc = "keyshare" => Shuffled(h, g, host)
    /\ pc = "auth" => Keyed(h, g, host)

(* What is on the wire is what the egress takes, where it can. *)
Takes == /\ cover.suite \in open.drawn.suites
         /\ FirstShare(open.drawn) = OurShare(open.drawn)
         /\ open.full => CanEmitFullHandshake(cover)

(* What the egress can take is a valid hello, and ours. *)
WireIsOurs == open.pc = "wire" /\ Takes => ValidClientHello(open.hello) /\ Authentic(open.hello)

(* The inductive invariant of the emission. *)
EmitInv ==
    /\ open.pc \notin {"idle", "refused"} =>
          Chosen /\ Built(open.pc, open.hello, open.drawn, open.cfg.cover.host)
    /\ WireIsOurs /\ LooksLikeChrome /\ NothingTapped /\ UsableSurvives /\ EmittedIsOurs

(* A step that leaves alone what Client chose. *)
Kept == /\ open'.drawn = open.drawn /\ open'.cfg = open.cfg /\ open'.full = open.full
        /\ cover' = cover

(* ... leaves it chosen. *)
LEMMA ChosenKept ==
    ASSUME Chosen, Kept
    PROVE  Chosen'
<1>1. ForCover(open.cfg)'
  BY Zenon DEF Chosen, Kept, ForCover
<1> QED
  BY Zenon, <1>1 DEF Chosen, Kept

(* The hello is built further. *)
LEMMA EmitBuilds ==
    ASSUME Chosen, Kept, NEW pc, NEW h, open'.pc = pc, open'.hello = h,
           pc \in {"rerandomize", "shuffle", "keyshare", "auth"},
           Built(pc, h, open.drawn, open.cfg.cover.host)
    PROVE  EmitInv'
<1>1. Chosen'
  BY ChosenKept
<1>2. Built(open.pc, open.hello, open.drawn, open.cfg.cover.host)'
  BY Zenon DEF Kept
<1>3. open'.pc \notin {"wire", "unemitted", "notours"}
  OBVIOUS
<1>4. (WireIsOurs /\ LooksLikeChrome /\ NothingTapped /\ UsableSurvives /\ EmittedIsOurs)'
  BY <1>3 DEF WireIsOurs, LooksLikeChrome, NothingTapped, UsableSurvives, EmittedIsOurs
<1> QED
  BY Zenon, <1>1, <1>2, <1>4 DEF EmitInv

(* The hello was read. *)
LEMMA EmitReads ==
    ASSUME Chosen, Kept, open'.pc \in {"unemitted", "notours", "spent", "remainder", "broken", "complete"},
           UsableSurvives', EmittedIsOurs'
    PROVE  EmitInv'
<1>1. Chosen'
  BY ChosenKept
<1>2. open'.pc \notin {"sni", "rerandomize", "shuffle", "keyshare", "auth", "wire"}
  OBVIOUS
<1>3. Built(open.pc, open.hello, open.drawn, open.cfg.cover.host)'
  BY <1>2 DEF Built
<1>4. (WireIsOurs /\ LooksLikeChrome /\ NothingTapped)'
  BY <1>2 DEF WireIsOurs, LooksLikeChrome, NothingTapped
<1> QED
  BY Zenon, <1>1, <1>3, <1>4 DEF EmitInv

(* The hello is sent. *)
WireFacts(k) ==
    /\ ChromeShape(k) /\ (Has(k, "pre_shared_key") <=> ~open.full)
    /\ open.cfg.device => /\ TappedValue \notin {k.random, k.session}
                          /\ Clean(k) /\ OneOurs(k)
    /\ Takes => ValidClientHello(k) /\ Authentic(k)

(* A hello with these facts may go on the wire. *)
LEMMA EmitSends ==
    ASSUME Chosen, Kept, NEW k, open'.pc = "wire", open'.hello = k, WireFacts(k)
    PROVE  EmitInv'
<1>1. Chosen'
  BY ChosenKept
<1>2. Built(open.pc, open.hello, open.drawn, open.cfg.cover.host)'
  BY DEF Built
<1>3. (UsableSurvives /\ EmittedIsOurs)'
  BY DEF UsableSurvives, EmittedIsOurs
<1>4. WireIsOurs'
  <2>1. Takes' <=> Takes
    BY Zenon DEF Kept, Takes
  <2>2. ValidClientHello(open.hello)' <=> ValidClientHello(k)
    BY Zenon DEF Kept, ValidClientHello, OffersCover
  <2> QED
    BY Zenon, <2>1, <2>2 DEF WireIsOurs, WireFacts
<1>5. LooksLikeChrome'
  BY Zenon DEF LooksLikeChrome, Kept, WireFacts, ChromeShape, NoPSKBefore, GreaseOffered
<1>6. NothingTapped'
  BY Zenon DEF NothingTapped, Kept, WireFacts, Clean, OneOurs
<1> QED
  BY Zenon, <1>1, <1>2, <1>3, <1>4, <1>5, <1>6 DEF EmitInv

-----------------------------------------------------------------------------
(* Client *)

(* The profile of a client is the egress's up to its full remainder. *)
LEMMA CoverOf ==
    ASSUME ProbeInv, NEW w, w \in ClientCovers, Valid(w)
    PROVE  /\ w.host \in ClientHosts /\ Lower[w.host] = Lower[cover.host]
           /\ w.binder = cover.binder /\ w.ticket = cover.ticket
<1>1. cover \in ProfileType /\ Valid(cover)
  BY DEF ProbeInv, ProfileOK
<1>2. cover.host \in DNSNames
  BY <1>1 DEF ProfileType
<1>3. Lower[cover.host] = cover.host
  BY <1>2, HostAssumption
<1>4. w.host \in ClientHosts /\ Lower[w.host] = cover.host
  <2>1. CoverFor(cover.host) \in ProfileType
    BY <1>1, CoverForTyped DEF Valid
  <2>2. PICK P : P = ClientProfiles
    OBVIOUS
  <2>3. w \in {[q EXCEPT !.host = h] : q \in P, h \in {c \in ClientHosts : Lower[c] = cover.host}}
    BY <2>2 DEF ClientCovers
  <2>4. PICK q \in P, h \in {c \in ClientHosts : Lower[c] = cover.host} : w = [q EXCEPT !.host = h]
    BY <2>3
  <2>5. "host" \in DOMAIN q
    <3>1. \A r \in ProfileType : "host" \in DOMAIN r /\ "host" \in DOMAIN [r EXCEPT !.full = OtherFull]
      BY DEF ProfileType
    <3>2. q = cover \/ q = CoverFor(cover.host) \/ q = [CoverFor(cover.host) EXCEPT !.full = OtherFull]
      BY Zenon, <2>2, <2>4 DEF ClientProfiles
    <3> QED
      BY Zenon, <1>1, <2>1, <3>1, <3>2
  <2>6. w.host = h
    BY <2>4, <2>5
  <2> QED
    BY <2>4, <2>6
<1>5. CoverFor(w.host) = CoverFor(cover.host)
  BY Zenon, <1>3, <1>4 DEF CoverFor
<1>6. w.binder = CoverFor(w.host).binder /\ w.ticket = CoverFor(w.host).ticket
  BY DEF Valid
<1>7. cover.binder = CoverFor(cover.host).binder /\ cover.ticket = CoverFor(cover.host).ticket
  BY <1>1 DEF Valid
<1> QED
  BY Zenon, <1>3, <1>4, <1>5, <1>6, <1>7

(* Client draws a hello that can back the shape it chose. *)
LEMMA EmitClient ==
    ASSUME ProbeInv, Client, cover' = cover
    PROVE  EmitInv'
<1>1. PICK capture \in Captures : \E cfg \in Configs(capture) : ClientRefuses(cfg) \/ ClientPicks(cfg)
  BY DEF Client
<1>2. PICK cfg \in Configs(capture) : ClientRefuses(cfg) \/ ClientPicks(cfg)
  BY <1>1
<1>3. CASE ClientRefuses(cfg)
  <2>1. open'.pc = "refused"
    BY <1>3 DEF ClientRefuses
  <2> QED
    BY <2>1 DEF EmitInv, WireIsOurs, LooksLikeChrome, NothingTapped, UsableSurvives, EmittedIsOurs
<1>4. CASE ClientPicks(cfg)
  <2>1. PICK h \in Candidates(cfg) :
           open' = [pc |-> "sni", cfg |-> cfg, full |-> Full(cfg), drawn |-> h, hello |-> h,
                    left |-> 0]
    BY <1>4 DEF ClientPicks
  <2>2. /\ open'.pc = "sni" /\ open'.cfg = cfg /\ open'.full = Full(cfg) /\ open'.drawn = h
        /\ open'.hello = h
    BY <2>1
  <2>3. PICK p \in ClientCovers : \E device \in BOOLEAN, want \in {"resumed", "contacts", "full"},
                                    cred \in Credentials(p) :
           cfg = [pool |-> IF device THEN DevicePool(capture) ELSE capture, device |-> device,
                  want |-> want, cover |-> p, cred |-> cred]
    BY DEF Configs
  <2>4. cfg.cover = p /\ cfg.pool = IF cfg.device THEN DevicePool(capture) ELSE capture
    BY <2>3
  <2>5. Valid(p) /\ cfg.cred.ticket = p.ticket
    BY <1>4, <2>4 DEF ClientPicks, ConfigAccepted
  <2>6. ForCover(cfg)'
    <3>1. /\ p.host \in ClientHosts /\ Lower[p.host] = Lower[cover.host]
          /\ p.binder = cover.binder /\ p.ticket = cover.ticket
      BY <2>5, CoverOf
    <3> QED
      BY Zenon, <2>4, <2>5, <3>1 DEF ForCover
  <2>7. h \in cfg.pool /\ (Full(cfg) => CarriesTicket(h))
    BY Zenon, <2>1 DEF Candidates, FullHandshakeCarriers
  <2>8. IsBrowsers(h) /\ (cfg.device => Untapped(h))
    <3>1. CASE cfg.device
      <4>1. h \in DevicePool(capture)
        BY Zenon, <2>4, <2>7, <3>1
      <4>2. PICK c \in capture : Offered(c) /\ h = Sanitize(c)
        BY Zenon, <4>1 DEF DevicePool
      <4>3. IsBrowsers(c) /\ Has(c, "server_name")
        BY Zenon, <4>2, CaptureAssumption DEF Offered
      <4> QED
        BY <4>2, <4>3, SanitizedIs
    <3>2. CASE ~cfg.device
      BY Zenon, <2>4, <2>7, <3>2, CaptureAssumption
    <3> QED
      BY <3>1, <3>2
  <2>9. Full(cfg) /\ ~CompanionUsable(cfg) => cfg.want = "full"
    BY Zenon DEF Full, Backs, CompanionUsable
  <2>10. Chosen'
    <3>1. ForCover(open.cfg)'
      BY Zenon, <2>2, <2>6 DEF ForCover
    <3> QED
      BY Zenon, <2>2, <2>7, <2>8, <2>9, <3>1 DEF Chosen
  <2>11. Built(open.pc, open.hello, open.drawn, open.cfg.cover.host)'
    BY <2>2 DEF Built
  <2>12. (WireIsOurs /\ LooksLikeChrome /\ NothingTapped /\ UsableSurvives /\ EmittedIsOurs)'
    BY <2>2 DEF WireIsOurs, LooksLikeChrome, NothingTapped, UsableSurvives, EmittedIsOurs
  <2> QED
    BY Zenon, <2>10, <2>11, <2>12 DEF EmitInv
<1> QED
  BY <1>2, <1>3, <1>4

-----------------------------------------------------------------------------
(* Twiddle *)

(* The name and the shares of a hello on its way. *)
LEMMA SharesOnTheWay ==
    ASSUME NEW g, IsBrowsers(g), NEW h, NEW pi, Emitting(h, g, pi)
    PROVE  /\ Has(h, "key_share") <=> Has(g, "key_share")
           /\ Has(g, "key_share") => OurShare(h) = OurShare(g) /\ IsCut(h) = IsCut(g)
<1>1. IsSequence(g.exts) /\ Once(g.exts)
  BY ParsedIs
<1>2. Moved(h.exts, g.exts, pi)
  BY Zenon DEF Emitting
<1>3. (Has(h, "key_share") <=> Has(g, "key_share"))
      /\ (Has(g, "key_share") =>
            /\ Becomes(g.exts[Pos(g, "key_share")], h.exts[Pos(h, "key_share")])
            /\ g.exts[Pos(g, "key_share")][1] = "key_share")
  BY <1>1, <1>2, MovedFind
<1>4. Has(g, "key_share") => SameShares(Find(h, "key_share"), Find(g, "key_share"))
  BY Zenon, <1>3 DEF Becomes, Find
<1> QED
  BY <1>3, <1>4, SharesKept

(* The host is found on the way as SetSNI left it. *)
LEMMA NameOnTheWay ==
    ASSUME NEW g, IsBrowsers(g), Has(g, "server_name"), NEW h, NEW pi, NEW host, NEW group, NEW keys,
           Rewrote(h, g, pi, host, group, keys)
    PROVE  Has(h, "server_name") /\ Find(h, "server_name") = host
<1>1. IsSequence(g.exts) /\ Once(g.exts)
  BY ParsedIs
<1>2. Moved(h.exts, g.exts, pi) /\ Named(h, host)
  BY Zenon DEF Rewrote, Emitting
<1>3. Has(h, "server_name") /\ Pos(h, "server_name") \in DOMAIN h.exts
      /\ h.exts[Pos(h, "server_name")][1] = "server_name"
  BY <1>1, <1>2, MovedFind
<1> QED
  BY Zenon, <1>2, <1>3 DEF Named, Find

(* The ECH extension of a hello on its way. *)
LEMMA ECHOnTheWay ==
    ASSUME NEW g, IsBrowsers(g), NEW h, NEW pi, NEW host, NEW group, NEW keys,
           Rewrote(h, g, pi, host, group, keys), Has(h, "ech")
    PROVE  /\ Has(g, "ech") /\ FreshPayload(Find(h, "ech"))
           /\ Find(g, "ech").form # "short" => Find(h, "ech").form = Find(g, "ech").form
<1>1. IsSequence(g.exts) /\ Once(g.exts)
  BY ParsedIs
<1>2. Moved(h.exts, g.exts, pi) /\ Drawn(h.exts, group, keys)
  BY Zenon DEF Rewrote, Emitting
<1>3. (Has(h, "ech") <=> Has(g, "ech"))
      /\ (Has(g, "ech") =>
            /\ Becomes(g.exts[Pos(g, "ech")], h.exts[Pos(h, "ech")])
            /\ g.exts[Pos(g, "ech")][1] = "ech"
            /\ Pos(h, "ech") \in DOMAIN h.exts /\ h.exts[Pos(h, "ech")][1] = "ech")
  BY <1>1, <1>2, MovedFind
<1>4. FreshPayload(Find(h, "ech"))
  BY Zenon, <1>2, <1>3 DEF Drawn, FreshExt, Find
<1>5. SameECH(Find(h, "ech"), Find(g, "ech"))
  BY Zenon, <1>3 DEF Becomes, Find
<1> QED
  BY Zenon, <1>3, <1>4, <1>5 DEF SameECH

(* The hello without its pre_shared_key. *)
LEMMA StrippedECH ==
    ASSUME NEW h, IsHello(h), IsSequence(h.exts), Once(h.exts), NEW k, k = dropExtension(h, "pre_shared_key")
    PROVE  /\ ~Has(k, "pre_shared_key") /\ (Has(k, "ech") <=> Has(h, "ech"))
           /\ Has(h, "ech") => Find(k, "ech") = Find(h, "ech")
<1>1. k.exts = Without(h.exts, {"pre_shared_key"})
  BY DEF dropExtension, IsHello
<1>2. /\ \A t \in {"pre_shared_key"} : ~Has(k, t)
      /\ \A t : t # "grease" /\ t \notin {"pre_shared_key"} =>
             (Has(k, t) <=> Has(h, t)) /\ (Has(h, t) => Find(k, t) = Find(h, t))
  BY <1>1, WithoutFind
<1> QED
  BY <1>2

(* What is common to the two shapes on the wire. *)
LEMMA SendsEither ==
    ASSUME Chosen, NEW h, NEW g, g = open.drawn, NEW host, host = open.cfg.cover.host,
           Keyed(h, g, host), NEW k, Wired(k, h)
    PROVE  /\ ChromeShape(k) /\ h.random = FreshValue
           /\ open.cfg.device => TappedValue # k.session /\ Clean(k) /\ OneOurs(k)
           /\ Takes => OffersCover(k) /\ KeyShare(k)
<1>1. IsBrowsers(g) /\ (open.cfg.device => Untapped(g)) /\ ForCover(open.cfg)
  BY Zenon DEF Chosen
<1>2. PICK pi, group : Rewrote(h, g, pi, host, group, SentKeys)
  BY Zenon DEF Keyed
<1>3. Has(g, "server_name") /\ CanShuffle(h) /\ OneOurs(h) /\ Has(h, "key_share") /\ OurShare(g) # 0
  BY Zenon DEF Keyed
<1>4. ChromeShape(k)
  BY <1>1, <1>2, <1>3, WireLooks
<1>5. h.random = FreshValue /\ h.suites = g.suites
  BY Zenon, <1>2 DEF Rewrote, Emitting
<1>6. host \in ClientHosts /\ Lower[host] = Lower[cover.host]
  BY Zenon, <1>1 DEF ForCover
<1>7. /\ StillFound(k, h, "server_name") /\ StillFound(k, h, "key_share") /\ k.suites = h.suites
  BY Zenon DEF Wired, AllFound
<1>8. ASSUME open.cfg.device  PROVE TappedValue # k.session /\ Clean(k) /\ OneOurs(k)
  <2>1. host # "visited"
    BY <1>6, TappedNameAssumption
  <2>2. Clean(k) /\ k.session # TappedValue
    BY <1>1, <1>2, <1>8, <2>1, WireClean
  <2>3. OneOurs(k)
    BY Zenon, <1>3, <1>7 DEF OneOurs, Shares, StillFound
  <2> QED
    BY <2>2, <2>3
<1>9. ASSUME Takes  PROVE OffersCover(k) /\ KeyShare(k)
  <2>1. cover.suite \in g.suites /\ FirstShare(g) = OurShare(g)
    BY Zenon, <1>9 DEF Takes
  <2>2. KeyShare(k)
    BY <1>1, <1>2, <1>3, <2>1, WireKey
  <2>3. Has(h, "server_name") /\ Find(h, "server_name") = host
    BY <1>1, <1>2, <1>3, NameOnTheWay
  <2>4. OffersCover(k)
    BY Zenon, <1>5, <1>6, <1>7, <2>1, <2>3 DEF OffersCover, StillFound
  <2> QED
    BY <2>2, <2>4
<1> QED
  BY <1>4, <1>5, <1>8, <1>9

(* A resumed hello is sent. *)
LEMMA SendsResumed ==
    ASSUME Chosen, ~open.full, NEW h, Keyed(h, open.drawn, open.cfg.cover.host), NEW k,
           k = SetTicketAuth(h, Ticket("psk", open.cfg.cred.ticket), open.cfg.cover.binder)
    PROVE  WireFacts(k)
<1>1. PICK g, host, ticket, len : /\ g = open.drawn /\ host = open.cfg.cover.host
                                  /\ ticket = Ticket("psk", open.cfg.cred.ticket)
                                  /\ len = open.cfg.cover.binder
  OBVIOUS
<1>2. IsBrowsers(g) /\ ForCover(open.cfg) /\ Keyed(h, g, host) /\ k = SetTicketAuth(h, ticket, len)
  BY Zenon, <1>1 DEF Chosen
<1>3. IsHello(h) /\ IsSequence(h.exts) /\ Once(h.exts) /\ CanShuffle(h)
  <2>1. PICK pi, group : Rewrote(h, g, pi, host, group, SentKeys)
    BY Zenon, <1>2 DEF Keyed
  <2>2. IsHello(h) /\ Moved(h.exts, g.exts, pi)
    BY Zenon, <2>1 DEF Rewrote, Emitting
  <2>3. IsSequence(g.exts) /\ Once(g.exts)
    BY <1>2, ParsedIs
  <2>4. Once(h.exts)
    BY <2>2, <2>3, MovedOnce
  <2> QED
    BY Zenon, <1>2, <2>2, <2>4 DEF Moved, Keyed
<1>4. /\ Wired(k, h) /\ Has(k, "pre_shared_key") /\ k.random = h.random
      /\ Find(k, "pre_shared_key").ticket = ticket
      /\ Find(k, "pre_shared_key").binder[2] = len
      /\ KeyShare(k) => VerifyTicketAuth(k)
  BY <1>2, <1>3, ResumedWire
<1>5. /\ ChromeShape(k) /\ h.random = FreshValue
      /\ open.cfg.device => TappedValue # k.session /\ Clean(k) /\ OneOurs(k)
      /\ Takes => OffersCover(k) /\ KeyShare(k)
  BY <1>1, <1>2, <1>4, SendsEither
<1>6. TappedValue # FreshValue
  BY DEF TappedValue, FreshValue
<1>7. ticket.len = cover.ticket /\ len = cover.binder
  <2>1. open.cfg.cred.ticket = cover.ticket /\ open.cfg.cover.binder = cover.binder
    BY Zenon, <1>2 DEF ForCover
  <2> QED
    BY <1>1, <2>1 DEF Ticket
<1>8. ASSUME Takes  PROVE ValidClientHello(k) /\ Authentic(k)
  BY Zenon, <1>4, <1>5, <1>7, <1>8 DEF ValidClientHello, Authentic
<1>9. Has(k, "pre_shared_key") <=> ~open.full
  BY Zenon, <1>4
<1>10. open.cfg.device => TappedValue \notin {k.random, k.session} /\ Clean(k) /\ OneOurs(k)
  BY <1>4, <1>5, <1>6
<1> QED
  BY Zenon, <1>5, <1>8, <1>9, <1>10 DEF WireFacts

(* A full hello is sent. *)
LEMMA SendsFull ==
    ASSUME Chosen, open.full, NEW h, Keyed(h, open.drawn, open.cfg.cover.host),
           CarriesTicket(dropExtension(h, "pre_shared_key")), NEW ticket, NEW k,
           k = SetECHTicketAuth(dropExtension(h, "pre_shared_key"), ticket)
    PROVE  WireFacts(k)
<1>1. PICK g, host : g = open.drawn /\ host = open.cfg.cover.host
  OBVIOUS
<1>2. IsBrowsers(g) /\ Keyed(h, g, host)
  BY Zenon, <1>1 DEF Chosen
<1>3. PICK pi, group : Rewrote(h, g, pi, host, group, SentKeys)
  BY Zenon, <1>2 DEF Keyed
<1>4. IsHello(h) /\ IsSequence(h.exts) /\ Once(h.exts) /\ CanShuffle(h)
  <2>2. IsHello(h) /\ Moved(h.exts, g.exts, pi)
    BY Zenon, <1>3 DEF Rewrote, Emitting
  <2>3. IsSequence(g.exts) /\ Once(g.exts)
    BY <1>2, ParsedIs
  <2>4. Once(h.exts)
    BY <2>2, <2>3, MovedOnce
  <2> QED
    BY Zenon, <1>2, <2>2, <2>4 DEF Moved, Keyed
<1>5. Has(h, "ech") /\ Find(h, "ech").form = "outer"
  <2>1. PICK w : w = dropExtension(h, "pre_shared_key")
    OBVIOUS
  <2>2. (Has(w, "ech") <=> Has(h, "ech")) /\ (Has(h, "ech") => Find(w, "ech") = Find(h, "ech"))
    BY <1>4, <2>1, StrippedECH
  <2> QED
    BY Zenon, <2>1, <2>2 DEF CarriesTicket
<1>6. FreshPayload(Find(h, "ech"))
  BY <1>2, <1>3, <1>5, ECHOnTheWay
<1>7. /\ Wired(k, h) /\ ~Has(k, "pre_shared_key") /\ k.random # TappedValue
      /\ CarriesTicket(k)
      /\ KeyShare(k) => VerifyECHTicketAuth(k)
  BY <1>4, <1>5, <1>6, FullWire
<1>8. /\ ChromeShape(k)
      /\ open.cfg.device => TappedValue # k.session /\ Clean(k) /\ OneOurs(k)
      /\ Takes => OffersCover(k) /\ KeyShare(k)
  BY <1>1, <1>2, <1>7, SendsEither
<1>9. ASSUME Takes  PROVE ValidClientHello(k) /\ Authentic(k)
  <2>1. CanEmitFullHandshake(cover)
    BY Zenon, <1>9 DEF Takes
  <2> QED
    BY Zenon, <1>7, <1>8, <1>9, <2>1 DEF ValidClientHello, Authentic
<1>10. open.cfg.device => TappedValue \notin {k.random, k.session} /\ Clean(k) /\ OneOurs(k)
  BY <1>7, <1>8
<1> QED
  BY Zenon, <1>7, <1>8, <1>9, <1>10 DEF WireFacts

(* One step of Twiddle. *)
LEMMA EmitTwiddle ==
    ASSUME OpenInv, EmitInv, Twiddle, cover' = cover
    PROVE  EmitInv'
<1>1. PICK h, g, host : h = open.hello /\ g = open.drawn /\ host = open.cfg.cover.host
  OBVIOUS
<1>2. \E pc \in {"sni", "rerandomize", "shuffle", "keyshare", "auth"} : \E k : Step(pc, k)
  BY Zenon DEF Twiddle
<1>3. open.pc \in {"sni", "rerandomize", "shuffle", "keyshare", "auth"}
  BY Zenon, <1>2 DEF Step
<1>4. Chosen /\ Built(open.pc, h, g, host) /\ DOMAIN open = OpenFields
  BY <1>1, <1>3 DEF EmitInv, OpenInv, InProgress
<1>5. IsBrowsers(g)
  BY Zenon, <1>1, <1>4 DEF Chosen
<1>6. ASSUME NEW pc, NEW k, Step(pc, k)
      PROVE  /\ open.pc = pc /\ StepOK(pc) /\ Kept /\ open'.hello = k /\ open'.pc = After(pc)
  <2>1. open.pc = pc /\ StepOK(pc) /\ open' = [open EXCEPT !.pc = After(pc), !.hello = k]
    BY Zenon, <1>6 DEF Step
  <2> QED
    BY <1>4, <2>1 DEF OpenFields, Kept
<1>7. CASE Step("sni", SetSNI(open.hello, open.cfg.cover.host))
  <2>1. PICK k : k = SetSNI(h, host)
    OBVIOUS
  <2>2. Step("sni", k)
    BY Zenon, <1>1, <1>7, <2>1
  <2>3. open.pc = "sni" /\ StepOK("sni") /\ Kept /\ open'.hello = k /\ open'.pc = After("sni")
    BY <1>6, <2>2
  <2>4. After("sni") = "rerandomize"
    BY DEF After
  <2>5. Has(h, "server_name")
    BY <1>1, <2>3 DEF StepOK
  <2>6. h = g
    BY Zenon, <1>4, <2>3 DEF Built
  <2>7. Built("rerandomize", k, g, host)
    BY <2>1, <2>5, <2>6 DEF Built
  <2> QED
    BY <1>1, <1>4, <2>3, <2>4, <2>7, EmitBuilds
<1>8. CASE \E d \in Draws(open.hello) : Step("rerandomize", Rerandomize(open.hello, d))
  <2>1. PICK d \in Draws(h) : Step("rerandomize", Rerandomize(h, d))
    BY Zenon, <1>1, <1>8
  <2>2. PICK k : k = Rerandomize(h, d)
    OBVIOUS
  <2>3. Step("rerandomize", k)
    BY Zenon, <2>1, <2>2
  <2>4. open.pc = "rerandomize" /\ Kept /\ open'.hello = k /\ open'.pc = After("rerandomize")
    BY <1>6, <2>3
  <2>5. After("rerandomize") = "shuffle"
    BY DEF After
  <2>6. Has(g, "server_name") /\ h = SetSNI(g, host)
    BY Zenon, <1>4, <2>4 DEF Built
  <2>7. Rewrote(k, g, Id(Len(g.exts)), host, d.group, {FreshValue, ZeroValue})
    BY <1>5, <2>1, <2>2, <2>6, AfterRerandomize
  <2>8. Rerandomized(k, g, host)
    BY Zenon, <2>6, <2>7 DEF Rerandomized
  <2>9. Built("shuffle", k, g, host)
    BY <2>8 DEF Built
  <2> QED
    BY <1>1, <1>4, <2>4, <2>5, <2>9, EmitBuilds
<1>9. CASE \E perm \in Bijection(Interior(open.hello), Interior(open.hello)) :
              Step("shuffle", Shuffle(open.hello, perm))
  <2>1. PICK perm \in Bijection(Interior(h), Interior(h)) : Step("shuffle", Shuffle(h, perm))
    BY Zenon, <1>1, <1>9
  <2>2. PICK k : k = Shuffle(h, perm)
    OBVIOUS
  <2>3. Step("shuffle", k)
    BY Zenon, <2>1, <2>2
  <2>4. /\ open.pc = "shuffle" /\ StepOK("shuffle") /\ Kept /\ open'.hello = k
        /\ open'.pc = After("shuffle")
    BY <1>6, <2>3
  <2>5. After("shuffle") = "keyshare"
    BY DEF After
  <2>6. CanShuffle(h)
    BY <1>1, <2>4 DEF StepOK
  <2>7. Rerandomized(h, g, host)
    BY Zenon, <1>4, <2>4 DEF Built
  <2>8. PICK group : Rewrote(h, g, Id(Len(g.exts)), host, group, {FreshValue, ZeroValue})
    BY Zenon, <2>7 DEF Rerandomized
  <2>9. CanShuffle(k) /\ \E pi : Rewrote(k, g, pi, host, group, {FreshValue, ZeroValue})
    BY <1>5, <2>1, <2>2, <2>6, <2>8, AfterShuffle
  <2>10. Shuffled(k, g, host)
    BY Zenon, <2>7, <2>9 DEF Shuffled, Rerandomized
  <2>11. Built("keyshare", k, g, host)
    BY <2>10 DEF Built
  <2> QED
    BY <1>1, <1>4, <2>4, <2>5, <2>11, EmitBuilds
<1>10. CASE Step("keyshare", SetKeyShare(open.hello))
  <2>1. PICK k : k = SetKeyShare(h)
    OBVIOUS
  <2>2. Step("keyshare", k)
    BY Zenon, <1>1, <1>10, <2>1
  <2>3. /\ open.pc = "keyshare" /\ StepOK("keyshare") /\ Kept /\ open'.hello = k
        /\ open'.pc = After("keyshare")
    BY <1>6, <2>2
  <2>4. After("keyshare") = "auth"
    BY DEF After
  <2>5. CanSetKeyShare(h)
    BY <1>1, <2>3 DEF StepOK
  <2>6. Shuffled(h, g, host)
    BY Zenon, <1>4, <2>3 DEF Built
  <2>7. PICK pi, group : Rewrote(h, g, pi, host, group, {FreshValue, ZeroValue})
    BY Zenon, <2>6 DEF Shuffled
  <2>8. CanShuffle(h) /\ Has(g, "server_name")
    BY Zenon, <2>6 DEF Shuffled
  <2>9. /\ Rewrote(k, g, pi, host, group, SentKeys)
        /\ CanShuffle(k) /\ OneOurs(k) /\ Has(k, "key_share")
    <3>1. /\ Rewrote(k, g, pi, host, group, {FreshValue, ZeroValue, OurKey})
          /\ CanShuffle(k) /\ OneOurs(k) /\ Has(k, "key_share")
      BY <1>5, <2>1, <2>5, <2>7, <2>8, AfterSetKeyShare
    <3> QED
      BY Zenon, <3>1 DEF SentKeys
  <2>10. OurShare(g) # 0
    <3>1. Emitting(h, g, pi)
      BY Zenon, <2>7 DEF Rewrote
    <3>2. (Has(h, "key_share") <=> Has(g, "key_share")) /\ (Has(g, "key_share") => OurShare(h) = OurShare(g))
      BY <1>5, <3>1, SharesOnTheWay
    <3> QED
      BY Zenon, <2>5, <3>2 DEF CanSetKeyShare
  <2>11. Keyed(k, g, host)
    BY Zenon, <2>8, <2>9, <2>10 DEF Keyed
  <2>12. Built("auth", k, g, host)
    BY <2>11 DEF Built
  <2> QED
    BY <1>1, <1>4, <2>3, <2>4, <2>12, EmitBuilds
<1>11. CASE Step("auth", Authenticated)
  <2>1. PICK k : k = Authenticated
    OBVIOUS
  <2>2. Step("auth", k)
    BY Zenon, <1>11, <2>1
  <2>3. open.pc = "auth" /\ StepOK("auth") /\ Kept /\ open'.hello = k /\ open'.pc = After("auth")
    BY <1>6, <2>2
  <2>4. After("auth") = "wire"
    BY DEF After
  <2>5. Keyed(h, open.drawn, open.cfg.cover.host)
    BY Zenon, <1>1, <1>4, <2>3 DEF Built
  <2>6. WireFacts(k)
    <3>1. CASE open.full
      <4>1. CanSetECHTicketAuth(Template)
        BY <2>3, <3>1 DEF StepOK
      <4>2. Template = dropExtension(h, "pre_shared_key")
        BY Zenon, <1>1, <3>1 DEF Template
      <4>3. CarriesTicket(dropExtension(h, "pre_shared_key"))
        BY Zenon, <4>1, <4>2 DEF CanSetECHTicketAuth
      <4>4. PICK ticket : ticket = Ticket("psk", open.cfg.cred.companion)
        OBVIOUS
      <4>5. k = SetECHTicketAuth(dropExtension(h, "pre_shared_key"), ticket)
        BY Zenon, <2>1, <3>1, <4>2, <4>4 DEF Authenticated
      <4> QED
        BY <1>4, <2>5, <3>1, <4>3, <4>5, SendsFull
    <3>2. CASE ~open.full
      <4>1. Template = h
        BY Zenon, <1>1, <3>2 DEF Template
      <4>2. k = SetTicketAuth(h, Ticket("psk", open.cfg.cred.ticket), open.cfg.cover.binder)
        BY Zenon, <2>1, <3>2, <4>1 DEF Authenticated
      <4> QED
        BY <1>4, <2>5, <3>2, <4>2, SendsResumed
    <3> QED
      BY <3>1, <3>2
  <2> QED
    BY <1>4, <2>3, <2>4, <2>6, EmitSends
<1> QED
  BY Zenon, <1>7, <1>8, <1>9, <1>10, <1>11 DEF Twiddle

(* A redrawn hello ends as the one that was drawn. *)
LEMMA UsableShuffles ==
    ASSUME NEW g, IsBrowsers(g), Usable(g), NEW h, NEW host, Rerandomized(h, g, host)
    PROVE  CanShuffle(h)
<1>1. PICK group : Rewrote(h, g, Id(Len(g.exts)), host, group, {FreshValue, ZeroValue})
  BY Zenon DEF Rerandomized
<1>2. Moved(h.exts, g.exts, Id(Len(g.exts)))
  BY Zenon, <1>1 DEF Rewrote, Emitting
<1>3. PICK n, s, r : n = Len(g.exts) /\ s = h.exts /\ r = g.exts
  OBVIOUS
<1>4. IsSequence(r)
  BY <1>3, ParsedIs
<1>5. Moved(s, r, Id(n)) /\ n = Len(r)
  BY Zenon, <1>2, <1>3
<1>6. n \in Nat /\ DOMAIN s = 1 .. n /\ DOMAIN r = 1 .. n /\ IsSequence(s) /\ Come(s, r, Id(n), n)
  BY <1>4, <1>5, MovedIs
<1>7. Len(s) = n
  BY Zenon, <1>5 DEF Moved
<1>8. n >= 3 /\ r[1][1] = "grease" /\ r[n][1] = "grease"
  <2>1. n >= 3 /\ IsGREASE(Head(r)) /\ IsGREASE(Last(r))
    BY Zenon, <1>3 DEF Usable
  <2>2. Head(r) = r[1] /\ Last(r) = r[n]
    BY <1>4, <1>5, <1>6, <2>1 DEF Last, IsSequence
  <2> QED
    BY Zenon, <2>1, <2>2 DEF IsGREASE
<1>9. \A i \in 1 .. n : s[i][1] = r[i][1]
  <2>1. \A i \in 1 .. n : Id(n)[i] = i
    BY DEF Id
  <2> SUFFICES ASSUME NEW i \in 1 .. n  PROVE s[i][1] = r[i][1]
    OBVIOUS
  <2>2. Becomes(r[Id(n)[i]], s[i]) /\ Id(n)[i] = i
    BY Zenon, <1>6, <2>1 DEF Come
  <2>3. Becomes(r[i], s[i])
    BY <2>2
  <2> QED
    BY Zenon, <2>3 DEF Becomes
<1>10. 1 \in 1 .. n /\ n \in 1 .. n
  BY <1>6, <1>8
<1>11. s[1][1] = "grease" /\ s[n][1] = "grease"
  BY Zenon, <1>8, <1>9, <1>10
<1>12. Last(s) = s[n] /\ Head(s) = s[1]
  BY <1>6, <1>7, <1>8 DEF Last, IsSequence
<1>13. Pinned(h) = 1
  <2>1. Last(h.exts)[1] = "grease"
    BY Zenon, <1>3, <1>11, <1>12
  <2> QED
    BY <2>1 DEF Pinned
<1>14. Len(h.exts) + 1 - Pinned(h) = n
  BY <1>3, <1>6, <1>7, <1>13
<1> QED
  BY Zenon, <1>3, <1>7, <1>8, <1>11, <1>12, <1>14 DEF CanShuffle, IsGREASE

(* A hello drawn for a full handshake can carry the ticket when it is      *)
(* authenticated.                                                          *)
LEMMA StillCarries ==
    ASSUME NEW g, IsBrowsers(g), CarriesTicket(g), NEW h, NEW host, Keyed(h, g, host)
    PROVE  CanSetECHTicketAuth(dropExtension(h, "pre_shared_key"))
<1>1. PICK pi, group : Rewrote(h, g, pi, host, group, SentKeys)
  BY Zenon DEF Keyed
<1>2. IsHello(h) /\ Moved(h.exts, g.exts, pi)
  BY Zenon, <1>1 DEF Rewrote, Emitting
<1>3. IsSequence(g.exts) /\ Once(g.exts)
  BY ParsedIs
<1>4. Once(h.exts) /\ (Has(h, "ech") <=> Has(g, "ech"))
  BY <1>2, <1>3, MovedOnce, MovedFind
<1>5. IsSequence(h.exts)
  BY Zenon, <1>2 DEF Moved
<1>6. Has(g, "ech") /\ Find(g, "ech").form = "outer"
  BY Zenon DEF CarriesTicket
<1>7. Has(h, "ech")
  BY <1>4, <1>6
<1>8. /\ FreshPayload(Find(h, "ech"))
      /\ Find(g, "ech").form # "short" => Find(h, "ech").form = Find(g, "ech").form
  BY <1>1, <1>7, ECHOnTheWay
<1>9. PICK e : e = Find(h, "ech")
  OBVIOUS
<1>10. e.form = "outer" /\ FreshPayload(e)
  BY <1>6, <1>8, <1>9
<1>11. e.len >= FullTicketLen
  BY <1>10 DEF FreshPayload, echGREASELengths, FullTicketLen
<1>12. PICK k : k = dropExtension(h, "pre_shared_key")
  OBVIOUS
<1>13. /\ ~Has(k, "pre_shared_key") /\ (Has(k, "ech") <=> Has(h, "ech"))
       /\ Has(h, "ech") => Find(k, "ech") = Find(h, "ech")
  BY <1>2, <1>4, <1>5, <1>12, StrippedECH
<1> QED
  BY Zenon, <1>7, <1>9, <1>10, <1>11, <1>12, <1>13 DEF CanSetECHTicketAuth, CarriesTicket

(* Twiddle refuses a hello that passes Usable only for its key share, or a *)
(* full handshake for its credential.                                      *)
LEMMA EmitFails ==
    ASSUME OpenInv, EmitInv, TwiddleFails, cover' = cover
    PROVE  EmitInv'
<1>1. PICK h, g, host : h = open.hello /\ g = open.drawn /\ host = open.cfg.cover.host
  OBVIOUS
<1>2. /\ open.pc \in {"sni", "rerandomize", "shuffle", "keyshare", "auth"} /\ ~StepOK(open.pc)
      /\ open' = [open EXCEPT !.pc = "unemitted"]
  BY Zenon DEF TwiddleFails
<1>3. Chosen /\ Built(open.pc, h, g, host) /\ DOMAIN open = OpenFields
  BY <1>1, <1>2 DEF EmitInv, OpenInv, InProgress
<1>4. IsBrowsers(g)
  BY Zenon, <1>1, <1>3 DEF Chosen
<1>5. Kept /\ open'.pc = "unemitted"
  BY <1>2, <1>3 DEF Kept, OpenFields
<1>6. ASSUME Usable(g)
      PROVE  \/ ~CanSetKeyShare(g) \/ IsCut(g)
             \/ open.cfg.want = "full" /\ ~CompanionUsable(open.cfg)
  <2>1. CASE open.pc = "sni"
    <3>1. h = g
      BY Zenon, <1>3, <2>1 DEF Built
    <3>2. ~Has(h, "server_name")
      BY <1>1, <1>2, <2>1 DEF StepOK
    <3> QED
      BY Zenon, <1>6, <3>1, <3>2 DEF Usable
  <2>2. CASE open.pc = "rerandomize"
    <3>1. Has(g, "server_name") /\ h = SetSNI(g, host)
      BY Zenon, <1>3, <2>2 DEF Built
    <3>2. Emitting(h, g, Id(Len(g.exts)))
      BY <1>4, <3>1, AfterSetSNI
    <3>3. /\ Has(h, "key_share") <=> Has(g, "key_share")
          /\ Has(g, "key_share") => IsCut(h) = IsCut(g)
      BY <1>4, <3>2, SharesOnTheWay
    <3>4. ~CanRerandomize(h)
      BY <1>1, <1>2, <2>2 DEF StepOK
    <3> QED
      BY Zenon, <3>3, <3>4 DEF CanRerandomize
  <2>3. CASE open.pc = "shuffle"
    <3>1. Rerandomized(h, g, host)
      BY Zenon, <1>3, <2>3 DEF Built
    <3>2. CanShuffle(h)
      BY <1>4, <1>6, <3>1, UsableShuffles
    <3> QED
      BY <1>1, <1>2, <2>3, <3>2 DEF StepOK
  <2>4. CASE open.pc = "keyshare"
    <3>1. Shuffled(h, g, host)
      BY Zenon, <1>3, <2>4 DEF Built
    <3>2. PICK pi : Emitting(h, g, pi)
      BY Zenon, <3>1 DEF Shuffled, Rewrote
    <3>3. /\ Has(h, "key_share") <=> Has(g, "key_share")
          /\ Has(g, "key_share") => OurShare(h) = OurShare(g)
      BY <1>4, <3>2, SharesOnTheWay
    <3>4. ~CanSetKeyShare(h)
      BY <1>1, <1>2, <2>4 DEF StepOK
    <3> QED
      BY Zenon, <3>3, <3>4 DEF CanSetKeyShare
  <2>5. CASE open.pc = "auth"
    <3>1. Keyed(h, g, host)
      BY Zenon, <1>3, <2>5 DEF Built
    <3>2. open.full /\ ~(CompanionUsable(open.cfg) /\ CanSetECHTicketAuth(Template))
      BY <1>2, <2>5 DEF StepOK
    <3>3. CarriesTicket(g)
      BY Zenon, <1>1, <1>3, <3>2 DEF Chosen
    <3>4. CanSetECHTicketAuth(dropExtension(h, "pre_shared_key"))
      BY <1>4, <3>1, <3>3, StillCarries
    <3>5. ~CompanionUsable(open.cfg)
      BY Zenon, <1>1, <3>2, <3>4 DEF Template
    <3>6. open.cfg.want = "full"
      BY Zenon, <1>3, <3>2, <3>5 DEF Chosen
    <3> QED
      BY <3>5, <3>6
  <2> QED
    BY <1>2, <2>1, <2>2, <2>3, <2>4, <2>5
<1>7. UsableSurvives'
  BY Zenon, <1>1, <1>5, <1>6 DEF UsableSurvives, Kept
<1>8. EmittedIsOurs'
  BY <1>5 DEF EmittedIsOurs
<1> QED
  BY <1>3, <1>5, <1>7, <1>8, EmitReads

-----------------------------------------------------------------------------
(* Server *)

(* The egress reads the hello. *)
LEMMA EmitServerReads ==
    ASSUME OpenInv, EmitInv, ServerReads, cover' = cover
    PROVE  EmitInv'
<1>1. open.pc = "wire"
  BY Zenon DEF ServerReads
<1>2. Chosen /\ DOMAIN open = OpenFields /\ WireIsOurs
  BY <1>1 DEF EmitInv, OpenInv, InProgress
<1>3. PICK pc : pc = IF ValidClientHello(open.hello) /\ Authentic(open.hello) THEN "spent" ELSE "notours"
  OBVIOUS
<1>4. open' = [open EXCEPT !.pc = pc]
  BY Zenon, <1>3 DEF ServerReads
<1>5. Kept /\ open'.pc = pc
  BY <1>2, <1>4 DEF Kept, OpenFields
<1>6. pc \in {"spent", "notours"}
  BY <1>3
<1>7. pc = "notours" => ~Takes
  <2>1. pc = "notours" => ~(ValidClientHello(open.hello) /\ Authentic(open.hello))
    BY <1>3
  <2> QED
    BY Zenon, <1>1, <1>2, <2>1 DEF WireIsOurs
<1>8. EmittedIsOurs'
  BY Zenon, <1>5, <1>7 DEF EmittedIsOurs, Kept, Takes
<1>9. UsableSurvives'
  BY <1>5, <1>6 DEF UsableSurvives
<1> QED
  BY <1>2, <1>5, <1>6, <1>8, <1>9, EmitReads

(* The egress answers, and the client finishes. *)
LEMMA EmitServer ==
    ASSUME OpenInv, EmitInv, ServerAnswers \/ ServerWritesRemainder \/ ClientFinishes, cover' = cover
    PROVE  EmitInv'
<1>1. open.pc \in {"spent", "remainder"}
  BY Zenon DEF ServerAnswers, ServerWritesRemainder, ClientFinishes
<1>2. Chosen /\ DOMAIN open = OpenFields
  BY <1>1 DEF EmitInv, OpenInv, InProgress
<1>3. /\ \A x, y : [open EXCEPT !.pc = x, !.left = y].pc = x
      /\ \A x : [open EXCEPT !.pc = x].pc = x /\ [open EXCEPT !.left = x].pc = open.pc
  BY <1>2 DEF OpenFields
<1>4. Kept
  <2>1. \/ \E x, y : open' = [open EXCEPT !.pc = x, !.left = y]
        \/ \E x : open' = [open EXCEPT !.pc = x]
        \/ \E y : open' = [open EXCEPT !.left = y]
    BY DEF ServerAnswers, ServerWritesRemainder, ClientFinishes
  <2>2. CASE \E x, y : open' = [open EXCEPT !.pc = x, !.left = y]
    BY <1>2, <2>2 DEF Kept, OpenFields
  <2>3. CASE \E x : open' = [open EXCEPT !.pc = x]
    BY <1>2, <2>3 DEF Kept, OpenFields
  <2>4. CASE \E y : open' = [open EXCEPT !.left = y]
    BY <1>2, <2>4 DEF Kept, OpenFields
  <2> QED
    BY <2>1, <2>2, <2>3, <2>4
<1>5. open'.pc \in {"remainder", "broken", "complete"}
  <2>1. CASE ServerAnswers
    BY <1>3, <2>1 DEF ServerAnswers
  <2>2. CASE ServerWritesRemainder
    BY <1>3, <2>2 DEF ServerWritesRemainder
  <2>3. CASE ClientFinishes
    BY <1>3, <2>3 DEF ClientFinishes
  <2> QED
    BY <2>1, <2>2, <2>3
<1>6. (UsableSurvives /\ EmittedIsOurs)'
  BY <1>5 DEF UsableSurvives, EmittedIsOurs
<1> QED
  BY <1>2, <1>4, <1>5, <1>6, EmitReads

-----------------------------------------------------------------------------
(* The specification *)

(* Nothing is asked of an egress without an opening. *)
LEMMA EmitNothing ==
    ASSUME open = NoOpening
    PROVE  EmitInv
<1>1. open.pc = "idle"
  BY DEF NoOpening
<1> QED
  BY <1>1 DEF EmitInv, WireIsOurs, LooksLikeChrome, NothingTapped, UsableSurvives, EmittedIsOurs

(* The opening is over. *)
LEMMA EmitEnds ==
    ASSUME open' = NoOpening
    PROVE  EmitInv'
<1>1. open'.pc = "idle"
  BY DEF NoOpening
<1> QED
  BY <1>1 DEF EmitInv, WireIsOurs, LooksLikeChrome, NothingTapped, UsableSurvives, EmittedIsOurs

(* A step that does not touch the opening and the profile. *)
LEMMA EmitStutters ==
    ASSUME EmitInv, open' = open, cover' = cover
    PROVE  EmitInv'
<1>1. Chosen => Chosen'
  BY Zenon DEF Chosen, ForCover
<1>2. WireIsOurs => WireIsOurs'
  BY Zenon DEF WireIsOurs, Takes, ValidClientHello, OffersCover
<1>3. EmittedIsOurs => EmittedIsOurs'
  BY Zenon DEF EmittedIsOurs
<1>4. LooksLikeChrome' /\ NothingTapped' /\ UsableSurvives'
  BY Zenon DEF EmitInv, LooksLikeChrome, NothingTapped, UsableSurvives
<1> QED
  BY Zenon, <1>1, <1>2, <1>3, <1>4 DEF EmitInv

(* No step breaks the invariant. *)
LEMMA EmitStep ==
    ProbeInv /\ OpenInv /\ EmitInv /\ [OpeningNext]_openingVars => EmitInv'
<1> SUFFICES ASSUME ProbeInv, OpenInv, EmitInv, [OpeningNext]_openingVars  PROVE EmitInv'
  OBVIOUS
<1>1. CASE open = NoOpening /\ open' = open
  BY <1>1, EmitEnds
<1>2. CASE UNCHANGED probeVars /\ (Client \/ Twiddle \/ TwiddleFails \/ ServerReads)
  <2>1. cover' = cover
    BY <1>2, ProbeKept
  <2> QED
    BY <1>2, <2>1, EmitClient, EmitTwiddle, EmitFails, EmitServerReads
<1>3. CASE UNCHANGED probeVars /\ (ServerAnswers \/ ServerWritesRemainder \/ ClientFinishes)
  BY <1>3, ProbeKept, EmitServer
<1>4. CASE NextOpening
  BY <1>4, EmitEnds DEF NextOpening
<1>5. CASE UNCHANGED openingVars
  <2>1. open' = open /\ cover' = cover
    BY <1>5 DEF openingVars, probeVars
  <2> QED
    BY <2>1, EmitStutters
<1> QED
  BY Zenon, <1>1, <1>2, <1>3, <1>4, <1>5 DEF OpeningNext

(* The invariant of an opening. *)
LEMMA EmitInvariant == OpeningSpec => []EmitInv
<1>1. OpeningInit => OpenInv /\ EmitInv
  BY EmitNothing DEF OpeningInit, NoOpening, OpenInv
<1>2. ProbeInv /\ OpenInv /\ [OpeningNext]_openingVars => OpenInv'
  BY OpenStep
<1>3. ProbeInv /\ OpenInv /\ EmitInv /\ [OpeningNext]_openingVars => EmitInv'
  BY EmitStep
<1> QED
  BY <1>1, <1>2, <1>3, ProbeInvariant, PTL DEF OpeningSpec

(* A hello that passes Usable is refused by Twiddle only for its key_share *)
(* or, where a full handshake was asked for, for a credential that cannot  *)
(* open one: whatever was tapped, no pool entry is admitted that Twiddle   *)
(* would refuse for its layout (source.go:256-264, handshake.go:137-146).  *)
THEOREM UsableHellosSurvive == OpeningSpec => []UsableSurvives
<1>1. EmitInv => UsableSurvives
  BY DEF EmitInv
<1> QED
  BY <1>1, EmitInvariant, PTL

(* Server takes every hello that Twiddle emits for it, but for one that    *)
(* lacks the cover's suite, one whose first X25519 entry is not a key and  *)
(* a full one to an egress that was never probed (twiddle.go:416-433).     *)
THEOREM EmittedHellosAreOurs == OpeningSpec => []EmittedIsOurs
<1>1. EmitInv => EmittedIsOurs
  BY DEF EmitInv
<1> QED
  BY <1>1, EmitInvariant, PTL

(* Every emitted hello has two GREASE ends of two codepoints, a            *)
(* pre_shared_key behind them exactly when it resumes, and GREASE shares   *)
(* only of a group that it offers (twiddle.go:190-215).                    *)
THEOREM EmissionsLookLikeChrome == OpeningSpec => []LooksLikeChrome
<1>1. EmitInv => LooksLikeChrome
  BY DEF EmitInv
<1> QED
  BY <1>1, EmitInvariant, PTL

(* A hello emitted from the device pool carries nothing of the connection  *)
(* it was tapped from, and one key of the client                           *)
(* (source.go:294-316, harvester.go:86-90).                                *)
THEOREM NothingTappedIsEmitted == OpeningSpec => []NothingTapped
<1>1. EmitInv => NothingTapped
  BY DEF EmitInv
<1> QED
  BY <1>1, EmitInvariant, PTL

(* Up to the authenticator a hello has the contributionKey of the entry it *)
(* was drawn from, whatever was drawn and however it was shuffled, unless  *)
(* the entry has an ECH extension cut before its suite                     *)
(* (harvester.go:249-254).                                                 *)
THEOREM KeysSurviveEmitter == OpeningSpec => []KeySurvivesEmitter
<1>1. EmitInv => KeySurvivesEmitter
  <2> SUFFICES ASSUME EmitInv, open.pc \in {"rerandomize", "shuffle", "keyshare", "auth"}
               PROVE  \/ canonicalForm(open.hello) = canonicalForm(open.drawn)
                      \/ Has(open.drawn, "ech") /\ Find(open.drawn, "ech").form = "short"
    BY Zenon DEF KeySurvivesEmitter
  <2>1. PICK h, g, host : h = open.hello /\ g = open.drawn /\ host = open.cfg.cover.host
    OBVIOUS
  <2>2. Chosen /\ Built(open.pc, h, g, host)
    BY <2>1 DEF EmitInv
  <2>3. IsBrowsers(g)
    BY Zenon, <2>1, <2>2 DEF Chosen
  <2>4. CASE open.pc = "rerandomize"
    <3>1. Has(g, "server_name") /\ h = SetSNI(g, host)
      BY Zenon, <2>2, <2>4 DEF Built
    <3>2. Emitting(h, g, Id(Len(g.exts)))
      BY <2>3, <3>1, AfterSetSNI
    <3> QED
      BY <2>1, <2>3, <3>2, KeyKept
  <2>5. CASE open.pc \in {"shuffle", "keyshare", "auth"}
    <3>1. Rerandomized(h, g, host) \/ Shuffled(h, g, host) \/ Keyed(h, g, host)
      BY <2>2, <2>5 DEF Built
    <3>2. PICK pi : Emitting(h, g, pi)
      BY Zenon, <3>1 DEF Rerandomized, Shuffled, Keyed, Rewrote
    <3> QED
      BY <2>1, <2>3, <3>2, KeyKept
  <2> QED
    BY <2>4, <2>5
<1> QED
  BY <1>1, EmitInvariant, PTL
=============================================================================
