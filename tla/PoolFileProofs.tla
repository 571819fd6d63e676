--------------------------- MODULE PoolFileProofs ---------------------------
(***************************************************************************)
(* Proofs about the device pool and its file: what largestBuild and        *)
(* NewHarvester compute, by induction over their loops; the pool of one    *)
(* build; for any number of overlapping calls of Offer the pool in memory  *)
(* and the bounds; and for one call at a time the pool file.               *)
(***************************************************************************)
EXTENDS PoolFile, NatLemmas, FiniteSetTheorems, SequenceTheorems

(* The places of a sequence that hold a hello of a group. *)
Of(s, fp) == {i \in 1 .. Len(s) : Fingerprint(s[i]) = fp}

-----------------------------------------------------------------------------
(* largestBuild *)

(* The values that the loop over the hellos goes through. *)
GroupsOf(f, s, fp) ==
    /\ f[0] = <<>>
    /\ \A i \in 1 .. Len(s) :
          f[i] = IF Fingerprint(s[i]) = fp THEN Append(f[i - 1], s[i]) ELSE f[i - 1]

(* The loop of largestBuild runs to its end. *)
LEMMA GroupLoop ==
    ASSUME NEW S, NEW s \in Seq(S), NEW fp
    PROVE  \E f \in [0 .. Len(s) -> Seq(S)] : GroupsOf(f, s, fp) /\ Group(s, fp) = f[Len(s)]
<1>1. PICK n : n = Len(s)
  OBVIOUS
<1>2. n \in Nat /\ \A i \in 1 .. n : s[i] \in S
  BY <1>1
<1>3. PICK step : step = [x \in (1 .. n) \X Seq(S) |->
                            IF Fingerprint(s[x[1]]) = fp THEN Append(x[2], s[x[1]]) ELSE x[2]]
  OBVIOUS
<1>4. step \in [(1 .. n) \X Seq(S) -> Seq(S)]
  <2>1. \A x \in (1 .. n) \X Seq(S) :
           (IF Fingerprint(s[x[1]]) = fp THEN Append(x[2], s[x[1]]) ELSE x[2]) \in Seq(S)
    <3> SUFFICES ASSUME NEW x \in (1 .. n) \X Seq(S)
                 PROVE  Append(x[2], s[x[1]]) \in Seq(S) /\ x[2] \in Seq(S)
      OBVIOUS
    <3>1. x[1] \in 1 .. n /\ x[2] \in Seq(S)
      OBVIOUS
    <3> QED
      BY <1>2, <3>1, AppendProperties
  <2> QED
    BY <1>3, <2>1
<1>5. \A i \in 1 .. n, t \in Seq(S) :
         step[<<i, t>>] = IF Fingerprint(s[i]) = fp THEN Append(t, s[i]) ELSE t
  BY <1>3
<1>6. <<>> \in Seq(S)
  OBVIOUS
<1>7. PICK f \in [0 .. n -> Seq(S)] :
         f[0] = <<>> /\ \A i \in 1 .. n : f[i] = step[<<i, f[i - 1]>>]
  <2>1. PICK Q, e : Q = Seq(S) /\ e = <<>>
    OBVIOUS
  <2>2. e \in Q /\ n \in Nat /\ step \in [(1 .. n) \X Q -> Q]
    BY Zenon, <1>2, <1>4, <1>6, <2>1
  <2>3. LoopRuns(Q, n, e, step)
    BY <2>2, LoopExists
  <2> QED
    BY Zenon, <2>1, <2>3 DEF LoopRuns
<1>8. GroupsOf(f, s, fp)
  <2>1. \A i \in 1 .. n : f[i - 1] \in Seq(S)
    BY <1>2
  <2> QED
    BY <1>1, <1>5, <1>7, <2>1 DEF GroupsOf
<1>9. f = [i \in 0 .. Len(s) |->
             IF i = 0 THEN <<>>
             ELSE IF Fingerprint(s[i]) = fp THEN Append(f[i - 1], s[i]) ELSE f[i - 1]]
  <2>1. \A i \in 0 .. n : i # 0 => i \in 1 .. n
    BY <1>2
  <2>2. \A i \in 0 .. n : f[i] = IF i = 0 THEN <<>>
             ELSE IF Fingerprint(s[i]) = fp THEN Append(f[i - 1], s[i]) ELSE f[i - 1]
    BY Zenon, <1>1, <1>8, <2>1 DEF GroupsOf
  <2> QED
    BY Zenon, <1>1, <2>2
<1>10. PICK c : /\ Group(s, fp) = c[Len(s)]
                /\ c = [i \in 0 .. Len(s) |->
                         IF i = 0 THEN <<>>
                         ELSE IF Fingerprint(s[i]) = fp THEN Append(c[i - 1], s[i]) ELSE c[i - 1]]
  <2>1. \E c : /\ Group(s, fp) = c[Len(s)]
               /\ c = CHOOSE of : of = [i \in 0 .. Len(s) |->
                        IF i = 0 THEN <<>>
                        ELSE IF Fingerprint(s[i]) = fp THEN Append(of[i - 1], s[i]) ELSE of[i - 1]]
    BY DEF Group
  <2>2. \E of : of = [i \in 0 .. Len(s) |->
                        IF i = 0 THEN <<>>
                        ELSE IF Fingerprint(s[i]) = fp THEN Append(of[i - 1], s[i]) ELSE of[i - 1]]
    BY Zenon, <1>9
  <2> QED
    BY Zenon, <2>1, <2>2
<1>11. c[n] = f[n]
  <2> DEFINE T == {m \in Nat : m <= n => c[m] = f[m]}
  <2>1. c[0] = <<>>
    BY <1>1, <1>2, <1>10
  <2>2. ASSUME NEW m \in Nat, m \in T, m + 1 <= n  PROVE c[m + 1] = f[m + 1]
    <3>1. m + 1 \in 1 .. n /\ m + 1 \in 0 .. n /\ m + 1 # 0 /\ m + 1 - 1 = m /\ m <= n
      BY <1>2, <2>2
    <3>2. c[m + 1] = IF Fingerprint(s[m + 1]) = fp THEN Append(c[m], s[m + 1]) ELSE c[m]
      <4>1. \A i \in 0 .. n : i # 0 => c[i] = IF Fingerprint(s[i]) = fp
                                             THEN Append(c[i - 1], s[i]) ELSE c[i - 1]
        BY Zenon, <1>1, <1>10
      <4>2. PICK k : k = m + 1
        OBVIOUS
      <4>3. k \in 0 .. n /\ k # 0 /\ k - 1 = m
        BY <3>1, <4>2
      <4>4. c[k] = IF Fingerprint(s[k]) = fp THEN Append(c[m], s[k]) ELSE c[m]
        BY Zenon, <4>1, <4>3
      <4> QED
        BY Zenon, <4>2, <4>4
    <3>3. f[m + 1] = IF Fingerprint(s[m + 1]) = fp THEN Append(f[m], s[m + 1]) ELSE f[m]
      BY <1>1, <1>8, <3>1 DEF GroupsOf
    <3>4. c[m] = f[m]
      BY <2>2, <3>1
    <3> QED
      BY <3>2, <3>3, <3>4
  <2>3. 0 \in T
    BY <1>7, <2>1
  <2>4. \A m \in Nat : m \in T => m + 1 \in T
    BY <2>2
  <2> HIDE DEF T
  <2>5. Nat \subseteq T
    BY <2>3, <2>4, SetInduction
  <2>6. n \in T /\ n <= n
    BY <1>2, <2>5
  <2> QED
    BY <2>6 DEF T
<1> QED
  BY Zenon, <1>1, <1>8, <1>10, <1>11

(* The first m places of a sequence that hold a hello of a group. *)
Before(s, fp, m) == {i \in 1 .. m : Fingerprint(s[i]) = fp}

(* What the loop has kept after m hellos: as many as belong to the group,  *)
(* all of the group, in the order in which they came.                      *)
Kept(s, fp, m, t) ==
    /\ IsFiniteSet(Before(s, fp, m)) /\ Len(t) = Cardinality(Before(s, fp, m))
    /\ \A k \in 1 .. Len(t) : Fingerprint(t[k]) = fp /\ \E i \in 1 .. m : t[k] = s[i]
    /\ \A k, l \in 1 .. Len(t) : k < l => \E i, j \in 1 .. m : i < j /\ t[k] = s[i] /\ t[l] = s[j]

(* One more hello keeps what is known of the loop. *)
LEMMA KeptStep ==
    ASSUME NEW S, NEW s \in Seq(S), NEW fp, NEW m \in Nat, m + 1 <= Len(s),
           NEW t \in Seq(S), Kept(s, fp, m, t), NEW u,
           u = IF Fingerprint(s[m + 1]) = fp THEN Append(t, s[m + 1]) ELSE t
    PROVE  Kept(s, fp, m + 1, u)
<1> DEFINE B == Before(s, fp, m)
           C == Before(s, fp, m + 1)
<1>1. 1 .. m + 1 = (1 .. m) \cup {m + 1} /\ m + 1 \notin 1 .. m
  OBVIOUS
<1>4. \A i \in 1 .. m : i \in 1 .. m + 1
  OBVIOUS
<1>2. CASE Fingerprint(s[m + 1]) # fp
  <2>1. u = t /\ C = B
    BY <1>1, <1>2 DEF Before
  <2>2. /\ IsFiniteSet(B) /\ Len(t) = Cardinality(B)
        /\ \A k \in 1 .. Len(t) : Fingerprint(t[k]) = fp /\ \E i \in 1 .. m : t[k] = s[i]
        /\ \A k, l \in 1 .. Len(t) : k < l => \E i, j \in 1 .. m : i < j /\ t[k] = s[i] /\ t[l] = s[j]
    BY Zenon DEF Kept
  <2>3. \A k \in 1 .. Len(t) : Fingerprint(t[k]) = fp /\ \E i \in 1 .. m + 1 : t[k] = s[i]
    BY Zenon, <1>4, <2>2
  <2>4. ASSUME NEW k \in 1 .. Len(t), NEW l \in 1 .. Len(t), k < l
        PROVE  \E i, j \in 1 .. m + 1 : i < j /\ t[k] = s[i] /\ t[l] = s[j]
    <3>1. PICK i, j \in 1 .. m : i < j /\ t[k] = s[i] /\ t[l] = s[j]
      BY Zenon, <2>2, <2>4
    <3> QED
      BY Zenon, <1>4, <3>1
  <2>5. IsFiniteSet(C) /\ Len(t) = Cardinality(C)
    BY Zenon, <2>1, <2>2
  <2>6. Kept(s, fp, m + 1, t)
    BY Zenon, <2>3, <2>4, <2>5 DEF Kept
  <2> QED
    BY Zenon, <2>1, <2>6
<1>3. CASE Fingerprint(s[m + 1]) = fp
  <2>1. C = B \cup {m + 1} /\ m + 1 \notin B
    BY <1>1, <1>3 DEF Before
  <2>2. IsFiniteSet(B) /\ Len(t) = Cardinality(B)
    BY DEF Kept
  <2> HIDE DEF B, C
  <2>3. IsFiniteSet(C) /\ Cardinality(C) = Len(t) + 1
    BY <2>1, <2>2, FS_AddElement
  <2>4. PICK n, e : n = Len(t) /\ e = s[m + 1]
    OBVIOUS
  <2>5. n \in Nat /\ e \in S /\ u = Append(t, e)
    BY <1>3, <2>4
  <2>6. /\ Len(u) = n + 1 /\ u[n + 1] = e
        /\ \A k \in 1 .. n : u[k] = t[k]
        /\ 1 .. Len(u) = (1 .. n) \cup {n + 1}
    BY <2>4, <2>5, AppendProperties
  <2>7. \A k \in 1 .. n : Fingerprint(t[k]) = fp /\ \E i \in 1 .. m : t[k] = s[i]
    BY Zenon, <2>4 DEF Kept
  <2>8. \A k, l \in 1 .. n : k < l => \E i, j \in 1 .. m : i < j /\ t[k] = s[i] /\ t[l] = s[j]
    BY Zenon, <2>4 DEF Kept
  <2>9. ASSUME NEW k \in 1 .. Len(u)
        PROVE  Fingerprint(u[k]) = fp /\ \E i \in 1 .. m + 1 : u[k] = s[i]
    <3>1. CASE k \in 1 .. n
      BY Zenon, <1>4, <2>6, <2>7, <3>1
    <3>2. CASE k = n + 1
      BY Zenon, <1>1, <1>3, <2>4, <2>6, <3>2
    <3> QED
      BY Zenon, <2>6, <3>1, <3>2
  <2>10. ASSUME NEW k \in 1 .. Len(u), NEW l \in 1 .. Len(u), k < l
         PROVE  \E i, j \in 1 .. m + 1 : i < j /\ u[k] = s[i] /\ u[l] = s[j]
    <3>1. k \in 1 .. n
      BY <2>5, <2>6, <2>10
    <3>2. CASE l \in 1 .. n
      <4>1. u[k] = t[k] /\ u[l] = t[l]
        BY Zenon, <2>6, <3>1, <3>2
      <4>2. PICK i \in 1 .. m, j \in 1 .. m : i < j /\ t[k] = s[i] /\ t[l] = s[j]
        BY Zenon, <2>8, <2>10, <3>1, <3>2
      <4> QED
        BY Zenon, <1>4, <4>1, <4>2
    <3>3. CASE l = n + 1
      <4>1. PICK i \in 1 .. m : t[k] = s[i]
        BY Zenon, <2>7, <3>1
      <4>2. i < m + 1 /\ i \in 1 .. m + 1 /\ m + 1 \in 1 .. m + 1
        OBVIOUS
      <4>3. u[k] = s[i] /\ u[l] = s[m + 1]
        BY Zenon, <2>4, <2>6, <3>1, <3>3, <4>1
      <4> QED
        BY Zenon, <4>2, <4>3
    <3> QED
      BY Zenon, <2>6, <3>2, <3>3
  <2> QED
    BY Zenon, <2>3, <2>4, <2>6, <2>9, <2>10 DEF Kept, C
<1> QED
  BY <1>2, <1>3

(* A group is the hellos of its fingerprint, in their order. *)
LEMMA GroupFacts ==
    ASSUME NEW S, NEW s \in Seq(S), NEW fp
    PROVE  Group(s, fp) \in Seq(S) /\ Kept(s, fp, Len(s), Group(s, fp))
<1>1. PICK f \in [0 .. Len(s) -> Seq(S)] : GroupsOf(f, s, fp) /\ Group(s, fp) = f[Len(s)]
  BY GroupLoop
<1>2. PICK n : n = Len(s)
  OBVIOUS
<1>3. n \in Nat /\ n \in 0 .. n
  BY <1>2
<1> DEFINE T == {m \in Nat : m <= n => Kept(s, fp, m, f[m])}
<1>4. Kept(s, fp, 0, f[0])
  <2>1. PICK t : t = f[0]
    OBVIOUS
  <2>2. Len(t) = 0 /\ 1 .. 0 = {}
    BY <1>1, <2>1 DEF GroupsOf
  <2>3. Before(s, fp, 0) = {}
    BY <2>2 DEF Before
  <2>4. 1 .. Len(t) = {} /\ IsFiniteSet(Before(s, fp, 0)) /\ Len(t) = Cardinality(Before(s, fp, 0))
    BY <2>2, <2>3, FS_EmptySet
  <2> QED
    BY Zenon, <2>1, <2>4 DEF Kept
<1>5. ASSUME NEW m \in Nat, m + 1 <= n, Kept(s, fp, m, f[m])  PROVE Kept(s, fp, m + 1, f[m + 1])
  <2>1. m \in 0 .. n /\ m + 1 \in 1 .. n /\ m + 1 - 1 = m /\ m + 1 <= Len(s)
    BY <1>2, <1>3, <1>5
  <2>2. f[m] \in Seq(S)
    BY <1>2, <2>1
  <2>3. \A i \in 1 .. n : f[i] = IF Fingerprint(s[i]) = fp THEN Append(f[i - 1], s[i]) ELSE f[i - 1]
    BY Zenon, <1>1, <1>2 DEF GroupsOf
  <2>4. PICK k : k = m + 1
    OBVIOUS
  <2>5. k \in 1 .. n /\ k - 1 = m
    BY <2>1, <2>4
  <2>6. f[k] = IF Fingerprint(s[k]) = fp THEN Append(f[m], s[k]) ELSE f[m]
    BY Zenon, <2>3, <2>5
  <2>7. f[m + 1] = IF Fingerprint(s[m + 1]) = fp THEN Append(f[m], s[m + 1]) ELSE f[m]
    BY Zenon, <2>4, <2>6
  <2> QED
    BY Zenon, <1>5, <2>1, <2>2, <2>7, KeptStep
<1>6. 0 \in T
  BY <1>4
<1>7. \A m \in Nat : m \in T => m + 1 \in T
  <2> SUFFICES ASSUME NEW m \in Nat, m \in T, m + 1 <= n  PROVE Kept(s, fp, m + 1, f[m + 1])
    OBVIOUS
  <2>1. m <= n
    BY <1>3
  <2> QED
    BY <1>5, <2>1
<1> HIDE DEF T
<1>8. Nat \subseteq T
  BY <1>6, <1>7, SetInduction
<1>9. n \in T /\ n <= n
  BY <1>3, <1>8
<1>10. Kept(s, fp, n, f[n])
  BY <1>9 DEF T
<1> QED
  BY Zenon, <1>1, <1>2, <1>3, <1>10

(* A pool of one build is its own group. *)
LEMMA GroupWhole ==
    ASSUME NEW S, NEW s \in Seq(S), NEW fp, \A i \in 1 .. Len(s) : Fingerprint(s[i]) = fp
    PROVE  Group(s, fp) = s
<1>1. PICK f \in [0 .. Len(s) -> Seq(S)] : GroupsOf(f, s, fp) /\ Group(s, fp) = f[Len(s)]
  BY GroupLoop
<1>2. PICK n : n = Len(s)
  OBVIOUS
<1>3. n \in Nat /\ n \in 0 .. n
  BY <1>2
<1> DEFINE Same(m) == Len(f[m]) = m /\ \A k \in 1 .. m : f[m][k] = s[k]
           T == {m \in Nat : m <= n => Same(m)}
<1>4. 0 \in T
  BY <1>1 DEF GroupsOf
<1>5. ASSUME NEW m \in Nat, m \in T, m + 1 <= n  PROVE Same(m + 1)
  <2>1. m \in 0 .. n /\ m + 1 \in 1 .. n /\ m + 1 - 1 = m /\ m <= n
    BY <1>3, <1>5
  <2>2. Same(m)
    BY <1>5, <2>1
  <2>3. \A i \in 1 .. n : f[i] = Append(f[i - 1], s[i])
    BY Zenon, <1>1, <1>2 DEF GroupsOf
  <2>4. PICK k, t, u, e : k = m + 1 /\ t = f[m] /\ u = f[k] /\ e = s[k]
    OBVIOUS
  <2>5. k \in 1 .. n /\ k - 1 = m
    BY <2>1, <2>4
  <2>6. u = Append(t, e)
    BY Zenon, <2>3, <2>4, <2>5
  <2>7. t \in Seq(S) /\ e \in S /\ Len(t) = m
    BY <1>2, <2>1, <2>2, <2>4, <2>5
  <2>8. Len(u) = k /\ u[k] = e /\ \A j \in 1 .. m : u[j] = t[j]
    BY <2>4, <2>6, <2>7, AppendProperties
  <2>9. \A j \in 1 .. k : j \in 1 .. m \/ j = k
    BY <2>4
  <2>10. \A j \in 1 .. k : u[j] = s[j]
    BY Zenon, <2>2, <2>4, <2>8, <2>9
  <2> QED
    BY Zenon, <2>4, <2>8, <2>10
<1>6. \A m \in Nat : m \in T => m + 1 \in T
  BY <1>5
<1> HIDE DEF T
<1>7. Nat \subseteq T
  BY <1>4, <1>6, SetInduction
<1>8. n \in T /\ n <= n
  BY <1>3, <1>7
<1>9. Same(n)
  BY <1>8 DEF T
<1>10. f[n] \in Seq(S)
  BY <1>2, <1>3
<1> QED
  BY <1>1, <1>2, <1>9, <1>10, SeqEqual

(* Of groups with a size and a rank one comes first. *)
LEMMA FirstOf ==
    ASSUME NEW F, F # {}, NEW L \in [F -> Nat], NEW R \in [F -> Nat]
    PROVE  \E f \in F : \A g \in F : L[f] < L[g] \/ (L[f] = L[g] /\ R[f] <= R[g])
<1> DEFINE A == {L[f] : f \in F}
<1>1. A \subseteq Nat /\ A # {}
  OBVIOUS
<1> HIDE DEF A
<1>2. PICK a \in A : \A b \in A : a <= b
  BY <1>1, Least
<1> DEFINE B == {R[f] : f \in {g \in F : L[g] = a}}
<1>3. B \subseteq Nat /\ B # {}
  BY <1>2 DEF A
<1> HIDE DEF B
<1>4. PICK r \in B : \A q \in B : r <= q
  BY <1>3, Least
<1>5. PICK f \in F : L[f] = a /\ R[f] = r
  BY <1>4 DEF B
<1>6. ASSUME NEW g \in F  PROVE L[f] < L[g] \/ (L[f] = L[g] /\ R[f] <= R[g])
  <2>1. a <= L[g] /\ a \in Nat /\ L[g] \in Nat
    BY <1>1, <1>2 DEF A
  <2>2. CASE L[g] = a
    <3>1. R[g] \in B
      BY <2>2 DEF B
    <3> QED
      BY <1>4, <1>5, <2>2, <3>1
  <2>3. CASE L[g] # a
    BY <1>5, <2>1, <2>3
  <2> QED
    BY <2>2, <2>3
<1> QED
  BY <1>6

(* Pairwise different contributions, and hellos of one build. *)
Distinct(s) == \A i, j \in 1 .. Len(s) : i < j => Key(s[i]) # Key(s[j])
SameBuild(s) == \A i \in 1 .. Len(s) : Fingerprint(s[i]) = Fingerprint(s[1])

(* The members of a sequence are what stands at its places. *)
LEMMA ToSetFacts ==
    ASSUME NEW S, NEW s \in Seq(S)
    PROVE  /\ \A x \in ToSet(s) : x \in S /\ \E i \in 1 .. Len(s) : x = s[i]
           /\ \A i \in 1 .. Len(s) : s[i] \in ToSet(s)
<1>1. DOMAIN s = 1 .. Len(s) /\ \A i \in 1 .. Len(s) : s[i] \in S
  OBVIOUS
<1>2. ToSet(s) = {s[i] : i \in 1 .. Len(s)}
  BY Zenon, <1>1 DEF ToSet
<1> QED
  BY Zenon, <1>1, <1>2

(* The contributions of a pool. *)
LEMMA KeysOfSeq ==
    ASSUME NEW S, NEW s \in Seq(S)
    PROVE  /\ \A k \in Keys(s) : \E i \in 1 .. Len(s) : k = Key(s[i])
           /\ \A i \in 1 .. Len(s) : Key(s[i]) \in Keys(s)
<1>1. PICK U : U = ToSet(s)
  OBVIOUS
<1>2. /\ \A x \in U : \E i \in 1 .. Len(s) : x = s[i]
      /\ \A i \in 1 .. Len(s) : s[i] \in U
  BY <1>1, ToSetFacts
<1>3. Keys(s) = {Key(h) : h \in U}
  BY Zenon, <1>1 DEF Keys
<1> QED
  BY Zenon, <1>2, <1>3

(* The fingerprints of a pool. *)
LEMMA FingerprintsOfSeq ==
    ASSUME NEW S, NEW s \in Seq(S)
    PROVE  /\ \A f \in Fingerprints(s) : \E i \in 1 .. Len(s) : f = Fingerprint(s[i])
           /\ \A i \in 1 .. Len(s) : Fingerprint(s[i]) \in Fingerprints(s)
<1>1. PICK U : U = ToSet(s)
  OBVIOUS
<1>2. /\ \A x \in U : \E i \in 1 .. Len(s) : x = s[i]
      /\ \A i \in 1 .. Len(s) : s[i] \in U
  BY <1>1, ToSetFacts
<1>3. Fingerprints(s) = {Fingerprint(h) : h \in U}
  BY Zenon, <1>1 DEF Fingerprints
<1> QED
  BY Zenon, <1>2, <1>3

(* The hellos of a pool with different contributions are as many. *)
LEMMA DistinctCount ==
    ASSUME NEW S, NEW s \in Seq(S), Distinct(s)
    PROVE  Cardinality(Keys(s)) = Len(s)
<1>1. PICK n, K : n = Len(s) /\ K = Keys(s)
  OBVIOUS
<1>2. PICK f : f = [i \in 1 .. n |-> Key(s[i])]
  OBVIOUS
<1>3. /\ \A k \in K : \E i \in 1 .. n : k = Key(s[i])
      /\ \A i \in 1 .. n : Key(s[i]) \in K
  BY Zenon, <1>1, KeysOfSeq
<1>4. n \in Nat
  BY <1>1
<1>5. \A i, j \in 1 .. n : i < j => Key(s[i]) # Key(s[j])
  BY Zenon, <1>1 DEF Distinct
<1>6. f \in Bijection(1 .. n, K)
  <2>1. f \in [1 .. n -> K]
    BY Zenon, <1>2, <1>3
  <2>2. \A t \in K : \E i \in 1 .. n : f[i] = t
    BY Zenon, <1>2, <1>3
  <2>3. \A i, j \in 1 .. n : f[i] = f[j] => i = j
    <3> SUFFICES ASSUME NEW i \in 1 .. n, NEW j \in 1 .. n, i # j  PROVE f[i] # f[j]
      OBVIOUS
    <3>1. i < j \/ j < i
      BY <1>4
    <3>2. f[i] = Key(s[i]) /\ f[j] = Key(s[j])
      BY Zenon, <1>2
    <3> QED
      BY Zenon, <1>5, <3>1, <3>2
  <2> QED
    BY Zenon, <2>1, <2>2, <2>3 DEF Bijection, Injection, Surjection, IsInjective
<1>7. Cardinality(K) = n
  BY <1>4, <1>6, FS_CountingElements DEF ExistsBijection
<1> QED
  BY Zenon, <1>1, <1>7

(* A pool of one build has one fingerprint. *)
LEMMA OneFingerprint ==
    ASSUME NEW S, NEW s \in Seq(S), NEW fp, \A i \in 1 .. Len(s) : Fingerprint(s[i]) = fp
    PROVE  /\ Cardinality(Fingerprints(s)) <= 1
           /\ s # <<>> => Fingerprints(s) = {fp}
<1>1. PICK F : F = Fingerprints(s)
  OBVIOUS
<1>2. \A f \in F : f = fp
  BY Zenon, <1>1, FingerprintsOfSeq
<1>3. F = {} \/ F = {fp}
  BY <1>2
<1>4. s # <<>> => 1 \in 1 .. Len(s)
  OBVIOUS
<1>5. s # <<>> => F = {fp}
  <2>1. s # <<>> => F # {}
    BY Zenon, <1>1, <1>4, FingerprintsOfSeq
  <2> QED
    BY <1>3, <2>1
<1>6. Cardinality({}) = 0 /\ Cardinality({fp}) = 1
  BY FS_EmptySet, FS_Singleton
<1>7. Cardinality(F) = 0 \/ Cardinality(F) = 1
  BY Zenon, <1>3, <1>6
<1>8. Cardinality(F) <= 1
  BY <1>7
<1> QED
  BY Zenon, <1>1, <1>5, <1>8

(* A group of different contributions has different contributions. *)
LEMMA GroupDistinct ==
    ASSUME NEW S, NEW s \in Seq(S), NEW fp, Distinct(s)
    PROVE  Distinct(Group(s, fp))
<1>1. PICK t : t = Group(s, fp)
  OBVIOUS
<1>2. Kept(s, fp, Len(s), t)
  BY <1>1, GroupFacts
<1>3. \A k, l \in 1 .. Len(t) : k < l => \E i, j \in 1 .. Len(s) : i < j /\ t[k] = s[i] /\ t[l] = s[j]
  BY Zenon, <1>2 DEF Kept
<1>4. \A i, j \in 1 .. Len(s) : i < j => Key(s[i]) # Key(s[j])
  BY Zenon DEF Distinct
<1>5. Distinct(t)
  <2> SUFFICES ASSUME NEW k \in 1 .. Len(t), NEW l \in 1 .. Len(t), k < l  PROVE Key(t[k]) # Key(t[l])
    BY Zenon DEF Distinct
  <2>1. PICK i \in 1 .. Len(s), j \in 1 .. Len(s) : i < j /\ t[k] = s[i] /\ t[l] = s[j]
    BY Zenon, <1>3
  <2>2. Key(s[i]) # Key(s[j])
    BY Zenon, <1>4, <2>1
  <2> QED
    BY Zenon, <2>1, <2>2
<1> QED
  BY Zenon, <1>1, <1>5

(* A group is never longer than the pool. *)
LEMMA GroupLength ==
    ASSUME NEW S, NEW s \in Seq(S), NEW fp
    PROVE  Len(Group(s, fp)) \in Nat /\ Len(Group(s, fp)) <= Len(s)
<1>1. PICK n, t, B : n = Len(s) /\ t = Group(s, fp) /\ B = Before(s, fp, n)
  OBVIOUS
<1>2. t \in Seq(S) /\ Kept(s, fp, n, t)
  BY <1>1, GroupFacts
<1>3. n \in Nat /\ Len(t) \in Nat
  BY <1>1, <1>2
<1>4. IsFiniteSet(1 .. n) /\ Cardinality(1 .. n) = n
  <2>1. 1 \in Int /\ n \in Int
    BY <1>3
  <2>2. IsFiniteSet(1 .. n) /\ Cardinality(1 .. n) = IF 1 > n THEN 0 ELSE n - 1 + 1
    BY Zenon, <2>1, FS_Interval
  <2> QED
    BY <1>3, <2>2
<1>5. B \in SUBSET (1 .. n)
  BY <1>1 DEF Before
<1>6. Cardinality(B) <= Cardinality(1 .. n)
  BY <1>4, <1>5, FS_Subset
<1>7. Len(t) = Cardinality(B)
  BY Zenon, <1>1, <1>2 DEF Kept
<1>8. Len(t) <= n
  BY <1>4, <1>6, <1>7
<1> QED
  BY Zenon, <1>1, <1>3, <1>8

(* largestBuild returns a group of the pool, and none is larger. *)
LEMMA LargestBuildFacts ==
    ASSUME NEW s \in Seq(Hellos), s # <<>>
    PROVE  \E fp \in Fingerprints(s) :
              /\ LargestBuild(s) = Group(s, fp)
              /\ \A g \in Fingerprints(s) : Len(Group(s, g)) <= Len(Group(s, fp))
<1>1. PICK F, n : F = Fingerprints(s) /\ n = Len(s)
  OBVIOUS
<1>2. n \in Nat /\ 1 \in 1 .. n
  BY <1>1
<1>3. F # {}
  BY Zenon, <1>1, <1>2, FingerprintsOfSeq
<1>4. PICK G : G = [f \in F |-> Len(Group(s, f))]
  OBVIOUS
<1>5. \A f \in F : G[f] = Len(Group(s, f)) /\ G[f] \in Nat /\ G[f] <= n
  BY <1>1, <1>4, GroupLength
<1>6. PICK L, R : L = [f \in F |-> n - G[f]] /\ R = [f \in F |-> Rank[f]]
  OBVIOUS
<1>7. L \in [F -> Nat]
  <2>1. \A f \in F : n - G[f] \in Nat
    BY <1>2, <1>5
  <2> QED
    BY <1>6, <2>1
<1>8. R \in [F -> Nat]
  <2>1. \A f \in F : Rank[f] \in Nat
    <3> SUFFICES ASSUME NEW f \in F  PROVE Rank[f] \in Nat
      OBVIOUS
    <3>1. PICK i \in 1 .. n : f = Fingerprint(s[i])
      BY Zenon, <1>1, FingerprintsOfSeq
    <3>2. s[i] \in Hellos
      BY <1>1
    <3> QED
      BY Zenon, <3>1, <3>2, RankAssumption
  <2> QED
    BY <1>6, <2>1
<1>9. PICK f \in F : \A g \in F : L[f] < L[g] \/ (L[f] = L[g] /\ R[f] <= R[g])
  BY <1>3, <1>7, <1>8, FirstOf
<1>10. \A g \in F : G[f] > G[g] \/ (G[f] = G[g] /\ Rank[f] <= Rank[g])
  <2> SUFFICES ASSUME NEW g \in F  PROVE G[f] > G[g] \/ (G[f] = G[g] /\ Rank[f] <= Rank[g])
    OBVIOUS
  <2>1. L[f] = n - G[f] /\ L[g] = n - G[g] /\ R[f] = Rank[f] /\ R[g] = Rank[g]
    BY Zenon, <1>6
  <2>2. L[f] < L[g] \/ (L[f] = L[g] /\ Rank[f] <= Rank[g])
    BY Zenon, <1>9, <2>1
  <2>3. G[f] \in Nat /\ G[g] \in Nat
    BY Zenon, <1>5
  <2> QED
    BY ONLY <1>2, <2>1, <2>2, <2>3
<1>11. PICK fp : fp = CHOOSE x \in F : \A g \in F :
                \/ Len(Group(s, x)) > Len(Group(s, g))
                \/ Len(Group(s, x)) = Len(Group(s, g)) /\ Rank[x] <= Rank[g]
  OBVIOUS
<1>12. \A g \in F : \/ Len(Group(s, f)) > Len(Group(s, g))
                    \/ Len(Group(s, f)) = Len(Group(s, g)) /\ Rank[f] <= Rank[g]
  BY Zenon, <1>5, <1>10
<1>13. fp \in F /\ \A g \in F : \/ Len(Group(s, fp)) > Len(Group(s, g))
                                \/ Len(Group(s, fp)) = Len(Group(s, g)) /\ Rank[fp] <= Rank[g]
  BY Zenon, <1>11, <1>12
<1>14. \A g \in F : G[fp] > G[g] \/ G[fp] = G[g]
  BY Zenon, <1>5, <1>13
<1>15. \A g \in F : G[g] <= G[fp]
  <2>1. \A g \in F : G[g] \in Nat /\ G[fp] \in Nat
    BY Zenon, <1>5, <1>13
  <2> QED
    BY <1>14, <2>1
<1>16. \A g \in F : Len(Group(s, g)) <= Len(Group(s, fp))
  BY Zenon, <1>5, <1>13, <1>15
<1>17. LargestBuild(s) = Group(s, fp)
  BY Zenon, <1>1, <1>11 DEF LargestBuild
<1> QED
  BY Zenon, <1>1, <1>13, <1>16, <1>17

-----------------------------------------------------------------------------
(* Parts of a pool *)

(* t is s without some of its hellos. *)
PartOf(t, s) ==
    \E ix \in [1 .. Len(t) -> 1 .. Len(s)] :
        /\ \A k, l \in 1 .. Len(t) : k < l => ix[k] < ix[l]
        /\ \A k \in 1 .. Len(t) : t[k] = s[ix[k]]

(* What a part of a pool inherits from it. *)
LEMMA PartFacts ==
    ASSUME NEW S, NEW s \in Seq(S), NEW t \in Seq(S), PartOf(t, s)
    PROVE  /\ \A k \in 1 .. Len(t) : \E i \in 1 .. Len(s) : t[k] = s[i]
           /\ Distinct(s) => Distinct(t)
           /\ \A fp : Len(Group(t, fp)) <= Len(Group(s, fp))
<1>1. PICK ix \in [1 .. Len(t) -> 1 .. Len(s)] :
        /\ \A k, l \in 1 .. Len(t) : k < l => ix[k] < ix[l]
        /\ \A k \in 1 .. Len(t) : t[k] = s[ix[k]]
  BY Zenon DEF PartOf
<1>2. PICK m, n : m = Len(t) /\ n = Len(s)
  OBVIOUS
<1>3. /\ m \in Nat /\ n \in Nat
      /\ \A k \in 1 .. m : ix[k] \in 1 .. n
  BY <1>2
<1>4. \A k \in 1 .. m : t[k] = s[ix[k]]
  BY Zenon, <1>1, <1>2
<1>5. \A k, l \in 1 .. m : k < l => ix[k] < ix[l]
  BY Zenon, <1>1, <1>2
<1>6. Distinct(s) => Distinct(t)
  <2> SUFFICES ASSUME Distinct(s), NEW k \in 1 .. m, NEW l \in 1 .. m, k < l  PROVE Key(t[k]) # Key(t[l])
    BY Zenon, <1>2 DEF Distinct
  <2>1. Key(s[ix[k]]) # Key(s[ix[l]])
    BY Zenon, <1>2, <1>3, <1>5 DEF Distinct
  <2> QED
    BY Zenon, <1>4, <2>1
<1>7. ASSUME NEW fp  PROVE Len(Group(t, fp)) <= Len(Group(s, fp))
  <2>1. PICK A, B : A = Before(t, fp, m) /\ B = Before(s, fp, n)
    OBVIOUS
  <2>2. Len(Group(t, fp)) = Cardinality(A)
    BY Zenon, <1>2, <2>1, GroupFacts DEF Kept
  <2>3. IsFiniteSet(B) /\ Len(Group(s, fp)) = Cardinality(B)
    BY Zenon, <1>2, <2>1, GroupFacts DEF Kept
  <2>4. PICK f : f = [k \in A |-> ix[k]]
    OBVIOUS
  <2>5. \A k \in A : k \in 1 .. m /\ Fingerprint(t[k]) = fp
    BY <2>1 DEF Before
  <2>6. \A k \in A : ix[k] \in B
    <3> SUFFICES ASSUME NEW k \in A  PROVE ix[k] \in 1 .. n /\ Fingerprint(s[ix[k]]) = fp
      BY Zenon, <2>1 DEF Before
    <3> QED
      BY Zenon, <1>3, <1>4, <2>5
  <2>7. \A k, l \in A : f[k] = f[l] => k = l
    <3> SUFFICES ASSUME NEW k \in A, NEW l \in A, k # l  PROVE f[k] # f[l]
      OBVIOUS
    <3>1. k \in 1 .. m /\ l \in 1 .. m /\ f[k] = ix[k] /\ f[l] = ix[l]
      BY Zenon, <2>4, <2>5
    <3>2. k < l \/ l < k
      BY <1>3, <3>1
    <3>3. ix[k] < ix[l] \/ ix[l] < ix[k]
      BY Zenon, <1>5, <3>1, <3>2
    <3>4. ix[k] \in 1 .. n /\ ix[l] \in 1 .. n
      BY Zenon, <1>3, <3>1
    <3>5. ix[k] # ix[l]
      BY ONLY <1>3, <3>3, <3>4
    <3> QED
      BY Zenon, <3>1, <3>5
  <2>8. f \in Injection(A, B)
    <3>1. f \in [A -> B]
      BY Zenon, <2>4, <2>6
    <3> QED
      BY Zenon, <2>7, <3>1 DEF Injection, IsInjective
  <2>9. Cardinality(A) <= Cardinality(B)
    BY <2>3, <2>8, FS_Injection
  <2> QED
    BY Zenon, <2>2, <2>3, <2>9
<1> QED
  BY Zenon, <1>2, <1>3, <1>4, <1>6, <1>7

(* The newest hellos, at most MaxPool. *)
LEMMA NewestFacts ==
    ASSUME NEW S, NEW s \in Seq(S)
    PROVE  /\ Newest(s) \in Seq(S) /\ PartOf(Newest(s), s)
           /\ Len(Newest(s)) = IF Len(s) > MaxPool THEN MaxPool ELSE Len(s)
<1>1. PICK n, d : n = Len(s) /\ d = IF n > MaxPool THEN n - MaxPool ELSE 0
  OBVIOUS
<1>2. /\ n \in Nat /\ d \in 0 .. n
      /\ d + 1 = IF n > MaxPool THEN n - MaxPool + 1 ELSE 1
      /\ n - d = IF n > MaxPool THEN MaxPool ELSE n
  BY <1>1, PoolAssumption
<1>3. PICK t : t = SubSeq(s, d + 1, n)
  OBVIOUS
<1>4. Newest(s) = t
  BY Zenon, <1>1, <1>2, <1>3 DEF Newest
<1>5. PICK m : m = n - d
  OBVIOUS
<1>6. m \in Nat /\ \A k \in 1 .. m : k + d \in 1 .. n /\ d + 1 + k - 1 = k + d
  BY <1>2, <1>5
<1>7. t \in Seq(S) /\ Len(t) = m /\ \A k \in 1 .. m : t[k] = s[d + 1 + k - 1]
  <2>1. PICK e : e = d + 1
    OBVIOUS
  <2>2. n \in Nat /\ e \in 1 .. n + 1 /\ m = n - e + 1
    BY <1>2, <1>5, <2>1
  <2>3. s \in Seq(S) /\ n = Len(s) /\ t = SubSeq(s, e, n)
    BY Zenon, <1>1, <1>3, <2>1
  <2>4. t \in Seq(S) /\ Len(t) = m /\ \A k \in 1 .. m : t[k] = s[e + k - 1]
    <3>1. n \in Int /\ e \in Int /\ \A i \in e .. n : s[i] \in S
      BY ONLY <2>2, <2>3, ElementOfSeq
    <3>2. SubSeq(s, e, n) \in Seq(S)
      BY ONLY <3>1, SubSeqProperties, Zenon
    <3>3. Len(SubSeq(s, e, n)) = IF e <= n THEN n - e + 1 ELSE 0
      BY ONLY <3>1, SubSeqProperties, Zenon
    <3>4. ASSUME NEW k \in 1 .. n - e + 1  PROVE SubSeq(s, e, n)[k] = s[e + k - 1]
      BY ONLY <3>1, SubSeqProperties, k \in 1 .. n - e + 1
    <3>5. m = IF e <= n THEN n - e + 1 ELSE 0
      BY ONLY <2>2
    <3> QED
      BY Zenon, <2>2, <2>3, <3>2, <3>3, <3>4, <3>5
  <2> QED
    BY Zenon, <2>1, <2>4
<1>8. \A k \in 1 .. m : t[k] = s[k + d]
  <2> SUFFICES ASSUME NEW k \in 1 .. m  PROVE t[k] = s[k + d]
    OBVIOUS
  <2>1. t[k] = s[d + 1 + k - 1]
    BY Zenon, <1>7
  <2> QED
    BY Zenon, <1>6, <2>1
<1>9. PartOf(t, s)
  <2>1. PICK ix : ix = [k \in 1 .. m |-> k + d]
    OBVIOUS
  <2>2. ix \in [1 .. m -> 1 .. n]
    BY <1>6, <2>1
  <2>3. \A k, l \in 1 .. m : k < l => ix[k] < ix[l]
    BY <1>2, <1>6, <2>1
  <2>4. \A k \in 1 .. m : t[k] = s[ix[k]]
    BY Zenon, <1>8, <2>1
  <2> QED
    BY Zenon, <1>1, <1>7, <2>2, <2>3, <2>4 DEF PartOf
<1> QED
  BY Zenon, <1>1, <1>2, <1>4, <1>5, <1>7, <1>9

(* A pool without one of its hellos. *)
LEMMA RemoveAtFacts ==
    ASSUME NEW S, NEW s \in Seq(S), NEW p \in 1 .. Len(s)
    PROVE  /\ RemoveAt(s, p) \in Seq(S) /\ PartOf(RemoveAt(s, p), s)
           /\ Len(RemoveAt(s, p)) = Len(s) - 1
<1>1. PICK n : n = Len(s)
  OBVIOUS
<1>2. n \in Nat /\ p \in 1 .. n
  BY <1>1
<1>3. PICK a, b, t : a = SubSeq(s, 1, p - 1) /\ b = SubSeq(s, p + 1, n) /\ t = a \o b
  OBVIOUS
<1>4. RemoveAt(s, p) = t
  BY Zenon, <1>1, <1>3 DEF RemoveAt
<1>5. a \in Seq(S) /\ Len(a) = p - 1 /\ \A k \in 1 .. p - 1 : a[k] = s[k]
  BY <1>1, <1>2, <1>3
<1>6. b \in Seq(S) /\ Len(b) = n - p /\ \A k \in 1 .. n - p : b[k] = s[k + p]
  BY <1>1, <1>2, <1>3
<1>7. /\ t \in Seq(S) /\ Len(t) = n - 1
      /\ \A k \in 1 .. n - 1 : t[k] = IF k <= p - 1 THEN a[k] ELSE b[k - (p - 1)]
  <2>1. /\ a \o b \in Seq(S) /\ Len(a \o b) = Len(a) + Len(b)
        /\ \A k \in 1 .. Len(a) + Len(b) :
               (a \o b)[k] = IF k <= Len(a) THEN a[k] ELSE b[k - Len(a)]
    BY <1>5, <1>6, ConcatProperties
  <2>2. (p - 1) + (n - p) = n - 1
    BY ONLY <1>2
  <2> QED
    BY Zenon, <1>3, <1>5, <1>6, <2>1, <2>2
<1>8. PartOf(t, s)
  <2>1. PICK ix : ix = [k \in 1 .. n - 1 |-> IF k <= p - 1 THEN k ELSE k + 1]
    OBVIOUS
  <2>2. ix \in [1 .. n - 1 -> 1 .. n]
    BY <1>2, <2>1
  <2>3. \A k, l \in 1 .. n - 1 : k < l => ix[k] < ix[l]
    BY <1>2, <2>1
  <2>4. ASSUME NEW k \in 1 .. n - 1  PROVE t[k] = s[ix[k]]
    <3>1. CASE k <= p - 1
      <4>1. k \in 1 .. p - 1 /\ ix[k] = k
        BY <1>2, <2>1, <3>1
      <4> QED
        BY <1>5, <1>7, <3>1, <4>1
    <3>2. CASE ~ (k <= p - 1)
      <4>1. PICK j : j = k - (p - 1)
        OBVIOUS
      <4>2. j \in 1 .. n - p /\ ix[k] = j + p
        BY <1>2, <2>1, <3>2, <4>1
      <4>3. t[k] = b[j]
        BY Zenon, <1>7, <3>2, <4>1
      <4> QED
        BY <1>6, <4>2, <4>3
    <3> QED
      BY <3>1, <3>2
  <2> QED
    BY Zenon, <1>1, <1>7, <2>2, <2>3, <2>4 DEF PartOf
<1> QED
  BY Zenon, <1>1, <1>4, <1>7, <1>8

(* A pool is a part of itself. *)
LEMMA PartOfItself ==
    ASSUME NEW S, NEW s \in Seq(S)
    PROVE  PartOf(s, s)
<1>1. PICK n, ix : n = Len(s) /\ ix = [k \in 1 .. n |-> k]
  OBVIOUS
<1>2. n \in Nat
  BY <1>1
<1>3. /\ ix \in [1 .. n -> 1 .. n]
      /\ \A k, l \in 1 .. n : k < l => ix[k] < ix[l]
      /\ \A k \in 1 .. n : s[k] = s[ix[k]]
  BY <1>1, <1>2
<1> QED
  BY Zenon, <1>1, <1>3 DEF PartOf

(* trimPendingLocked finds a group to take from. *)
LEMMA VictimFacts ==
    ASSUME NEW s \in Seq(Hellos), s # <<>>
    PROVE  Victim(s) \in Fingerprints(s)
<1>1. PICK F, n : F = Fingerprints(s) /\ n = Len(s)
  OBVIOUS
<1>2. n \in Nat /\ 1 \in 1 .. n
  BY <1>1
<1>3. F # {}
  BY Zenon, <1>1, <1>2, FingerprintsOfSeq
<1>4. PICK L, R : L = [f \in F |-> Len(Group(s, f))] /\ R = [f \in F |-> Rank[f]]
  OBVIOUS
<1>5. L \in [F -> Nat]
  <2>1. \A f \in F : Len(Group(s, f)) \in Nat
    BY GroupLength
  <2> QED
    BY Zenon, <1>4, <2>1
<1>6. R \in [F -> Nat]
  <2>1. \A f \in F : Rank[f] \in Nat
    <3> SUFFICES ASSUME NEW f \in F  PROVE Rank[f] \in Nat
      OBVIOUS
    <3>1. PICK i \in 1 .. n : f = Fingerprint(s[i])
      BY Zenon, <1>1, FingerprintsOfSeq
    <3>2. s[i] \in Hellos
      BY <1>1
    <3> QED
      BY Zenon, <3>1, <3>2, RankAssumption
  <2> QED
    BY <1>4, <2>1
<1>7. PICK f \in F : \A g \in F : L[f] < L[g] \/ (L[f] = L[g] /\ R[f] <= R[g])
  BY <1>3, <1>5, <1>6, FirstOf
<1>8. \A g \in F : \/ Len(Group(s, f)) < Len(Group(s, g))
                   \/ Len(Group(s, f)) = Len(Group(s, g)) /\ Rank[f] <= Rank[g]
  <2>1. \A g \in F : L[g] = Len(Group(s, g)) /\ R[g] = Rank[g]
    BY Zenon, <1>4
  <2> QED
    BY Zenon, <1>7, <2>1
<1>9. PICK v : v = CHOOSE x \in F : \A g \in F :
                \/ Len(Group(s, x)) < Len(Group(s, g))
                \/ Len(Group(s, x)) = Len(Group(s, g)) /\ Rank[x] <= Rank[g]
  OBVIOUS
<1>10. v \in F
  BY Zenon, <1>8, <1>9
<1>11. Victim(s) = v
  BY Zenon, <1>1, <1>9 DEF Victim
<1> QED
  BY Zenon, <1>1, <1>10, <1>11

(* What is held aside keeps its bound, and loses only hellos by it. *)
LEMMA TrimFacts ==
    ASSUME NEW s \in Seq(Hellos), Len(s) <= Budget + 1
    PROVE  /\ Trim(s) \in Seq(Hellos) /\ PartOf(Trim(s), s)
           /\ Len(Trim(s)) <= Budget
<1>1. Budget \in Nat /\ Len(s) \in Nat
  BY PoolAssumption DEF Budget
<1>2. CASE Len(s) <= Budget
  <2>1. Trim(s) = s
    BY Zenon, <1>2 DEF Trim
  <2>2. PartOf(s, s)
    BY PartOfItself
  <2> QED
    BY Zenon, <1>2, <2>1, <2>2
<1>3. CASE ~ (Len(s) <= Budget)
  <2>1. s # <<>>
    BY <1>1, <1>3
  <2>2. PICK V, I : V = Victim(s) /\ I = {i \in 1 .. Len(s) : Fingerprint(s[i]) = V}
    OBVIOUS
  <2>3. \E i \in 1 .. Len(s) : Fingerprint(s[i]) = V
    BY Zenon, <2>1, <2>2, VictimFacts, FingerprintsOfSeq
  <2>4. I # {} /\ I \subseteq Nat
    BY <2>2, <2>3
  <2>5. PICK p : p = Min(I)
    OBVIOUS
  <2>6. p \in 1 .. Len(s)
    <3>1. Min(I) \in I
      BY <2>4, MinIsLeast
    <3> QED
      BY <2>2, <2>5, <3>1
  <2>7. Trim(s) = RemoveAt(s, p)
    BY Zenon, <1>3, <2>2, <2>3, <2>4, <2>5 DEF Trim, RemoveFirstMatch, SelectInSeq
  <2>8. /\ RemoveAt(s, p) \in Seq(Hellos) /\ PartOf(RemoveAt(s, p), s)
        /\ Len(RemoveAt(s, p)) = Len(s) - 1
    BY <2>6, RemoveAtFacts
  <2>9. Len(s) - 1 <= Budget
    BY <1>1
  <2> QED
    BY Zenon, <2>7, <2>8, <2>9
<1> QED
  BY <1>2, <1>3

(* A new contribution keeps the contributions different. *)
LEMMA AppendDistinct ==
    ASSUME NEW S, NEW s \in Seq(S), NEW h \in S, Distinct(s), Key(h) \notin Keys(s)
    PROVE  Distinct(Append(s, h))
<1>1. PICK n, t : n = Len(s) /\ t = Append(s, h)
  OBVIOUS
<1>2. n \in Nat /\ Len(t) = n + 1 /\ t[n + 1] = h /\ \A k \in 1 .. n : t[k] = s[k]
  BY <1>1, AppendProperties
<1>3. \A i, j \in 1 .. n : i < j => Key(s[i]) # Key(s[j])
  BY Zenon, <1>1 DEF Distinct
<1>4. \A i \in 1 .. n : Key(s[i]) # Key(h)
  BY Zenon, <1>1, KeysOfSeq
<1>5. ASSUME NEW i \in 1 .. n + 1, NEW j \in 1 .. n + 1, i < j  PROVE Key(t[i]) # Key(t[j])
  <2>1. i \in 1 .. n /\ (j \in 1 .. n \/ j = n + 1)
    BY <1>2, <1>5
  <2>2. CASE j \in 1 .. n
    BY Zenon, <1>2, <1>3, <1>5, <2>1, <2>2
  <2>3. CASE j = n + 1
    BY Zenon, <1>2, <1>4, <2>1, <2>3
  <2> QED
    BY <2>1, <2>2, <2>3
<1>6. Distinct(t)
  BY Zenon, <1>2, <1>5 DEF Distinct
<1> QED
  BY Zenon, <1>1, <1>6

-----------------------------------------------------------------------------
(* The pool, and what is held aside *)

(* A pool that the device may emit from. *)
Good(s) == s \in Seq(Hellos) /\ Len(s) <= MaxPool /\ SameBuild(s) /\ Distinct(s)

(* What is held aside is of other builds, each contribution once, and no   *)
(* group of it is larger than the pool.                                    *)
HeldBack(s, p) ==
    /\ p \in Seq(Hellos) /\ Len(p) <= Budget /\ Distinct(p)
    /\ s = <<>> => p = <<>>
    /\ \A i \in 1 .. Len(p) : Fingerprint(p[i]) # Fingerprint(s[1])
    /\ \A fp \in Fingerprints(p) : Len(Group(p, fp)) <= Len(s)

HarvestInv ==
    /\ Good(hellos)
    /\ HeldBack(hellos, pending)
    /\ settled \in {"any"} \cup {h.build : h \in Hellos}

(* What a good pool is made of, in the words of the properties. *)
LEMMA GoodIsCoherent ==
    ASSUME NEW s, Good(s)
    PROVE  Coherent(s) /\ ToSet(s) \subseteq Hellos /\ Len(s) <= MaxPool
<1>1. s \in Seq(Hellos) /\ Len(s) <= MaxPool /\ Distinct(s)
  BY Zenon DEF Good
<1>2. PICK fp : fp = Fingerprint(s[1])
  OBVIOUS
<1>3. \A i \in 1 .. Len(s) : Fingerprint(s[i]) = fp
  BY Zenon, <1>2 DEF Good, SameBuild
<1>4. Cardinality(Fingerprints(s)) <= 1
  BY <1>1, <1>3, OneFingerprint
<1>5. Cardinality(Keys(s)) = Len(s)
  BY <1>1, DistinctCount
<1>6. ToSet(s) \subseteq Hellos
  BY Zenon, <1>1, ToSetFacts
<1> QED
  BY Zenon, <1>1, <1>4, <1>5, <1>6 DEF Coherent

(* The newest hellos of a pool of one build are a good pool. *)
LEMMA NewestGood ==
    ASSUME NEW s \in Seq(Hellos), s # <<>>, Distinct(s),
           NEW fp, \A i \in 1 .. Len(s) : Fingerprint(s[i]) = fp
    PROVE  /\ Good(Newest(s)) /\ Newest(s) # <<>>
           /\ \A i \in 1 .. Len(Newest(s)) : Fingerprint(Newest(s)[i]) = fp
           /\ Len(Newest(s)) = IF Len(s) > MaxPool THEN MaxPool ELSE Len(s)
<1>1. PICK t : t = Newest(s)
  OBVIOUS
<1>2. t \in Seq(Hellos) /\ PartOf(t, s) /\ Len(t) = IF Len(s) > MaxPool THEN MaxPool ELSE Len(s)
  BY Zenon, <1>1, NewestFacts
<1>3. Len(s) \in Nat /\ Len(s) # 0 /\ MaxPool \in Nat /\ MaxPool # 0
  BY PoolAssumption
<1>4. Len(t) <= MaxPool /\ Len(t) # 0 /\ 1 \in 1 .. Len(t)
  BY <1>2, <1>3
<1>5. Distinct(t) /\ \A k \in 1 .. Len(t) : \E i \in 1 .. Len(s) : t[k] = s[i]
  BY <1>2, PartFacts
<1>6. \A k \in 1 .. Len(t) : Fingerprint(t[k]) = fp
  <2> SUFFICES ASSUME NEW k \in 1 .. Len(t)  PROVE Fingerprint(t[k]) = fp
    OBVIOUS
  <2>1. PICK i \in 1 .. Len(s) : t[k] = s[i]
    BY Zenon, <1>5
  <2>2. Fingerprint(s[i]) = fp
    OBVIOUS
  <2> QED
    BY Zenon, <2>1, <2>2
<1>7. SameBuild(t)
  BY Zenon, <1>4, <1>6 DEF SameBuild
<1>8. t # <<>>
  BY <1>4
<1>9. Good(t)
  BY Zenon, <1>2, <1>4, <1>5, <1>7 DEF Good
<1> QED
  BY Zenon, <1>1, <1>2, <1>6, <1>8, <1>9

(* The pool with a new hello of its build. *)
LEMMA MajorityGood ==
    ASSUME NEW s, Good(s), NEW h \in Hellos, Key(h) \notin Keys(s),
           s # <<>> => Fingerprint(h) = Fingerprint(s[1])
    PROVE  LET t == Newest(Append(s, h))
           IN  /\ Good(t) /\ t # <<>> /\ Len(s) <= Len(t)
               /\ Fingerprint(t[1]) = Fingerprint(h)
<1>1. s \in Seq(Hellos) /\ Len(s) <= MaxPool /\ Distinct(s) /\ SameBuild(s)
  BY Zenon DEF Good
<1>2. PICK a, n, fp : a = Append(s, h) /\ n = Len(s) /\ fp = Fingerprint(h)
  OBVIOUS
<1>3. /\ a \in Seq(Hellos) /\ n \in Nat /\ Len(a) = n + 1 /\ a[n + 1] = h
      /\ \A k \in 1 .. n : a[k] = s[k]
  BY <1>1, <1>2, AppendProperties
<1>4. Distinct(a)
  BY Zenon, <1>1, <1>2, AppendDistinct
<1>5. \A k \in 1 .. n + 1 : Fingerprint(a[k]) = fp
  <2> SUFFICES ASSUME NEW k \in 1 .. n + 1  PROVE Fingerprint(a[k]) = fp
    OBVIOUS
  <2>1. CASE k = n + 1
    BY Zenon, <1>2, <1>3, <2>1
  <2>2. CASE k # n + 1
    <3>1. k \in 1 .. n
      BY <1>3, <2>2
    <3>2. s # <<>>
      BY <1>1, <1>2, <3>1
    <3>3. Fingerprint(s[k]) = Fingerprint(s[1])
      BY Zenon, <1>1, <1>2, <3>1 DEF SameBuild
    <3> QED
      BY Zenon, <1>2, <1>3, <3>1, <3>2, <3>3
  <2> QED
    BY <2>1, <2>2
<1>6. a # <<>>
  BY <1>3
<1>7. \A k \in 1 .. Len(a) : Fingerprint(a[k]) = fp
  BY Zenon, <1>3, <1>5
<1>8. PICK t : t = Newest(a)
  OBVIOUS
<1>9. /\ Good(t) /\ t # <<>>
      /\ \A i \in 1 .. Len(t) : Fingerprint(t[i]) = fp
      /\ Len(t) = IF Len(a) > MaxPool THEN MaxPool ELSE Len(a)
  BY Zenon, <1>3, <1>4, <1>6, <1>7, <1>8, NewestGood
<1>10. n <= Len(t)
  <2>1. Len(t) = IF n + 1 > MaxPool THEN MaxPool ELSE n + 1
    BY Zenon, <1>3, <1>9
  <2>2. n <= MaxPool /\ MaxPool \in Nat
    BY <1>1, <1>2, PoolAssumption
  <2> QED
    BY ONLY <1>3, <2>1, <2>2
<1>11. t \in Seq(Hellos)
  BY Zenon, <1>9 DEF Good
<1>12. 1 \in 1 .. Len(t)
  BY <1>9, <1>11
<1>13. Fingerprint(t[1]) = Fingerprint(h)
  BY Zenon, <1>2, <1>9, <1>12
<1> QED
  BY Zenon, <1>2, <1>8, <1>9, <1>10, <1>13

(* The largest of the builds that are held aside. *)
LEMMA PromotedGood ==
    ASSUME NEW s \in Seq(Hellos), s # <<>>, Distinct(s), LargestBuild(s) # <<>>
    PROVE  Good(Newest(LargestBuild(s))) /\ Newest(LargestBuild(s)) # <<>>
<1>1. PICK fp \in Fingerprints(s) : LargestBuild(s) = Group(s, fp)
  BY Zenon, LargestBuildFacts
<1>2. PICK t : t = Group(s, fp)
  OBVIOUS
<1>3. t \in Seq(Hellos) /\ Kept(s, fp, Len(s), t)
  BY <1>2, GroupFacts
<1>4. \A k \in 1 .. Len(t) : Fingerprint(t[k]) = fp
  BY Zenon, <1>3 DEF Kept
<1>5. Distinct(t)
  BY <1>2, GroupDistinct
<1>6. t # <<>>
  BY Zenon, <1>1, <1>2
<1>7. Good(Newest(t)) /\ Newest(t) # <<>>
  BY Zenon, <1>3, <1>4, <1>5, <1>6, NewestGood
<1> QED
  BY Zenon, <1>1, <1>2, <1>7

(* The pool grew and nothing else changed. *)
LEMMA HeldBackMajority ==
    ASSUME NEW s, Good(s), NEW p, HeldBack(s, p), NEW h \in Hellos, Key(h) \notin Keys(s),
           s # <<>> => Fingerprint(h) = Fingerprint(s[1])
    PROVE  HeldBack(Newest(Append(s, h)), p)
<1>1. PICK t : t = Newest(Append(s, h))
  OBVIOUS
<1>2. t # <<>> /\ Len(s) <= Len(t) /\ Fingerprint(t[1]) = Fingerprint(h) /\ Good(t)
  BY Zenon, <1>1, MajorityGood
<1>3. /\ p \in Seq(Hellos) /\ Len(p) <= Budget /\ Distinct(p)
      /\ s = <<>> => p = <<>>
      /\ \A i \in 1 .. Len(p) : Fingerprint(p[i]) # Fingerprint(s[1])
      /\ \A fp \in Fingerprints(p) : Len(Group(p, fp)) <= Len(s)
  BY Zenon DEF HeldBack
<1>4. \A i \in 1 .. Len(p) : Fingerprint(p[i]) # Fingerprint(t[1])
  <2> SUFFICES ASSUME NEW i \in 1 .. Len(p)  PROVE Fingerprint(p[i]) # Fingerprint(t[1])
    OBVIOUS
  <2>1. p # <<>>
    BY <1>3
  <2> QED
    BY Zenon, <1>2, <1>3, <2>1
<1>5. \A fp \in Fingerprints(p) : Len(Group(p, fp)) <= Len(t)
  <2> SUFFICES ASSUME NEW fp \in Fingerprints(p)  PROVE Len(Group(p, fp)) <= Len(t)
    OBVIOUS
  <2>1. PICK g, m, n : g = Len(Group(p, fp)) /\ m = Len(s) /\ n = Len(t)
    OBVIOUS
  <2>2. g \in Nat
    BY <1>3, <2>1, GroupLength
  <2>3. s \in Seq(Hellos) /\ t \in Seq(Hellos)
    BY Zenon, <1>2 DEF Good
  <2>4. m \in Nat /\ n \in Nat
    BY <2>1, <2>3
  <2>5. g <= m /\ m <= n
    BY Zenon, <1>2, <1>3, <2>1
  <2>6. g <= n
    BY ONLY <2>2, <2>4, <2>5
  <2> QED
    BY Zenon, <2>1, <2>6
<1>6. HeldBack(t, p)
  BY Zenon, <1>2, <1>3, <1>4, <1>5 DEF HeldBack
<1> QED
  BY Zenon, <1>1, <1>6

(* A new hello of another build, with what is held aside already. *)
LEMMA SetAside ==
    ASSUME NEW s, NEW p, HeldBack(s, p), NEW h \in Hellos, Key(h) \notin Keys(p)
    PROVE  LET a == Append(p, h)
           IN  a \in Seq(Hellos) /\ a # <<>> /\ Distinct(a) /\ Len(a) <= Budget + 1
<1>1. p \in Seq(Hellos) /\ Len(p) <= Budget /\ Distinct(p)
  BY Zenon DEF HeldBack
<1>2. PICK a : a = Append(p, h)
  OBVIOUS
<1>3. a \in Seq(Hellos) /\ Len(a) = Len(p) + 1
  BY <1>1, <1>2, AppendProperties
<1>4. Len(p) \in Nat /\ Budget \in Nat
  BY <1>1, PoolAssumption DEF Budget
<1>5. a # <<>> /\ Len(a) <= Budget + 1
  BY <1>1, <1>3, <1>4
<1>6. Distinct(a)
  BY Zenon, <1>1, <1>2, AppendDistinct
<1> QED
  BY Zenon, <1>2, <1>3, <1>5, <1>6

(* The new sample is held aside and the budget kept. *)
LEMMA HeldBackMinority ==
    ASSUME NEW s, Good(s), NEW p, HeldBack(s, p), NEW h \in Hellos, Key(h) \notin Keys(p),
           s # <<>>, Fingerprint(h) # Fingerprint(s[1]),
           ~ (Len(LargestBuild(Append(p, h))) > Len(s))
    PROVE  HeldBack(s, Trim(Append(p, h)))
<1>1. PICK a, t : a = Append(p, h) /\ t = Trim(a)
  OBVIOUS
<1>2. a \in Seq(Hellos) /\ a # <<>> /\ Distinct(a) /\ Len(a) <= Budget + 1
  BY Zenon, <1>1, SetAside
<1>3. t \in Seq(Hellos) /\ PartOf(t, a) /\ Len(t) <= Budget
  BY Zenon, <1>1, <1>2, TrimFacts
<1>4. /\ \A k \in 1 .. Len(t) : \E i \in 1 .. Len(a) : t[k] = a[i]
      /\ Distinct(t)
      /\ \A fp : Len(Group(t, fp)) <= Len(Group(a, fp))
  BY <1>2, <1>3, PartFacts
<1>5. p \in Seq(Hellos) /\ \A i \in 1 .. Len(p) : Fingerprint(p[i]) # Fingerprint(s[1])
  BY Zenon DEF HeldBack
<1>6. \A i \in 1 .. Len(a) : Fingerprint(a[i]) # Fingerprint(s[1])
  <2>1. PICK n : n = Len(p)
    OBVIOUS
  <2>2. /\ n \in Nat /\ Len(a) = n + 1 /\ a[n + 1] = h
        /\ \A i \in 1 .. n : a[i] = p[i]
    BY <1>1, <1>5, <2>1, AppendProperties
  <2>3. \A i \in 1 .. n + 1 : i \in 1 .. n \/ i = n + 1
    BY <2>2
  <2> QED
    BY Zenon, <1>5, <2>1, <2>2, <2>3
<1>7. \A k \in 1 .. Len(t) : Fingerprint(t[k]) # Fingerprint(s[1])
  <2> SUFFICES ASSUME NEW k \in 1 .. Len(t)  PROVE Fingerprint(t[k]) # Fingerprint(s[1])
    OBVIOUS
  <2>1. PICK i \in 1 .. Len(a) : t[k] = a[i]
    BY Zenon, <1>4
  <2>2. Fingerprint(a[i]) # Fingerprint(s[1])
    BY Zenon, <1>6
  <2> QED
    BY Zenon, <2>1, <2>2
<1>8. ASSUME NEW fp \in Fingerprints(t)  PROVE Len(Group(t, fp)) <= Len(s)
  <2>1. PICK k \in 1 .. Len(t) : fp = Fingerprint(t[k])
    BY Zenon, <1>3, FingerprintsOfSeq
  <2>2. PICK i \in 1 .. Len(a) : t[k] = a[i]
    BY Zenon, <1>4
  <2>3. fp \in Fingerprints(a)
    BY Zenon, <1>2, <2>1, <2>2, FingerprintsOfSeq
  <2>4. PICK best \in Fingerprints(a) :
           /\ LargestBuild(a) = Group(a, best)
           /\ \A g \in Fingerprints(a) : Len(Group(a, g)) <= Len(Group(a, best))
    BY Zenon, <1>2, LargestBuildFacts
  <2>5. PICK x, y, z, n : x = Len(Group(t, fp)) /\ y = Len(Group(a, fp))
                            /\ z = Len(Group(a, best)) /\ n = Len(s)
    OBVIOUS
  <2>6. x <= y /\ y <= z /\ ~ (z > n)
    BY Zenon, <1>1, <1>4, <2>3, <2>4, <2>5
  <2>7. x \in Nat /\ y \in Nat /\ z \in Nat
    BY <1>2, <1>3, <2>5, GroupLength
  <2>8. n \in Nat
    <3>1. s \in Seq(Hellos)
      BY Zenon DEF Good
    <3> QED
      BY <2>5, <3>1
  <2>9. x <= n
    BY ONLY <2>6, <2>7, <2>8
  <2> QED
    BY Zenon, <2>5, <2>9
<1>9. HeldBack(s, t)
  BY Zenon, <1>3, <1>4, <1>7, <1>8 DEF HeldBack
<1> QED
  BY Zenon, <1>1, <1>9

(* Nothing is held aside. *)
LEMMA HeldBackNone ==
    ASSUME NEW s
    PROVE  HeldBack(s, <<>>)
<1>1. PICK p : p = <<>>
  OBVIOUS
<1>2. p \in Seq(Hellos) /\ Len(p) = 0 /\ 1 .. Len(p) = {}
  BY <1>1
<1>3. Len(p) <= Budget
  BY <1>2, PoolAssumption DEF Budget
<1>4. Distinct(p)
  BY Zenon, <1>2 DEF Distinct
<1>5. \A fp : fp \notin Fingerprints(p)
  BY Zenon, <1>2, FingerprintsOfSeq
<1>6. HeldBack(s, p)
  BY Zenon, <1>1, <1>2, <1>3, <1>4, <1>5 DEF HeldBack
<1> QED
  BY Zenon, <1>1, <1>6

(* No hello at all is a good pool. *)
LEMMA GoodNone == Good(<<>>)
<1>1. PICK p : p = <<>>
  OBVIOUS
<1>2. p \in Seq(Hellos) /\ Len(p) = 0 /\ 1 .. Len(p) = {}
  BY <1>1
<1>3. Len(p) <= MaxPool
  BY <1>2, PoolAssumption
<1>4. Good(p)
  BY Zenon, <1>2, <1>3 DEF Good, SameBuild, Distinct
<1> QED
  BY Zenon, <1>1, <1>4

-----------------------------------------------------------------------------
(* Offer *)

(* A new Harvester without a pool file. *)
LEMMA HarvestInit == Init => HarvestInv
<1> SUFFICES ASSUME Init  PROVE HarvestInv
  OBVIOUS
<1>1. hellos = <<>> /\ pending = <<>> /\ settled = "any"
  BY DEF Init
<1>2. Good(hellos)
  BY Zenon, <1>1, GoodNone
<1>3. HeldBack(hellos, pending)
  BY Zenon, <1>1, HeldBackNone
<1> QED
  BY Zenon, <1>1, <1>2, <1>3 DEF HarvestInv

(* A hello of the pool's build joins the pool. *)
LEMMA HarvestMajority ==
    ASSUME HarvestInv, NEW h \in Hellos, OfferMajority(h)
    PROVE  HarvestInv' /\ hellos' # <<>>
<1>1. Good(hellos) /\ HeldBack(hellos, pending) /\ settled \in {"any"} \cup {g.build : g \in Hellos}
  BY Zenon DEF HarvestInv
<1>2. /\ Key(h) \notin Keys(hellos) /\ (hellos # <<>> => Fingerprint(h) = Fingerprint(hellos[1]))
      /\ hellos' = Newest(Append(hellos, h)) /\ pending' = pending /\ settled' = settled
  BY Zenon DEF OfferMajority, OfPool
<1>3. Good(hellos') /\ hellos' # <<>>
  BY Zenon, <1>1, <1>2, MajorityGood
<1>4. HeldBack(hellos', pending')
  BY Zenon, <1>1, <1>2, HeldBackMajority
<1> QED
  BY Zenon, <1>1, <1>2, <1>3, <1>4 DEF HarvestInv

(* A sample of another build is held aside. *)
LEMMA HarvestMinority ==
    ASSUME HarvestInv, NEW h \in Hellos, OfferMinority(h)
    PROVE  HarvestInv'
<1>1. Good(hellos) /\ HeldBack(hellos, pending) /\ settled \in {"any"} \cup {g.build : g \in Hellos}
  BY Zenon DEF HarvestInv
<1>2. /\ Key(h) \notin Keys(pending) /\ hellos # <<>> /\ Fingerprint(h) # Fingerprint(hellos[1])
      /\ ~ (Len(LargestBuild(Append(pending, h))) > Len(hellos))
      /\ hellos' = hellos /\ pending' = Trim(Append(pending, h)) /\ settled' = settled
  BY Zenon DEF OfferMinority, HeldAside, OfPool, Outnumbers
<1>3. HeldBack(hellos', pending')
  BY Zenon, <1>1, <1>2, HeldBackMinority
<1> QED
  BY Zenon, <1>1, <1>2, <1>3 DEF HarvestInv

(* A build that outnumbers the pool becomes the pool. *)
LEMMA HarvestPromotes ==
    ASSUME HarvestInv, NEW h \in Hellos, OfferPromotes(h)
    PROVE  HarvestInv' /\ hellos' # <<>>
<1>1. Good(hellos) /\ HeldBack(hellos, pending) /\ settled \in {"any"} \cup {g.build : g \in Hellos}
  BY Zenon DEF HarvestInv
<1>2. PICK a, best : a = Append(pending, h) /\ best = LargestBuild(a)
  OBVIOUS
<1>3. /\ Key(h) \notin Keys(pending)
      /\ Len(best) > Len(hellos) /\ hellos' = Newest(best)
      /\ pending' = <<>> /\ settled' = settled
  BY Zenon, <1>2 DEF OfferPromotes, HeldAside, Outnumbers
<1>4. a \in Seq(Hellos) /\ a # <<>> /\ Distinct(a)
  BY Zenon, <1>1, <1>2, <1>3, SetAside
<1>5. best # <<>>
  <2>1. hellos \in Seq(Hellos)
    BY Zenon, <1>1 DEF Good
  <2>2. Len(hellos) \in Nat
    BY <2>1
  <2> QED
    BY <1>3, <2>2
<1>6. Good(hellos') /\ hellos' # <<>>
  BY Zenon, <1>2, <1>3, <1>4, <1>5, PromotedGood
<1>7. HeldBack(hellos', pending')
  BY Zenon, <1>3, HeldBackNone
<1> QED
  BY Zenon, <1>1, <1>3, <1>6, <1>7 DEF HarvestInv

(* No step breaks the pool. *)
LEMMA HarvestNext ==
    ASSUME HarvestInv, [Next]_vars
    PROVE  HarvestInv'
<1>1. CASE UNCHANGED vars
  <2>1. hellos' = hellos /\ pending' = pending /\ settled' = settled
    BY <1>1 DEF vars
  <2> QED
    BY Zenon, <2>1 DEF HarvestInv
<1>2. ASSUME NEW h \in Hellos, Offer(h)  PROVE HarvestInv'
  BY Zenon, <1>2, HarvestMajority, HarvestMinority, HarvestPromotes DEF Offer
<1>3. ASSUME NEW h \in Hellos, Settle(h.build)  PROVE HarvestInv'
  <2>1. hellos' = hellos /\ pending' = pending /\ settled' = h.build
    BY <1>3 DEF Settle
  <2>2. settled' \in {"any"} \cup {g.build : g \in Hellos}
    BY Zenon, <2>1
  <2> QED
    BY Zenon, <2>1, <2>2 DEF HarvestInv
<1> QED
  BY Zenon, <1>1, <1>2, <1>3 DEF Next

(* What the invariant says in the words of the properties. *)
LEMMA HarvestSafe ==
    ASSUME HarvestInv
    PROVE  TypeOK /\ OneBuild /\ MinorityWaits
<1>1. Good(hellos) /\ HeldBack(hellos, pending) /\ settled \in {"any"} \cup {h.build : h \in Hellos}
  BY Zenon DEF HarvestInv
<1>2. Coherent(hellos) /\ ToSet(hellos) \subseteq Hellos /\ Len(hellos) <= MaxPool
  BY Zenon, <1>1, GoodIsCoherent
<1>3. /\ pending \in Seq(Hellos) /\ Len(pending) <= Budget /\ Distinct(pending)
      /\ \A i \in 1 .. Len(pending) : Fingerprint(pending[i]) # Fingerprint(hellos[1])
      /\ \A fp \in Fingerprints(pending) : Len(Group(pending, fp)) <= Len(hellos)
  BY Zenon, <1>1 DEF HeldBack
<1>4. ToSet(pending) \subseteq Hellos
  BY Zenon, <1>3, ToSetFacts
<1>5. Cardinality(Keys(pending)) = Len(pending)
  BY Zenon, <1>3, DistinctCount
<1>6. \A f \in Fingerprints(pending) : f # Fingerprint(hellos[1])
  <2>1. \A f \in Fingerprints(pending) : \E i \in 1 .. Len(pending) : f = Fingerprint(pending[i])
    BY Zenon, <1>3, FingerprintsOfSeq
  <2> QED
    BY Zenon, <1>3, <2>1
<1>7. TypeOK
  BY Zenon, <1>1, <1>2, <1>3, <1>4 DEF TypeOK
<1>8. OneBuild
  BY Zenon, <1>2 DEF OneBuild
<1>9. MinorityWaits
  BY Zenon, <1>3, <1>5, <1>6 DEF MinorityWaits
<1> QED
  BY <1>7, <1>8, <1>9

(* However many hellos are offered, of whatever builds and in whatever     *)
(* order, the emit pool holds one build and each contribution once         *)
(* (Offer).                                                                *)
THEOREM PoolIsOneBuild == Spec => []OneBuild
<1>1. Init => HarvestInv
  BY HarvestInit
<1>2. HarvestInv /\ [Next]_vars => HarvestInv'
  BY HarvestNext
<1>3. HarvestInv => OneBuild
  BY HarvestSafe
<1> QED
  BY <1>1, <1>2, <1>3, PTL DEF Spec

(* What is held aside is of other builds than the pool, and none of it     *)
(* outnumbers the pool: the promotion is never missed (Offer).             *)
THEOREM MinoritiesAreHeld == Spec => []MinorityWaits
<1>1. Init => HarvestInv
  BY HarvestInit
<1>2. HarvestInv /\ [Next]_vars => HarvestInv'
  BY HarvestNext
<1>3. HarvestInv => MinorityWaits
  BY HarvestSafe
<1> QED
  BY <1>1, <1>2, <1>3, PTL DEF Spec

(* The two pools keep their bounds (pendingBudget, Harvester.max). *)
THEOREM PoolsStayBounded == Spec => []TypeOK
<1>1. Init => HarvestInv
  BY HarvestInit
<1>2. HarvestInv /\ [Next]_vars => HarvestInv'
  BY HarvestNext
<1>3. HarvestInv => TypeOK
  BY HarvestSafe
<1> QED
  BY <1>1, <1>2, <1>3, PTL DEF Spec

-----------------------------------------------------------------------------
(* NewHarvester *)

(* A step of the loop that reads the pool file back. *)
LoadStep(s, t, i) ==
    IF Len(t) >= MaxPool \/ Key(s[i]) \in Keys(t) THEN t ELSE Append(t, s[i])

(* NewHarvester reads a good pool back as it was. *)
LEMMA LoadedGood ==
    ASSUME NEW s, Good(s)
    PROVE  Loaded(s) = s
<1>1. s \in Seq(Hellos) /\ Len(s) <= MaxPool /\ Distinct(s)
  BY Zenon DEF Good
<1>2. PICK n, f : n = Len(s) /\ f = [i \in 0 .. n |-> SubSeq(s, 1, i)]
  OBVIOUS
<1>3. n \in Nat /\ n <= MaxPool /\ MaxPool \in Nat /\ n \in 0 .. n /\ 0 \in 0 .. n
  BY <1>1, <1>2, PoolAssumption
<1>4. ASSUME NEW i \in 0 .. n
      PROVE  /\ f[i] \in Seq(Hellos) /\ Len(f[i]) = i
             /\ \A k \in 1 .. i : f[i][k] = s[k]
  <2>1. PICK t : t = SubSeq(s, 1, i)
    OBVIOUS
  <2>2. t \in Seq(Hellos) /\ Len(t) = i /\ \A k \in 1 .. i : t[k] = s[k]
    BY <1>1, <1>2, <1>3, <2>1
  <2>3. f[i] = t
    BY Zenon, <1>2, <2>1
  <2> QED
    BY Zenon, <2>2, <2>3
<1>5. f[0] = <<>>
  BY <1>3, <1>4
<1>6. ASSUME NEW i \in 1 .. n  PROVE f[i] = LoadStep(s, f[i - 1], i)
  <2>1. PICK j, t, u, e : j = i - 1 /\ t = f[j] /\ u = f[i] /\ e = s[i]
    OBVIOUS
  <2>2. j \in 0 .. n /\ i \in 0 .. n /\ j < n /\ i = j + 1 /\ e \in Hellos
    <3>1. j \in 0 .. n /\ i \in 0 .. n /\ j < n /\ i = j + 1
      BY ONLY <1>3, <2>1, i \in 1 .. n
    <3>2. i \in 1 .. Len(s)
      BY Zenon, <1>2
    <3>3. s[i] \in Hellos
      BY ONLY <1>1, <3>2
    <3> QED
      BY Zenon, <2>1, <3>1, <3>3
  <2>3. t \in Seq(Hellos) /\ Len(t) = j /\ \A k \in 1 .. j : t[k] = s[k]
    BY Zenon, <1>4, <2>1, <2>2
  <2>4. u \in Seq(Hellos) /\ Len(u) = i /\ \A k \in 1 .. i : u[k] = s[k]
    BY Zenon, <1>4, <2>1, <2>2
  <2>5. ~ (Len(t) >= MaxPool)
    BY <1>3, <2>2, <2>3
  <2>6. Key(e) \notin Keys(t)
    <3> SUFFICES ASSUME Key(e) \in Keys(t)  PROVE FALSE
      OBVIOUS
    <3>1. PICK k \in 1 .. j : Key(e) = Key(t[k])
      BY Zenon, <2>3, KeysOfSeq
    <3>2. k \in 1 .. n /\ k < i /\ k \in 1 .. j
      BY <1>3, <2>2
    <3>3. Key(s[k]) # Key(s[i])
      BY Zenon, <1>1, <1>2, <3>2 DEF Distinct
    <3>4. t[k] = s[k]
      BY Zenon, <2>3, <3>2
    <3> QED
      BY Zenon, <2>1, <3>1, <3>3, <3>4
  <2>7. PICK v : v = Append(t, e)
    OBVIOUS
  <2>8. v \in Seq(Hellos) /\ Len(v) = j + 1 /\ v[j + 1] = e /\ \A k \in 1 .. j : v[k] = t[k]
    BY <2>2, <2>3, <2>7, AppendProperties
  <2>9. \A k \in 1 .. i : k \in 1 .. j \/ k = j + 1
    BY <2>2
  <2>10. \A k \in 1 .. i : u[k] = v[k]
    BY Zenon, <2>1, <2>2, <2>3, <2>4, <2>8, <2>9
  <2>11. Len(u) = Len(v)
    BY Zenon, <2>2, <2>4, <2>8
  <2>12. u = v
    BY <2>4, <2>8, <2>10, <2>11, SeqEqual
  <2> QED
    BY Zenon, <2>1, <2>5, <2>6, <2>7, <2>12 DEF LoadStep
<1>7. f = [i \in 0 .. n |-> IF i = 0 THEN <<>> ELSE LoadStep(s, f[i - 1], i)]
  <2>1. \A i \in 0 .. n : i # 0 => i \in 1 .. n
    BY <1>3
  <2>2. \A i \in 0 .. n : f[i] = IF i = 0 THEN <<>> ELSE LoadStep(s, f[i - 1], i)
    BY Zenon, <1>5, <1>6, <2>1
  <2> QED
    BY Zenon, <1>2, <2>2
<1>8. PICK c : Loaded(s) = c[n] /\ c = [i \in 0 .. n |-> IF i = 0 THEN <<>> ELSE LoadStep(s, c[i - 1], i)]
  <2>1. \E c : /\ Loaded(s) = c[Len(s)]
               /\ c = CHOOSE of : of = [i \in 0 .. Len(s) |->
                        IF i = 0 THEN <<>>
                        ELSE IF Len(of[i - 1]) >= MaxPool \/ Key(s[i]) \in Keys(of[i - 1]) THEN of[i - 1]
                        ELSE Append(of[i - 1], s[i])]
    BY DEF Loaded
  <2>2. \E c : /\ Loaded(s) = c[n]
               /\ c = CHOOSE of : of = [i \in 0 .. n |->
                        IF i = 0 THEN <<>> ELSE LoadStep(s, of[i - 1], i)]
    BY Zenon, <1>2, <2>1 DEF LoadStep
  <2>3. \E of : of = [i \in 0 .. n |-> IF i = 0 THEN <<>> ELSE LoadStep(s, of[i - 1], i)]
    BY Zenon, <1>7
  <2> QED
    BY Zenon, <2>2, <2>3
<1>9. c[0] = <<>> /\ \A i \in 0 .. n : i # 0 => c[i] = LoadStep(s, c[i - 1], i)
  BY Zenon, <1>3, <1>8
<1> DEFINE T == {m \in Nat : m <= n => c[m] = f[m]}
<1>10. 0 \in T
  BY <1>5, <1>9
<1>11. ASSUME NEW m \in Nat, m \in T, m + 1 <= n  PROVE c[m + 1] = f[m + 1]
  <2>1. PICK k : k = m + 1
    OBVIOUS
  <2>2. k \in 0 .. n /\ k \in 1 .. n /\ k # 0 /\ k - 1 = m /\ m <= n
    BY <1>3, <1>11, <2>1
  <2>3. c[m] = f[m]
    BY <1>11, <2>2
  <2>4. c[k] = LoadStep(s, c[m], k)
    BY Zenon, <1>9, <2>2
  <2>5. f[k] = LoadStep(s, f[m], k)
    BY Zenon, <1>6, <2>2
  <2> QED
    BY Zenon, <2>1, <2>3, <2>4, <2>5
<1>12. \A m \in Nat : m \in T => m + 1 \in T
  BY <1>11
<1> HIDE DEF T
<1>13. Nat \subseteq T
  BY <1>10, <1>12, SetInduction
<1>14. n \in T /\ n <= n
  BY <1>3, <1>13
<1>15. c[n] = f[n]
  BY <1>14 DEF T
<1>16. f[n] = s
  <2>1. PICK u : u = f[n]
    OBVIOUS
  <2>2. u \in Seq(Hellos) /\ Len(u) = n /\ \A k \in 1 .. n : u[k] = s[k]
    BY Zenon, <1>3, <1>4, <2>1
  <2>3. u = s
    BY <1>1, <1>2, <2>2, SeqEqual
  <2> QED
    BY Zenon, <2>1, <2>3
<1> QED
  BY Zenon, <1>8, <1>15, <1>16

(* largestBuild of a good pool is the pool. *)
LEMMA LargestOfGood ==
    ASSUME NEW s, Good(s), s # <<>>
    PROVE  LargestBuild(s) = s
<1>1. s \in Seq(Hellos)
  BY Zenon DEF Good
<1>2. PICK fp : fp = Fingerprint(s[1])
  OBVIOUS
<1>3. \A i \in 1 .. Len(s) : Fingerprint(s[i]) = fp
  BY Zenon, <1>2 DEF Good, SameBuild
<1>4. Fingerprints(s) = {fp}
  BY <1>1, <1>3, OneFingerprint
<1>5. Group(s, fp) = s
  BY <1>1, <1>3, GroupWhole
<1>6. \E g \in Fingerprints(s) : LargestBuild(s) = Group(s, g)
  BY Zenon, <1>1, LargestBuildFacts
<1> QED
  BY Zenon, <1>4, <1>5, <1>6

(* What largestBuild returns is of one build, whatever it is given. *)
LEMMA LargestIsOneBuild ==
    ASSUME NEW s \in Seq(Hellos)
    PROVE  Cardinality(Fingerprints(LargestBuild(s))) <= 1
<1>1. PICK fp : LargestBuild(s) = Group(s, fp)
  BY Zenon DEF LargestBuild
<1>2. PICK t : t = Group(s, fp)
  OBVIOUS
<1>3. t \in Seq(Hellos) /\ Kept(s, fp, Len(s), t)
  BY <1>2, GroupFacts
<1>4. \A k \in 1 .. Len(t) : Fingerprint(t[k]) = fp
  BY Zenon, <1>3 DEF Kept
<1>5. Cardinality(Fingerprints(t)) <= 1
  BY <1>3, <1>4, OneFingerprint
<1> QED
  BY Zenon, <1>1, <1>2, <1>5

-----------------------------------------------------------------------------
(* The pool file *)

(* The calls of Offer do not overlap. *)
OneAtATime == \E o : Offerers = {o}

(* The pool file is a whole good pool, and path.tmp is another inode. *)
DiskInv ==
    /\ path \in {NoFile} \cup Inodes /\ tmp \in {NoFile} \cup Inodes
    /\ content \in [Inodes -> Seq(Hellos)] /\ whole \in [Inodes -> BOOLEAN]
    /\ unsaved \in BOOLEAN /\ unread \in BOOLEAN /\ crashes \in 0 .. MaxCrashes
    /\ path # NoFile => tmp # path /\ whole[path] /\ Good(content[path]) /\ content[path] # <<>>

(* The calls, by their place. *)
CallTypes ==
    /\ offer \in [Offerers -> {"idle", "open", "write", "rename"}]
    /\ snapshot \in [Offerers -> Seq(Hellos)]
    /\ fd \in [Offerers -> {NoFile} \cup Inodes]

(* A call that writes has the pool as its snapshot; path.tmp is empty when *)
(* it is about to be written, and holds the snapshot when it is about to   *)
(* be renamed; between the calls the file is the pool, unless one failed   *)
(* or the process could not read it.                                       *)
CallInv(o) ==
    /\ offer[o] = "idle" => snapshot[o] = <<>> /\ (~unsaved /\ ~unread => FileLines = hellos)
    /\ offer[o] # "idle" => snapshot[o] = hellos /\ hellos # <<>>
    /\ fd[o] = IF offer[o] = "write" THEN tmp ELSE NoFile
    /\ offer[o] = "write" => tmp # NoFile /\ content[tmp] = <<>>
    /\ offer[o] = "rename" => tmp # NoFile /\ content[tmp] = snapshot[o] /\ whole[tmp]

FileInv == HarvestInv /\ DiskInv /\ CallTypes /\ \A o \in Offerers : CallInv(o)

(* One call needs three inodes. *)
LEMMA InodeFacts ==
    ASSUME NEW c, Offerers = {c}
    PROVE  Inodes = 1 .. 3 /\ NoFile \notin Inodes
<1>1. Cardinality(Offerers) = 1
  BY FS_Singleton
<1> QED
  BY <1>1 DEF Inodes, NoFile

(* The file at the first start. *)
LEMMA FileInitInv ==
    ASSUME NEW c, Offerers = {c}, FileInit
    PROVE  FileInv
<1>1. HarvestInv
  BY HarvestInit DEF FileInit
<1>2. DiskInv
  <2>1. content \in [Inodes -> Seq(Hellos)]
    BY DEF FileInit
  <2>2. whole \in [Inodes -> BOOLEAN] /\ unsaved \in BOOLEAN /\ unread \in BOOLEAN
    BY DEF FileInit
  <2>3. crashes \in 0 .. MaxCrashes
    BY CrashAssumption DEF FileInit
  <2>4. path = NoFile /\ tmp = NoFile
    BY DEF FileInit
  <2> QED
    BY Zenon, <2>1, <2>2, <2>3, <2>4 DEF DiskInv
<1>3. CallTypes
  BY DEF FileInit, CallTypes
<1>4. CallInv(c)
  <2>1. offer[c] = "idle" /\ snapshot[c] = <<>> /\ fd[c] = NoFile
    BY DEF FileInit
  <2>2. FileLines = hellos
    BY DEF FileInit, Init, FileLines
  <2> QED
    BY <2>1, <2>2 DEF CallInv
<1> QED
  BY <1>1, <1>2, <1>3, <1>4 DEF FileInv

(* The lines of a file that was empty are the ones written. *)
LEMMA OverlayEmpty ==
    ASSUME NEW lines \in Seq(Hellos)
    PROVE  Overlay(lines, <<>>) = lines
<1>1. PICK n, b : n = Len(lines) /\ b = SubSeq(<<>>, n + 1, 0)
  OBVIOUS
<1>2. n \in Nat
  BY <1>1
<1>3. b = <<>>
  BY <1>1, <1>2
<1>4. Len(<<>>) = 0
  OBVIOUS
<1>5. Overlay(lines, <<>>) = lines \o b
  BY Zenon, <1>1, <1>4 DEF Overlay
<1>6. lines \o <<>> = lines
  OBVIOUS
<1> QED
  BY Zenon, <1>3, <1>5, <1>6

(* Offer up to the unlock. *)
LEMMA FileOffer ==
    ASSUME NEW c, Offerers = {c}, FileInv, NEW h \in Hellos, OfferUnlocks(c, h)
    PROVE  FileInv'
<1>1. HarvestInv /\ DiskInv /\ CallTypes /\ CallInv(c)
  BY Zenon DEF FileInv
<1>2. /\ offer[c] = "idle" /\ fd' = fd /\ path' = path /\ tmp' = tmp /\ content' = content
      /\ whole' = whole /\ unsaved' = unsaved /\ unread' = unread /\ crashes' = crashes
  BY DEF OfferUnlocks, diskVars
<1>3. DiskInv'
  BY Zenon, <1>1, <1>2 DEF DiskInv
<1>4. fd[c] = NoFile
  BY Zenon, <1>1, <1>2 DEF CallInv
<1>5. CASE OfferMinority(h) /\ UNCHANGED <<offer, snapshot>>
  <2>1. offer' = offer /\ snapshot' = snapshot /\ hellos' = hellos
    BY <1>5 DEF OfferMinority
  <2>2. HarvestInv'
    BY <1>1, <1>5, HarvestMinority
  <2>3. CallTypes'
    BY Zenon, <1>1, <1>2, <2>1 DEF CallTypes
  <2>4. CallInv(c)'
    BY Zenon, <1>1, <1>2, <2>1 DEF CallInv, FileLines
  <2> QED
    BY Zenon, <1>3, <2>2, <2>3, <2>4 DEF FileInv
<1>6. CASE /\ OfferMajority(h) \/ OfferPromotes(h)
           /\ snapshot' = [snapshot EXCEPT ![c] = Snapshot]
           /\ offer' = [offer EXCEPT ![c] = "open"]
  <2>1. HarvestInv' /\ hellos' # <<>>
    BY Zenon, <1>1, <1>6, HarvestMajority, HarvestPromotes
  <2>2. hellos' \in Seq(Hellos)
    BY Zenon, <2>1 DEF HarvestInv, Good
  <2>3. CallTypes'
    BY <1>1, <1>2, <1>6, <2>2 DEF CallTypes, Snapshot
  <2>4. offer'[c] = "open" /\ snapshot'[c] = hellos'
    BY <1>1, <1>6 DEF CallTypes, Snapshot
  <2>5. CallInv(c)'
    BY <1>2, <1>4, <2>1, <2>4 DEF CallInv
  <2> QED
    BY Zenon, <1>3, <2>1, <2>3, <2>5 DEF FileInv
<1> QED
  BY Zenon, <1>5, <1>6 DEF OfferUnlocks

(* The steps that leave the pool alone leave what is known of it. *)
LEMMA HarvestKept ==
    ASSUME HarvestInv, UNCHANGED vars
    PROVE  HarvestInv' /\ hellos' = hellos
<1>1. hellos' = hellos /\ pending' = pending /\ settled' = settled
  BY DEF vars
<1> QED
  BY Zenon, <1>1 DEF HarvestInv

(* path.tmp is an inode of its own. *)
LEMMA TmpIsNotFile ==
    ASSUME NEW c, Offerers = {c}, FileInv, OpenTmp(c)
    PROVE  TmpInode \in Inodes /\ (path # NoFile => TmpInode # path)
<1>1. DiskInv /\ CallInv(c) /\ offer[c] = "open"
  BY Zenon DEF FileInv, OpenTmp
<1>2. Inodes = 1 .. 3 /\ NoFile \notin Inodes
  BY InodeFacts
<1>3. fd[c] = NoFile
  BY <1>1 DEF CallInv
<1>4. CASE tmp # NoFile
  BY Zenon, <1>1, <1>4 DEF DiskInv, TmpInode
<1>5. CASE tmp = NoFile
  <2>1. \E j \in Inodes : j # path /\ \A p \in Offerers : fd[p] # j
    <3>1. 1 \in Inodes /\ 2 \in Inodes /\ 1 # 2 /\ NoFile # 1 /\ NoFile # 2
      BY <1>2 DEF NoFile
    <3> QED
      BY Zenon, <1>3, <3>1
  <2>2. FreeInode \in Inodes /\ FreeInode # path
    BY <2>1 DEF FreeInode
  <2> QED
    BY Zenon, <1>5, <2>2 DEF TmpInode
<1> QED
  BY <1>4, <1>5

(* path.tmp is created or emptied; it is never the file. *)
LEMMA FileOpen ==
    ASSUME NEW c, Offerers = {c}, FileInv, OpenTmp(c)
    PROVE  FileInv'
<1>1. HarvestInv /\ DiskInv /\ CallTypes /\ CallInv(c)
  BY Zenon DEF FileInv
<1>2. /\ offer[c] = "open" /\ offer' = [offer EXCEPT ![c] = "write"]
      /\ snapshot' = snapshot /\ path' = path /\ unsaved' = unsaved /\ unread' = unread /\ crashes' = crashes
      /\ UNCHANGED vars
  BY DEF OpenTmp
<1>3. HarvestInv' /\ hellos' = hellos
  BY <1>1, <1>2, HarvestKept
<1>4. PICK i : i = TmpInode /\ tmp' = i /\ Store(c, i, <<>>) /\ fd' = [fd EXCEPT ![c] = i]
  BY Zenon DEF OpenTmp
<1>5. Inodes = 1 .. 3 /\ NoFile \notin Inodes
  BY InodeFacts
<1>6. fd[c] = NoFile
  BY Zenon, <1>1, <1>2 DEF CallInv
<1>7. i \in Inodes /\ (path # NoFile => i # path)
  BY <1>4, TmpIsNotFile
<1>8. i # NoFile
  BY Zenon, <1>5, <1>7
<1>9. /\ content' = [content EXCEPT ![i] = <<>>]
      /\ whole' = [whole EXCEPT ![i] = (<<>> = snapshot[c])]
  BY Zenon, <1>4 DEF Store
<1>10. DiskInv'
  <2>1. content' \in [Inodes -> Seq(Hellos)]
    BY <1>1, <1>7, <1>9 DEF DiskInv
  <2>2. whole' \in [Inodes -> BOOLEAN]
    BY <1>1, <1>7, <1>9 DEF DiskInv
  <2>3. ASSUME path # NoFile  PROVE i # path /\ whole'[path] = whole[path] /\ content'[path] = content[path]
    BY <1>1, <1>7, <1>9, <2>3 DEF DiskInv
  <2> QED
    BY Zenon, <1>1, <1>2, <1>4, <1>7, <2>1, <2>2, <2>3 DEF DiskInv
<1>11. CallTypes'
  BY <1>1, <1>2, <1>4, <1>7 DEF CallTypes
<1>12. offer'[c] = "write" /\ fd'[c] = i /\ content'[i] = <<>>
  BY <1>1, <1>2, <1>4, <1>7, <1>9 DEF CallTypes, DiskInv
<1>13. CallInv(c)'
  <2>1. snapshot[c] = hellos /\ hellos # <<>>
    BY <1>1, <1>2 DEF CallInv
  <2> QED
    BY <1>2, <1>3, <1>4, <1>8, <1>12, <2>1 DEF CallInv
<1> QED
  BY Zenon, <1>3, <1>10, <1>11, <1>13 DEF FileInv

(* path.tmp receives the whole snapshot. *)
LEMMA FileWrite ==
    ASSUME NEW c, Offerers = {c}, FileInv, WriteTmp(c)
    PROVE  FileInv'
<1>1. HarvestInv /\ DiskInv /\ CallTypes /\ CallInv(c)
  BY Zenon DEF FileInv
<1>2. /\ offer[c] = "write" /\ offer' = [offer EXCEPT ![c] = "rename"]
      /\ snapshot' = snapshot /\ path' = path /\ tmp' = tmp
      /\ unsaved' = unsaved /\ unread' = unread /\ crashes' = crashes
      /\ fd' = [fd EXCEPT ![c] = NoFile] /\ UNCHANGED vars
  BY DEF WriteTmp, Close
<1>3. HarvestInv' /\ hellos' = hellos
  BY <1>1, <1>2, HarvestKept
<1>4. /\ snapshot[c] = hellos /\ hellos # <<>> /\ fd[c] = tmp
      /\ tmp # NoFile /\ content[tmp] = <<>> /\ tmp \in Inodes
  BY Zenon, <1>1, <1>2 DEF CallInv, DiskInv
<1>5. PICK u : u = snapshot[c]
  OBVIOUS
<1>6. u \in Seq(Hellos)
  BY <1>1, <1>5 DEF CallTypes
<1>7. Overlay(snapshot[c], content[fd[c]]) = u
  BY Zenon, <1>4, <1>5, <1>6, OverlayEmpty
<1>8. /\ content' = [content EXCEPT ![tmp] = u]
      /\ whole' = [whole EXCEPT ![tmp] = (u = snapshot[c])]
  BY Zenon, <1>4, <1>7 DEF WriteTmp, Store
<1>9. DiskInv'
  <2>1. content' \in [Inodes -> Seq(Hellos)]
    BY <1>1, <1>6, <1>8 DEF DiskInv
  <2>2. whole' \in [Inodes -> BOOLEAN]
    BY <1>1, <1>8 DEF DiskInv
  <2>3. ASSUME path # NoFile  PROVE tmp # path /\ whole'[path] = whole[path] /\ content'[path] = content[path]
    BY <1>1, <1>8, <2>3 DEF DiskInv
  <2> QED
    BY Zenon, <1>1, <1>2, <2>1, <2>2, <2>3 DEF DiskInv
<1>10. CallTypes'
  BY <1>1, <1>2 DEF CallTypes
<1>11. offer'[c] = "rename" /\ fd'[c] = NoFile /\ content'[tmp] = u
  BY <1>1, <1>2, <1>4, <1>8 DEF CallTypes, DiskInv
<1>12. whole'[tmp]
  <2>1. whole'[tmp] = (u = snapshot[c])
    BY <1>1, <1>4, <1>8 DEF DiskInv
  <2> QED
    BY Zenon, <1>5, <2>1
<1>13. CallInv(c)'
  BY <1>2, <1>3, <1>4, <1>5, <1>11, <1>12 DEF CallInv
<1> QED
  BY Zenon, <1>3, <1>9, <1>10, <1>13 DEF FileInv

(* Offer returns an error; the inode it wrote to is not the file. *)
LEMMA FileReturns ==
    ASSUME NEW c, Offerers = {c}, FileInv, Return(c), unsaved' = TRUE, unread' = unread,
           UNCHANGED vars, path' = path, crashes' = crashes,
           fd' \in [Offerers -> {NoFile} \cup Inodes], fd'[c] = NoFile,
           tmp' = tmp \/ tmp' = NoFile,
           content' \in [Inodes -> Seq(Hellos)], whole' \in [Inodes -> BOOLEAN],
           path # NoFile => whole'[path] = whole[path] /\ content'[path] = content[path]
    PROVE  FileInv'
<1>1. HarvestInv /\ DiskInv /\ CallTypes /\ CallInv(c)
  BY Zenon DEF FileInv
<1>2. HarvestInv' /\ hellos' = hellos
  BY <1>1, HarvestKept
<1>3. offer' = [offer EXCEPT ![c] = "idle"] /\ snapshot' = [snapshot EXCEPT ![c] = <<>>]
  BY DEF Return
<1>4. CallTypes'
  BY <1>1, <1>3 DEF CallTypes
<1>5. offer'[c] = "idle" /\ snapshot'[c] = <<>>
  BY <1>1, <1>3 DEF CallTypes
<1>6. CallInv(c)'
  BY <1>5 DEF CallInv
<1>7. tmp' \in {NoFile} \cup Inodes /\ (path # NoFile => tmp' # path)
  BY Zenon, <1>1 DEF DiskInv
<1>8. DiskInv'
  BY Zenon, <1>1, <1>7 DEF DiskInv
<1> QED
  BY Zenon, <1>2, <1>4, <1>6, <1>8 DEF FileInv

(* path.tmp cannot be created. *)
LEMMA FileOpenFails ==
    ASSUME NEW c, Offerers = {c}, FileInv, OpenFails(c)
    PROVE  FileInv'
<1>1. DiskInv /\ CallTypes /\ CallInv(c)
  BY Zenon DEF FileInv
<1>2. /\ offer[c] = "open" /\ Return(c) /\ unsaved' = TRUE /\ unread' = unread /\ UNCHANGED vars
      /\ fd' = fd /\ path' = path /\ tmp' = tmp
      /\ content' = content /\ whole' = whole /\ crashes' = crashes
  BY DEF OpenFails
<1>3. fd'[c] = NoFile
  BY Zenon, <1>1, <1>2 DEF CallInv
<1>4. /\ fd' \in [Offerers -> {NoFile} \cup Inodes]
      /\ content' \in [Inodes -> Seq(Hellos)] /\ whole' \in [Inodes -> BOOLEAN]
      /\ whole'[path] = whole[path] /\ content'[path] = content[path]
  BY Zenon, <1>1, <1>2 DEF CallTypes, DiskInv
<1> QED
  BY <1>2, <1>3, <1>4, FileReturns

(* Part of the snapshot is written. *)
LEMMA FileWriteFails ==
    ASSUME NEW c, Offerers = {c}, FileInv, WriteFails(c)
    PROVE  FileInv'
<1>1. DiskInv /\ CallTypes /\ CallInv(c)
  BY Zenon DEF FileInv
<1>2. /\ offer[c] = "write" /\ Return(c) /\ unsaved' = TRUE /\ unread' = unread /\ UNCHANGED vars
      /\ fd' = [fd EXCEPT ![c] = NoFile] /\ path' = path /\ tmp' = tmp /\ crashes' = crashes
  BY DEF WriteFails, WritePart, Close
<1>3. PICK n \in 0 .. Len(snapshot[c]) - 1 :
         Store(c, fd[c], Overlay(SubSeq(snapshot[c], 1, n), content[fd[c]]))
  BY Zenon DEF WriteFails, WritePart
<1>4. PICK u, part : u = snapshot[c] /\ part = SubSeq(u, 1, n)
  OBVIOUS
<1>5. u \in Seq(Hellos) /\ n \in 0 .. Len(u) - 1
  BY <1>1, <1>3, <1>4 DEF CallTypes
<1>6. part \in Seq(Hellos)
  BY <1>4, <1>5
<1>7. fd[c] = tmp /\ tmp # NoFile /\ content[tmp] = <<>> /\ tmp \in Inodes
  BY Zenon, <1>1, <1>2 DEF CallInv, DiskInv
<1>8. Overlay(SubSeq(snapshot[c], 1, n), content[fd[c]]) = part
  BY Zenon, <1>4, <1>6, <1>7, OverlayEmpty
<1>9. /\ content' = [content EXCEPT ![tmp] = part]
      /\ whole' = [whole EXCEPT ![tmp] = (part = snapshot[c])]
  BY Zenon, <1>3, <1>7, <1>8 DEF Store
<1>10. content' \in [Inodes -> Seq(Hellos)]
  BY <1>1, <1>6, <1>9 DEF DiskInv
<1>11. whole' \in [Inodes -> BOOLEAN]
  BY <1>1, <1>9 DEF DiskInv
<1>12. path # NoFile => whole'[path] = whole[path] /\ content'[path] = content[path]
  BY <1>1, <1>9 DEF DiskInv
<1>13. fd' \in [Offerers -> {NoFile} \cup Inodes] /\ fd'[c] = NoFile
  BY <1>1, <1>2 DEF CallTypes
<1> QED
  BY <1>2, <1>10, <1>11, <1>12, <1>13, FileReturns

(* path.tmp is removed. *)
LEMMA FileRenameFails ==
    ASSUME NEW c, Offerers = {c}, FileInv, RenameFails(c)
    PROVE  FileInv'
<1>1. DiskInv /\ CallTypes /\ CallInv(c)
  BY Zenon DEF FileInv
<1>2. /\ offer[c] = "rename" /\ Return(c) /\ unsaved' = TRUE /\ unread' = unread /\ UNCHANGED vars
      /\ fd' = fd /\ path' = path /\ tmp' = NoFile
      /\ content' = content /\ whole' = whole /\ crashes' = crashes
  BY DEF RenameFails
<1>3. fd'[c] = NoFile
  BY <1>1, <1>2 DEF CallInv
<1>4. /\ fd' \in [Offerers -> {NoFile} \cup Inodes]
      /\ content' \in [Inodes -> Seq(Hellos)] /\ whole' \in [Inodes -> BOOLEAN]
      /\ whole'[path] = whole[path] /\ content'[path] = content[path]
  BY Zenon, <1>1, <1>2 DEF CallTypes, DiskInv
<1> QED
  BY <1>2, <1>3, <1>4, FileReturns

(* The file is replaced by the whole pool. *)
LEMMA FileRename ==
    ASSUME NEW c, Offerers = {c}, FileInv, RenameTmp(c)
    PROVE  FileInv'
<1>1. HarvestInv /\ DiskInv /\ CallTypes /\ CallInv(c)
  BY Zenon DEF FileInv
<1>2. /\ offer[c] = "rename" /\ UNCHANGED vars /\ path' = IF tmp = NoFile THEN path ELSE tmp
      /\ tmp' = NoFile /\ unsaved' = (tmp = NoFile) /\ unread' = (unread /\ tmp = NoFile)
      /\ fd' = fd /\ content' = content /\ whole' = whole /\ crashes' = crashes
      /\ offer' = [offer EXCEPT ![c] = "idle"] /\ snapshot' = [snapshot EXCEPT ![c] = <<>>]
  BY DEF RenameTmp, Return
<1>3. HarvestInv' /\ hellos' = hellos
  BY <1>1, <1>2, HarvestKept
<1>4. /\ snapshot[c] = hellos /\ hellos # <<>> /\ fd[c] = NoFile
      /\ tmp # NoFile /\ content[tmp] = snapshot[c] /\ whole[tmp]
  BY <1>1, <1>2 DEF CallInv
<1>5. path' = tmp /\ unsaved' = FALSE /\ unread' = FALSE
  BY Zenon, <1>2, <1>4
<1>6. Good(content[tmp]) /\ content[tmp] # <<>>
  BY Zenon, <1>1, <1>4 DEF HarvestInv
<1>7. DiskInv'
  BY Zenon, <1>1, <1>2, <1>4, <1>5, <1>6 DEF DiskInv
<1>8. CallTypes'
  BY <1>1, <1>2 DEF CallTypes
<1>9. offer'[c] = "idle" /\ snapshot'[c] = <<>>
  BY <1>1, <1>2 DEF CallTypes
<1>10. FileLines' = hellos'
  BY Zenon, <1>2, <1>3, <1>4, <1>5 DEF FileLines
<1>11. CallInv(c)'
  BY <1>2, <1>4, <1>9, <1>10 DEF CallInv
<1> QED
  BY Zenon, <1>3, <1>7, <1>8, <1>11 DEF FileInv

(* The process reads back the pool that is in the file, or nothing.        *)
LEMMA FileRestart ==
    ASSUME NEW c, Offerers = {c}, FileInv, NEW readable \in BOOLEAN, Restart(readable)
    PROVE  FileInv'
<1>1. HarvestInv /\ DiskInv /\ CallTypes /\ CallInv(c)
  BY Zenon DEF FileInv
<1>2. /\ hellos' = Loaded(ReadPoolFile(readable)) /\ pending' = <<>> /\ settled' = settled
      /\ offer' = [o \in Offerers |-> "idle"] /\ snapshot' = [o \in Offerers |-> <<>>]
      /\ fd' = [o \in Offerers |-> NoFile] /\ unsaved' = FALSE /\ unread' = ReadError(readable)
      /\ path' = path /\ tmp' = tmp /\ content' = content /\ whole' = whole
  BY DEF Restart
<1>3. Good(ReadPoolFile(readable)) /\ (~unread' => ReadPoolFile(readable) = FileLines)
  BY Zenon, <1>1, <1>2, GoodNone DEF DiskInv, FileLines, ReadPoolFile, ReadError
<1>4. hellos' = ReadPoolFile(readable)
  BY Zenon, <1>2, <1>3, LoadedGood
<1>5. HarvestInv'
  <2>1. HeldBack(hellos', pending')
    BY Zenon, <1>2, HeldBackNone
  <2> QED
    BY Zenon, <1>1, <1>2, <1>3, <1>4, <2>1 DEF HarvestInv
<1>6. crashes' \in 0 .. MaxCrashes
  BY <1>1, CrashAssumption DEF Restart, DiskInv
<1>7. DiskInv'
  <2>1. unread' \in BOOLEAN
    BY Zenon, <1>2 DEF ReadError
  <2> QED
    BY Zenon, <1>1, <1>2, <1>6, <2>1 DEF DiskInv
<1>8. CallTypes'
  BY <1>2 DEF CallTypes
<1>9. offer'[c] = "idle" /\ snapshot'[c] = <<>> /\ fd'[c] = NoFile
  BY <1>2
<1>10. FileLines' = FileLines
  BY Zenon, <1>2 DEF FileLines
<1>11. CallInv(c)'
  BY <1>3, <1>4, <1>9, <1>10 DEF CallInv
<1> QED
  BY Zenon, <1>5, <1>7, <1>8, <1>11 DEF FileInv

(* No step breaks the file. *)
LEMMA FileNextInv ==
    ASSUME OneAtATime, FileInv, [FileNext]_fileVars
    PROVE  FileInv'
<1>1. PICK c : Offerers = {c}
  BY DEF OneAtATime
<1>2. CASE UNCHANGED fileVars
  <2>1. /\ hellos' = hellos /\ pending' = pending /\ settled' = settled
        /\ offer' = offer /\ snapshot' = snapshot /\ fd' = fd
        /\ path' = path /\ tmp' = tmp /\ content' = content /\ whole' = whole
        /\ unsaved' = unsaved /\ unread' = unread /\ crashes' = crashes
    BY <1>2 DEF fileVars, vars, callVars, diskVars
  <2>2. HarvestInv'
    BY Zenon, <2>1 DEF FileInv, HarvestInv
  <2>3. DiskInv'
    BY Zenon, <2>1 DEF FileInv, DiskInv
  <2>4. CallTypes'
    BY Zenon, <2>1 DEF FileInv, CallTypes
  <2>5. \A o \in Offerers : CallInv(o)'
    BY Zenon, <2>1 DEF FileInv, CallInv, FileLines
  <2> QED
    BY Zenon, <2>2, <2>3, <2>4, <2>5 DEF FileInv
<1>3. ASSUME NEW h \in Hellos, OfferUnlocks(c, h)  PROVE FileInv'
  BY <1>1, <1>3, FileOffer
<1>4. CASE OpenTmp(c)
  BY <1>1, <1>4, FileOpen
<1>5. CASE WriteTmp(c)
  BY <1>1, <1>5, FileWrite
<1>6. CASE RenameTmp(c)
  BY <1>1, <1>6, FileRename
<1>7. CASE OpenFails(c)
  BY <1>1, <1>7, FileOpenFails
<1>8. CASE WriteFails(c)
  BY <1>1, <1>8, FileWriteFails
<1>9. CASE RenameFails(c)
  BY <1>1, <1>9, FileRenameFails
<1>10. ASSUME NEW readable \in BOOLEAN, Restart(readable)  PROVE FileInv'
  BY <1>1, <1>10, FileRestart
<1> QED
  BY Zenon, <1>1, <1>2, <1>3, <1>4, <1>5, <1>6, <1>7, <1>8, <1>9, <1>10 DEF FileNext

(* The first start, of whatever one call. *)
LEMMA FileInitAll ==
    ASSUME OneAtATime, FileInit
    PROVE  FileInv
<1>1. PICK c : Offerers = {c}
  BY DEF OneAtATime
<1> QED
  BY <1>1, FileInitInv

(* What the invariant says in the words of the properties of the file. *)
LEMMA FileSafe ==
    ASSUME OneAtATime, FileInv
    PROVE  FileIsWhole /\ FileIsCurrent /\ OneBuild /\ MinorityWaits
<1>1. PICK c : Offerers = {c}
  BY DEF OneAtATime
<1>2. HarvestInv /\ DiskInv /\ CallTypes /\ CallInv(c)
  BY Zenon, <1>1 DEF FileInv
<1>3. OneBuild /\ MinorityWaits
  BY <1>2, HarvestSafe
<1>4. FileIsWhole
  BY Zenon, <1>2, GoodIsCoherent DEF FileIsWhole, DiskInv
<1>5. FileIsCurrent
  BY Zenon, <1>1, <1>2 DEF FileIsCurrent, CallInv
<1> QED
  BY <1>3, <1>4, <1>5

(* Where calls of Offer do not overlap, the pool file is one whole         *)
(* snapshot of the pool, of one build, at whatever point the process dies  *)
(* or a write fails (writePoolFile).                                       *)
THEOREM FileStaysWhole ==
    ASSUME OneAtATime
    PROVE  FileSpec => []FileIsWhole
<1>1. FileInit => FileInv
  BY FileInitAll
<1>2. FileInv /\ [FileNext]_fileVars => FileInv'
  BY FileNextInv
<1>3. FileInv => FileIsWhole
  BY FileSafe
<1> QED
  BY <1>1, <1>2, <1>3, PTL DEF FileSpec

(* Where calls of Offer do not overlap, the file is the pool that the      *)
(* device emits from whenever no call is under way, unless a write has     *)
(* failed since the file was replaced or the process started without being *)
(* able to read it (Offer, NewHarvester).                                  *)
THEOREM FileStaysCurrent ==
    ASSUME OneAtATime
    PROVE  FileSpec => []FileIsCurrent
<1>1. FileInit => FileInv
  BY FileInitAll
<1>2. FileInv /\ [FileNext]_fileVars => FileInv'
  BY FileNextInv
<1>3. FileInv => FileIsCurrent
  BY FileSafe
<1> QED
  BY <1>1, <1>2, <1>3, PTL DEF FileSpec

(* Where calls of Offer do not overlap, neither a failed write, a failed   *)
(* read nor a restart leaves the device with a pool of two builds or with  *)
(* a contribution twice, or lets what is held aside outnumber the pool     *)
(* (NewHarvester).                                                         *)
THEOREM PoolSurvivesRestart ==
    ASSUME OneAtATime
    PROVE  FileSpec => [](OneBuild /\ MinorityWaits)
<1>1. FileInit => FileInv
  BY FileInitAll
<1>2. FileInv /\ [FileNext]_fileVars => FileInv'
  BY FileNextInv
<1>3. FileInv => OneBuild /\ MinorityWaits
  BY FileSafe
<1> QED
  BY <1>1, <1>2, <1>3, PTL DEF FileSpec

-----------------------------------------------------------------------------
(* What the file loses *)

(* The pool never falls behind the file that the process has read. *)
LearnedInv == ~unread => Len(FileLines) <= Len(hellos)

(* A call renames path.tmp, which holds the pool, over the file. *)
LEMMA FileLinesReplaced ==
    ASSUME NEW c, Offerers = {c}, FileInv, RenameTmp(c)
    PROVE  FileLines' = hellos /\ hellos' = hellos
<1>1. CallInv(c) /\ offer[c] = "rename"
  BY Zenon DEF FileInv, RenameTmp
<1>2. snapshot[c] = hellos /\ tmp # NoFile /\ content[tmp] = snapshot[c]
  BY <1>1 DEF CallInv
<1>3. path' = tmp /\ content' = content /\ hellos' = hellos
  BY Zenon, <1>2 DEF RenameTmp, vars
<1> QED
  BY Zenon, <1>2, <1>3 DEF FileLines

(* Nothing else changes what the file holds. *)
LEMMA FileLinesKept ==
    ASSUME NEW c, Offerers = {c}, FileInv, [FileNext]_fileVars, ~RenameTmp(c)
    PROVE  FileLines' = FileLines
<1>1. DiskInv /\ CallTypes /\ CallInv(c)
  BY Zenon DEF FileInv
<1>2. ASSUME path' = path, content' = content  PROVE FileLines' = FileLines
  BY Zenon, <1>2 DEF FileLines
<1>3. ASSUME path' = path, NEW i, path # NoFile => i # path,
             NEW lines, content' = [content EXCEPT ![i] = lines]
      PROVE  FileLines' = FileLines
  <2>1. path # NoFile => content'[path] = content[path]
    BY <1>1, <1>3 DEF DiskInv
  <2> QED
    BY Zenon, <1>3, <2>1 DEF FileLines
<1>4. CASE UNCHANGED fileVars
  BY <1>2, <1>4 DEF fileVars, diskVars
<1>5. ASSUME NEW readable \in BOOLEAN, Restart(readable)  PROVE FileLines' = FileLines
  BY <1>2, <1>5 DEF Restart
<1>6. ASSUME NEW h \in Hellos, OfferUnlocks(c, h)  PROVE FileLines' = FileLines
  BY <1>2, <1>6 DEF OfferUnlocks, diskVars
<1>7. CASE OpenFails(c) \/ RenameFails(c)
  BY <1>2, <1>7 DEF OpenFails, RenameFails
<1>8. CASE OpenTmp(c)
  <2>1. path' = path /\ content' = [content EXCEPT ![TmpInode] = <<>>]
    BY Zenon, <1>8 DEF OpenTmp, Store
  <2>2. path # NoFile => TmpInode # path
    BY <1>8, TmpIsNotFile
  <2> QED
    BY <1>3, <2>1, <2>2
<1>9. CASE WriteTmp(c) \/ WriteFails(c)
  <2>1. path' = path /\ offer[c] = "write"
    BY Zenon, <1>9 DEF WriteTmp, WriteFails, WritePart
  <2>2. \E lines : content' = [content EXCEPT ![fd[c]] = lines]
    BY Zenon, <1>9 DEF WriteTmp, WriteFails, WritePart, Store
  <2>3. fd[c] = tmp /\ (path # NoFile => tmp # path)
    BY <1>1, <2>1 DEF CallInv, DiskInv
  <2> QED
    BY <1>3, <2>1, <2>2, <2>3
<1> QED
  BY Zenon, <1>4, <1>5, <1>6, <1>7, <1>8, <1>9 DEF FileNext

(* What Offer puts into the pool leaves it no shorter. *)
LEMMA PoolGrows ==
    ASSUME HarvestInv, NEW h \in Hellos, OfferMajority(h) \/ OfferPromotes(h)
    PROVE  Len(hellos) <= Len(hellos')
<1>1. Good(hellos) /\ HeldBack(hellos, pending)
  BY Zenon DEF HarvestInv
<1>2. hellos \in Seq(Hellos) /\ Len(hellos) <= MaxPool
  BY Zenon, <1>1 DEF Good
<1>3. Len(hellos) \in Nat /\ MaxPool \in Nat
  BY <1>2, PoolAssumption
<1>4. ASSUME NEW s \in Seq(Hellos), Len(hellos) <= Len(s)  PROVE Len(hellos) <= Len(Newest(s))
  <2>1. Len(Newest(s)) = IF Len(s) > MaxPool THEN MaxPool ELSE Len(s)
    BY Zenon, NewestFacts
  <2>2. Len(s) \in Nat
    BY <1>4
  <2> QED
    BY <1>2, <1>3, <1>4, <2>1, <2>2
<1>5. CASE OfferMajority(h)
  <2>1. PICK a : a = Append(hellos, h)
    OBVIOUS
  <2>2. a \in Seq(Hellos) /\ Len(hellos) <= Len(a)
    BY <1>2, <1>3, <2>1
  <2>3. hellos' = Newest(a)
    BY Zenon, <1>5, <2>1 DEF OfferMajority
  <2> QED
    BY Zenon, <1>4, <2>2, <2>3
<1>6. CASE OfferPromotes(h)
  <2>1. PICK b, best : b = Append(pending, h) /\ best = LargestBuild(b)
    OBVIOUS
  <2>2. pending \in Seq(Hellos)
    BY Zenon, <1>1 DEF HeldBack
  <2>3. b \in Seq(Hellos) /\ b # <<>>
    BY <2>1, <2>2
  <2>4. \E fp : best = Group(b, fp)
    BY Zenon, <2>1, <2>3, LargestBuildFacts
  <2>5. best \in Seq(Hellos)
    BY Zenon, <2>3, <2>4, GroupFacts
  <2>6. Len(best) > Len(hellos) /\ hellos' = Newest(best)
    BY Zenon, <1>6, <2>1 DEF OfferPromotes, Outnumbers
  <2>7. Len(hellos) <= Len(best)
    BY <1>3, <2>5, <2>6
  <2> QED
    BY Zenon, <1>4, <2>5, <2>6, <2>7
<1> QED
  BY Zenon, <1>5, <1>6

(* No step lets the pool fall behind the file. *)
LEMMA LearnedNext ==
    ASSUME OneAtATime, FileInv, LearnedInv, [FileNext]_fileVars
    PROVE  LearnedInv'
<1>1. PICK c : Offerers = {c}
  BY DEF OneAtATime
<1>2. HarvestInv /\ DiskInv
  BY Zenon DEF FileInv
<1>3. Good(hellos) /\ Good(FileLines)
  BY Zenon, <1>2, GoodNone DEF HarvestInv, DiskInv, FileLines
<1>4. Len(hellos) \in Nat /\ Len(FileLines) \in Nat
  <2>1. hellos \in Seq(Hellos) /\ FileLines \in Seq(Hellos)
    BY Zenon, <1>3 DEF Good
  <2> QED
    BY <2>1
<1>5. ~RenameTmp(c) => FileLines' = FileLines
  BY <1>1, FileLinesKept
<1>6. ASSUME ~RenameTmp(c), unread' = unread, hellos' = hellos  PROVE LearnedInv'
  BY Zenon, <1>5, <1>6 DEF LearnedInv
<1>7. CASE RenameTmp(c)
  <2>1. FileLines' = hellos /\ hellos' = hellos
    BY <1>1, <1>7, FileLinesReplaced
  <2>2. Len(hellos) <= Len(hellos)
    BY <1>4
  <2> QED
    BY Zenon, <2>1, <2>2 DEF LearnedInv
<1>8. CASE UNCHANGED fileVars
  BY <1>6, <1>7, <1>8 DEF fileVars, vars, diskVars
<1>9. ASSUME ~RenameTmp(c), NEW h \in Hellos, OfferUnlocks(c, h)  PROVE LearnedInv'
  <2>1. unread' = unread /\ FileLines' = FileLines
    BY <1>5, <1>9 DEF OfferUnlocks, diskVars
  <2>2. hellos' = hellos \/ Len(hellos) <= Len(hellos')
    BY Zenon, <1>2, <1>9, PoolGrows DEF OfferUnlocks, OfferMinority
  <2>3. Good(hellos')
    BY Zenon, <1>2, <1>9, HarvestMajority, HarvestMinority, HarvestPromotes DEF OfferUnlocks, HarvestInv
  <2>4. hellos' \in Seq(Hellos)
    BY Zenon, <2>3 DEF Good
  <2>5. Len(hellos') \in Nat
    BY <2>4
  <2>6. Len(FileLines) <= Len(hellos) => Len(FileLines) <= Len(hellos')
    <3>1. CASE hellos' = hellos
      BY Zenon, <3>1
    <3>2. CASE Len(hellos) <= Len(hellos')
      BY <1>4, <2>5, <3>2
    <3> QED
      BY Zenon, <2>2, <3>1, <3>2
  <2> QED
    BY Zenon, <2>1, <2>6 DEF LearnedInv
<1>10. ASSUME ~RenameTmp(c),
              OpenTmp(c) \/ WriteTmp(c) \/ OpenFails(c) \/ WriteFails(c) \/ RenameFails(c)
       PROVE  LearnedInv'
  <2>1. unread' = unread /\ UNCHANGED vars
    BY Zenon, <1>10 DEF OpenTmp, WriteTmp, OpenFails, WriteFails, WritePart, RenameFails
  <2>2. hellos' = hellos
    BY <2>1 DEF vars
  <2> QED
    BY Zenon, <1>6, <1>10, <2>1, <2>2
<1>11. ASSUME ~RenameTmp(c), NEW readable \in BOOLEAN, Restart(readable)  PROVE LearnedInv'
  <2>1. hellos' = Loaded(ReadPoolFile(readable)) /\ unread' = ReadError(readable)
    BY Zenon, <1>11 DEF Restart
  <2>2. ASSUME ~unread'  PROVE ReadPoolFile(readable) = FileLines
    BY Zenon, <2>1, <2>2 DEF ReadPoolFile, ReadError, FileLines
  <2>3. ~unread' => hellos' = FileLines
    BY Zenon, <1>3, <2>1, <2>2, LoadedGood
  <2>4. Len(FileLines) <= Len(FileLines)
    BY <1>4
  <2> QED
    BY Zenon, <1>5, <1>11, <2>3, <2>4 DEF LearnedInv
<1> QED
  BY Zenon, <1>1, <1>7, <1>8, <1>9, <1>10, <1>11 DEF FileNext

(* Where calls of Offer do not overlap, the file is never replaced by a    *)
(* shorter pool, whatever failed or died in between, but after a start     *)
(* that could not read it: only then is what the device learned lost       *)
(* (NewHarvester, Offer).                                                  *)
THEOREM FileNeverShrinks ==
    ASSUME OneAtATime
    PROVE  FileSpec => NeverShrinks
<1> DEFINE Step == FileReplaced /\ ~unread => Len(FileLines') >= Len(FileLines)
           I == FileInv /\ LearnedInv
<1>1. FileInit => I
  <2> SUFFICES ASSUME FileInit  PROVE I
    OBVIOUS
  <2>1. FileInv
    BY FileInitAll
  <2>2. path = NoFile /\ hellos = <<>>
    BY DEF FileInit, Init
  <2>3. Len(FileLines) <= Len(hellos)
    BY <2>2 DEF FileLines
  <2> QED
    BY <2>1, <2>3 DEF LearnedInv
<1>2. I /\ [FileNext]_fileVars => I'
  BY FileNextInv, LearnedNext
<1>3. I /\ [FileNext]_fileVars => [Step]_diskVars
  <2> SUFFICES ASSUME FileInv, LearnedInv, [FileNext]_fileVars, FileReplaced, ~unread
               PROVE  Len(FileLines') >= Len(FileLines)
    OBVIOUS
  <2>1. PICK c : Offerers = {c}
    BY DEF OneAtATime
  <2>2. RenameTmp(c)
    BY Zenon, <2>1, FileLinesKept DEF FileReplaced
  <2>3. FileLines' = hellos
    BY <2>1, <2>2, FileLinesReplaced
  <2>4. Len(FileLines) <= Len(FileLines')
    BY Zenon, <2>3 DEF LearnedInv
  <2>5. Good(hellos) /\ Good(FileLines)
    BY Zenon, GoodNone DEF FileInv, HarvestInv, DiskInv, FileLines
  <2>6. FileLines \in Seq(Hellos) /\ FileLines' \in Seq(Hellos)
    BY Zenon, <2>3, <2>5 DEF Good
  <2>7. Len(FileLines) \in Nat /\ Len(FileLines') \in Nat
    BY <2>6
  <2> QED
    BY <2>4, <2>7
<1> HIDE DEF Step, I
<1>4. FileSpec => [][Step]_diskVars
  BY <1>1, <1>2, <1>3, PTL DEF FileSpec
<1> QED
  BY <1>4 DEF NeverShrinks, Step

-----------------------------------------------------------------------------
(* Calls of Offer that overlap *)

(* The pool in memory until the process first reads a file back. *)
FirstRun == crashes \in Nat /\ (crashes = 0 => HarvestInv)

(* No step of any call breaks the pool in memory; only Restart takes it    *)
(* from the file.                                                          *)
LEMMA FirstRunNext ==
    ASSUME FirstRun, [FileNext]_fileVars
    PROVE  FirstRun'
<1> SUFFICES crashes' \in Nat /\ (crashes' = 0 => HarvestInv')
  BY Zenon DEF FirstRun
<1>1. crashes \in Nat /\ (crashes = 0 => HarvestInv)
  BY Zenon DEF FirstRun
<1>2. ASSUME UNCHANGED vars, crashes' = crashes
      PROVE  crashes' \in Nat /\ (crashes' = 0 => HarvestInv')
  BY Zenon, <1>1, <1>2, HarvestKept
<1>3. CASE UNCHANGED fileVars
  BY Zenon, <1>2, <1>3 DEF fileVars
<1>4. ASSUME NEW o \in Offerers, NEW h \in Hellos, OfferUnlocks(o, h)
      PROVE  crashes' \in Nat /\ (crashes' = 0 => HarvestInv')
  <2>1. crashes' = crashes /\ (OfferMinority(h) \/ OfferMajority(h) \/ OfferPromotes(h))
    BY Zenon, <1>4 DEF OfferUnlocks
  <2> QED
    BY Zenon, <1>1, <2>1, HarvestMajority, HarvestMinority, HarvestPromotes
<1>5. ASSUME NEW o \in Offerers,
             \/ OpenTmp(o) \/ WriteTmp(o) \/ RenameTmp(o)
             \/ OpenFails(o) \/ WriteFails(o) \/ RenameFails(o)
      PROVE  crashes' \in Nat /\ (crashes' = 0 => HarvestInv')
  <2>1. UNCHANGED vars /\ crashes' = crashes
    BY Zenon, <1>5 DEF OpenTmp, WriteTmp, RenameTmp, OpenFails, WriteFails, WritePart, RenameFails
  <2> QED
    BY Zenon, <1>2, <2>1
<1>6. ASSUME NEW readable \in BOOLEAN, Restart(readable)
      PROVE  crashes' \in Nat /\ (crashes' = 0 => HarvestInv')
  <2>1. crashes' = crashes + 1
    BY <1>6 DEF Restart
  <2>2. crashes' \in Nat /\ crashes' # 0
    BY <1>1, <2>1
  <2> QED
    BY Zenon, <2>2
<1> QED
  BY Zenon, <1>3, <1>4, <1>5, <1>6 DEF FileNext

(* However many calls of Offer overlap and whatever becomes of their       *)
(* writes, the pool in memory is one build with each contribution once,    *)
(* and nothing held aside outnumbers it, as long as the process runs: the  *)
(* lock covers all that Offer does to it (Offer).  Only a file that two    *)
(* calls tore, read back at the next start, can mix builds.                *)
THEOREM PoolSurvivesOverlap ==
    FileSpec => [](crashes = 0 => OneBuild /\ MinorityWaits)
<1>1. FileInit => FirstRun
  BY HarvestInit DEF FileInit, FirstRun
<1>2. FirstRun /\ [FileNext]_fileVars => FirstRun'
  BY FirstRunNext
<1>3. FirstRun => (crashes = 0 => OneBuild /\ MinorityWaits)
  BY Zenon, HarvestSafe DEF FirstRun
<1> QED
  BY <1>1, <1>2, <1>3, PTL DEF FileSpec

(* A pool that keeps its bound and holds each contribution once. *)
Sound(s, n) == s \in Seq(Hellos) /\ Len(s) <= n /\ Distinct(s)

(* One more line keeps what is known of the loop. *)
LEMMA LoadStepSound ==
    ASSUME NEW s \in Seq(Hellos), NEW i \in 1 .. Len(s), NEW t, Sound(t, MaxPool)
    PROVE  Sound(LoadStep(s, t, i), MaxPool)
<1>1. PICK h, a : h = s[i] /\ a = Append(t, h)
  OBVIOUS
<1>2. h \in Hellos /\ t \in Seq(Hellos) /\ Len(t) <= MaxPool /\ Distinct(t)
  BY <1>1 DEF Sound
<1>3. LoadStep(s, t, i) = IF Len(t) >= MaxPool \/ Key(h) \in Keys(t) THEN t ELSE a
  BY Zenon, <1>1 DEF LoadStep
<1>4. CASE Len(t) >= MaxPool \/ Key(h) \in Keys(t)
  BY Zenon, <1>3, <1>4
<1>5. CASE ~ (Len(t) >= MaxPool) /\ Key(h) \notin Keys(t)
  <2>1. a \in Seq(Hellos) /\ Len(a) = Len(t) + 1
    BY <1>1, <1>2, AppendProperties
  <2>2. Len(t) \in Nat /\ MaxPool \in Nat
    BY <1>2, PoolAssumption
  <2>3. Len(a) <= MaxPool
    BY <1>5, <2>1, <2>2
  <2>4. Distinct(a)
    BY Zenon, <1>1, <1>2, <1>5, AppendDistinct
  <2>5. Sound(a, MaxPool)
    BY Zenon, <2>1, <2>3, <2>4 DEF Sound
  <2> QED
    BY Zenon, <1>3, <1>5, <2>5
<1> QED
  BY Zenon, <1>4, <1>5

(* Whatever the lines of the file are, NewHarvester takes no more than     *)
(* MaxPool of them and no contribution twice.                              *)
LEMMA LoadedSound ==
    ASSUME NEW s \in Seq(Hellos)
    PROVE  Sound(Loaded(s), MaxPool)
<1>1. PICK n, Q : n = Len(s) /\ Q = Seq(Hellos)
  OBVIOUS
<1>2. n \in Nat /\ 0 \in 0 .. n /\ n \in 0 .. n /\ \A i \in 1 .. n : s[i] \in Hellos
  BY <1>1
<1>3. \A i \in 1 .. n, t \in Q : LoadStep(s, t, i) \in Q
  <2> SUFFICES ASSUME NEW i \in 1 .. n, NEW t \in Q  PROVE LoadStep(s, t, i) \in Q
    OBVIOUS
  <2>1. Append(t, s[i]) \in Q
    BY <1>1, <1>2, AppendProperties
  <2> QED
    BY Zenon, <2>1 DEF LoadStep
<1>4. PICK step : step = [x \in (1 .. n) \X Q |-> LoadStep(s, x[2], x[1])]
  OBVIOUS
<1>5. step \in [(1 .. n) \X Q -> Q]
  <2>1. \A x \in (1 .. n) \X Q : x[1] \in 1 .. n /\ x[2] \in Q
    OBVIOUS
  <2>2. \A x \in (1 .. n) \X Q : LoadStep(s, x[2], x[1]) \in Q
    BY Zenon, <1>3, <2>1
  <2> QED
    BY Zenon, <1>4, <2>2
<1>6. \A i \in 1 .. n, t \in Q : step[<<i, t>>] = LoadStep(s, t, i)
  <2> SUFFICES ASSUME NEW i \in 1 .. n, NEW t \in Q  PROVE step[<<i, t>>] = LoadStep(s, t, i)
    OBVIOUS
  <2>1. PICK x : x = <<i, t>>
    OBVIOUS
  <2>2. x \in (1 .. n) \X Q /\ x[1] = i /\ x[2] = t
    BY <2>1
  <2> QED
    BY Zenon, <1>4, <2>1, <2>2
<1>7. PICK e : e = <<>>
  OBVIOUS
<1>8. e \in Q
  BY <1>1, <1>7
<1>9. PICK f \in [0 .. n -> Q] : f[0] = e /\ \A i \in 1 .. n : f[i] = step[<<i, f[i - 1]>>]
  <2>1. LoopRuns(Q, n, e, step)
    BY <1>2, <1>5, <1>8, LoopExists
  <2> QED
    BY Zenon, <2>1 DEF LoopRuns
<1>10. f = [i \in 0 .. n |-> IF i = 0 THEN <<>> ELSE LoadStep(s, f[i - 1], i)]
  <2>1. \A i \in 0 .. n : i # 0 => i \in 1 .. n /\ i - 1 \in 0 .. n
    BY <1>2
  <2>2. \A i \in 0 .. n : f[i] = IF i = 0 THEN <<>> ELSE LoadStep(s, f[i - 1], i)
    BY Zenon, <1>6, <1>7, <1>9, <2>1
  <2> QED
    BY Zenon, <2>2
<1>11. PICK c : Loaded(s) = c[n] /\ c = [i \in 0 .. n |-> IF i = 0 THEN <<>> ELSE LoadStep(s, c[i - 1], i)]
  <2>1. \E c : /\ Loaded(s) = c[Len(s)]
               /\ c = CHOOSE of : of = [i \in 0 .. Len(s) |->
                        IF i = 0 THEN <<>>
                        ELSE IF Len(of[i - 1]) >= MaxPool \/ Key(s[i]) \in Keys(of[i - 1]) THEN of[i - 1]
                        ELSE Append(of[i - 1], s[i])]
    BY DEF Loaded
  <2>2. \E c : /\ Loaded(s) = c[n]
               /\ c = CHOOSE of : of = [i \in 0 .. n |->
                        IF i = 0 THEN <<>> ELSE LoadStep(s, of[i - 1], i)]
    BY Zenon, <1>1, <2>1 DEF LoadStep
  <2>3. \E of : of = [i \in 0 .. n |-> IF i = 0 THEN <<>> ELSE LoadStep(s, of[i - 1], i)]
    BY Zenon, <1>10
  <2> QED
    BY Zenon, <2>2, <2>3
<1>12. c[0] = <<>> /\ \A i \in 0 .. n : i # 0 => c[i] = LoadStep(s, c[i - 1], i)
  BY Zenon, <1>2, <1>11
<1> DEFINE T == {m \in Nat : m <= n => Sound(c[m], MaxPool)}
<1>13. 0 \in T
  <2>1. Sound(<<>>, MaxPool)
    BY Zenon, GoodNone DEF Good, Sound
  <2>2. Sound(c[0], MaxPool)
    BY Zenon, <1>12, <2>1
  <2> QED
    BY <2>2
<1>14. ASSUME NEW m \in Nat, m \in T, m + 1 <= n  PROVE Sound(c[m + 1], MaxPool)
  <2>1. PICK k : k = m + 1
    OBVIOUS
  <2>2. k \in 0 .. n /\ k \in 1 .. n /\ k # 0 /\ k - 1 = m /\ m <= n
    BY <1>2, <1>14, <2>1
  <2>3. Sound(c[m], MaxPool)
    BY <1>14, <2>2
  <2>4. c[k] = LoadStep(s, c[m], k)
    BY Zenon, <1>12, <2>2
  <2>5. Sound(c[k], MaxPool)
    BY Zenon, <1>1, <2>2, <2>3, <2>4, LoadStepSound
  <2> QED
    BY Zenon, <2>1, <2>5
<1>15. \A m \in Nat : m \in T => m + 1 \in T
  BY <1>14
<1> HIDE DEF T
<1>16. Nat \subseteq T
  BY <1>13, <1>15, SetInduction
<1>17. n \in T /\ n <= n
  BY <1>2, <1>16
<1>18. Sound(c[n], MaxPool)
  BY <1>17 DEF T
<1> QED
  BY Zenon, <1>11, <1>18

(* The two pools in memory, whatever was read at the start. *)
MemoryInv ==
    /\ Sound(hellos, MaxPool) /\ Sound(pending, Budget)
    /\ settled \in {"any"} \cup {h.build : h \in Hellos}

(* Offer keeps their bounds and takes no contribution twice, whatever      *)
(* builds the pool mixes.                                                  *)
LEMMA MemoryOffer ==
    ASSUME MemoryInv, NEW h \in Hellos, OfferMinority(h) \/ OfferMajority(h) \/ OfferPromotes(h)
    PROVE  MemoryInv'
<1>1. /\ hellos \in Seq(Hellos) /\ Len(hellos) <= MaxPool /\ Distinct(hellos)
      /\ pending \in Seq(Hellos) /\ Len(pending) <= Budget /\ Distinct(pending)
      /\ settled \in {"any"} \cup {g.build : g \in Hellos}
  BY Zenon DEF MemoryInv, Sound
<1>2. MaxPool \in Nat /\ Budget = MaxPool + 1
  BY PoolAssumption DEF Budget
<1>3. ASSUME NEW s \in Seq(Hellos), Distinct(s)  PROVE Sound(Newest(s), MaxPool)
  <2>1. PICK t : t = Newest(s)
    OBVIOUS
  <2>2. /\ t \in Seq(Hellos) /\ PartOf(t, s)
        /\ Len(t) = IF Len(s) > MaxPool THEN MaxPool ELSE Len(s)
    BY Zenon, <1>3, <2>1, NewestFacts
  <2>3. Distinct(t)
    BY Zenon, <1>3, <2>2, PartFacts
  <2>4. Len(s) \in Nat
    BY <1>3
  <2>5. Len(t) <= MaxPool
    BY <1>2, <2>2, <2>4
  <2> QED
    BY Zenon, <2>1, <2>2, <2>3, <2>5 DEF Sound
<1>4. PICK a, b : a = Append(hellos, h) /\ b = Append(pending, h)
  OBVIOUS
<1>5. /\ a \in Seq(Hellos) /\ b \in Seq(Hellos) /\ b # <<>>
      /\ Len(b) = Len(pending) + 1 /\ Len(pending) \in Nat
  BY <1>1, <1>4, AppendProperties
<1>6. CASE OfferMajority(h)
  <2>1. Key(h) \notin Keys(hellos) /\ hellos' = Newest(a) /\ pending' = pending /\ settled' = settled
    BY Zenon, <1>4, <1>6 DEF OfferMajority
  <2>2. Distinct(a)
    BY Zenon, <1>1, <1>4, <2>1, AppendDistinct
  <2>3. Sound(hellos', MaxPool)
    BY Zenon, <1>3, <1>5, <2>1, <2>2
  <2> QED
    BY Zenon, <2>1, <2>3 DEF MemoryInv
<1>7. ASSUME Key(h) \notin Keys(pending)  PROVE Distinct(b)
  BY Zenon, <1>1, <1>4, <1>7, AppendDistinct
<1>8. CASE OfferMinority(h)
  <2>1. Key(h) \notin Keys(pending) /\ hellos' = hellos /\ pending' = Trim(b) /\ settled' = settled
    BY Zenon, <1>4, <1>8 DEF OfferMinority, HeldAside
  <2>2. PICK t : t = Trim(b)
    OBVIOUS
  <2>3. Len(b) <= Budget + 1
    BY <1>1, <1>2, <1>5
  <2>4. t \in Seq(Hellos) /\ PartOf(t, b) /\ Len(t) <= Budget
    BY Zenon, <1>5, <2>2, <2>3, TrimFacts
  <2>5. Distinct(t)
    BY Zenon, <1>5, <1>7, <2>1, <2>4, PartFacts
  <2>6. Sound(pending', Budget)
    BY Zenon, <2>1, <2>2, <2>4, <2>5 DEF Sound
  <2> QED
    BY Zenon, <2>1, <2>6 DEF MemoryInv
<1>9. CASE OfferPromotes(h)
  <2>1. PICK u : u = LargestBuild(b)
    OBVIOUS
  <2>2. Key(h) \notin Keys(pending) /\ hellos' = Newest(u) /\ pending' = <<>> /\ settled' = settled
    BY Zenon, <1>4, <1>9, <2>1 DEF OfferPromotes, HeldAside
  <2>3. PICK fp : u = Group(b, fp)
    BY Zenon, <1>5, <2>1, LargestBuildFacts
  <2>4. u \in Seq(Hellos) /\ Distinct(u)
    BY Zenon, <1>5, <1>7, <2>2, <2>3, GroupFacts, GroupDistinct
  <2>5. Sound(hellos', MaxPool)
    BY Zenon, <1>3, <2>2, <2>4
  <2>6. Sound(<<>>, Budget)
    <3>1. 0 <= Budget /\ Len(<<>>) = 0
      BY <1>2
    <3> QED
      BY Zenon, <3>1, GoodNone DEF Good, Sound
  <2> QED
    BY Zenon, <2>2, <2>5, <2>6 DEF MemoryInv
<1> QED
  BY Zenon, <1>6, <1>8, <1>9

(* The directory and the inodes; nothing is said of which snapshot a file  *)
(* holds.                                                                  *)
DirectoryInv ==
    /\ path \in {NoFile} \cup Inodes /\ tmp \in {NoFile} \cup Inodes
    /\ content \in [Inodes -> Seq(Hellos)] /\ whole \in [Inodes -> BOOLEAN]
    /\ unsaved \in BOOLEAN /\ unread \in BOOLEAN /\ crashes \in 0 .. MaxCrashes

(* A snapshot is no longer than a pool, and a call that writes has a file  *)
(* open.                                                                   *)
WritersInv ==
    /\ CallTypes
    /\ \A o \in Offerers : /\ Len(snapshot[o]) <= MaxPool
                           /\ offer[o] = "write" => fd[o] # NoFile

OverlapInv == MemoryInv /\ DirectoryInv /\ WritersInv

(* There is an inode left for path.tmp: each call has one open at most,    *)
(* and the file is another.                                                *)
LEMMA FreeInodeExists ==
    ASSUME WritersInv
    PROVE  FreeInode \in Inodes
<1>1. PICK c, U, R : /\ c = Cardinality(Offerers) /\ R = {fd[o] : o \in Offerers}
                     /\ U = R \cup {path}
  OBVIOUS
<1>2. IsFiniteSet(Offerers) /\ c \in Nat
  BY <1>1, OffererAssumption, FS_CardinalityType
<1>3. IsFiniteSet(R) /\ Cardinality(R) <= c
  <2>1. fd \in [Offerers -> R]
    <3>1. fd \in [Offerers -> {NoFile} \cup Inodes]
      BY Zenon DEF WritersInv, CallTypes
    <3> QED
      BY <1>1, <3>1
  <2>2. \A r \in R : \E o \in Offerers : fd[o] = r
    BY <1>1
  <2>3. fd \in Surjection(Offerers, R)
    BY Zenon, <2>1, <2>2 DEF Surjection
  <2> QED
    BY <1>1, <1>2, <2>3, FS_Surjection
<1>4. IsFiniteSet(U) /\ Cardinality(U) <= c + 1
  <2>1. IsFiniteSet(U) /\ Cardinality(U) = IF path \in R THEN Cardinality(R) ELSE Cardinality(R) + 1
    BY Zenon, <1>1, <1>3, FS_AddElement
  <2>2. Cardinality(R) \in Nat
    BY <1>3, FS_CardinalityType
  <2> QED
    BY <1>2, <1>3, <2>1, <2>2
<1>5. Cardinality(Inodes) = c + 2
  <2>1. PICK d : d = c + 2
    OBVIOUS
  <2>2. Inodes = 1 .. d
    BY Zenon, <1>1, <2>1 DEF Inodes
  <2>3. d \in Int /\ 1 \in Int /\ ~ (1 > d) /\ d - 1 + 1 = d
    BY <1>2, <2>1
  <2>4. Cardinality(1 .. d) = IF 1 > d THEN 0 ELSE d - 1 + 1
    BY Zenon, <2>3, FS_Interval
  <2> QED
    BY Zenon, <2>1, <2>2, <2>3, <2>4
<1>6. ~ (Inodes \subseteq U)
  <2> SUFFICES ASSUME Inodes \in SUBSET U  PROVE FALSE
    OBVIOUS
  <2>1. Cardinality(Inodes) <= Cardinality(U)
    BY <1>4, FS_Subset
  <2>2. Cardinality(U) \in Nat
    BY <1>4, FS_CardinalityType
  <2> QED
    BY <1>2, <1>4, <1>5, <2>1, <2>2
<1>7. \E i \in Inodes : i # path /\ \A o \in Offerers : fd[o] # i
  BY Zenon, <1>1, <1>6
<1> QED
  BY Zenon, <1>7 DEF FreeInode

(* Lines written over a file leave a file of lines. *)
LEMMA OverlayLines ==
    ASSUME NEW lines \in Seq(Hellos), NEW old \in Seq(Hellos)
    PROVE  Overlay(lines, old) \in Seq(Hellos)
<1>1. PICK m, n, b : m = Len(lines) + 1 /\ n = Len(old) /\ b = SubSeq(old, m, n)
  OBVIOUS
<1>2. m \in Nat /\ m >= 1 /\ n \in Nat
  BY <1>1
<1>3. m \in Int /\ n \in Int /\ \A i \in m .. n : old[i] \in Hellos
  <2>1. \A i \in m .. n : i \in 1 .. n
    BY <1>2
  <2> QED
    BY <1>1, <1>2, <2>1
<1>4. b \in Seq(Hellos)
  BY Zenon, <1>1, <1>3, SubSeqProperties
<1>5. lines \o b \in Seq(Hellos)
  BY <1>4
<1> QED
  BY Zenon, <1>1, <1>5 DEF Overlay

(* A store to an inode that a call has open. *)
LEMMA StoreLines ==
    ASSUME DirectoryInv, NEW o, NEW i \in Inodes, NEW lines \in Seq(Hellos), Store(o, i, lines)
    PROVE  content' \in [Inodes -> Seq(Hellos)] /\ whole' \in [Inodes -> BOOLEAN]
<1>1. content \in [Inodes -> Seq(Hellos)] /\ whole \in [Inodes -> BOOLEAN]
  BY Zenon DEF DirectoryInv
<1>2. PICK b : b = (lines = snapshot[o])
  OBVIOUS
<1>3. content' = [content EXCEPT ![i] = lines] /\ whole' = [whole EXCEPT ![i] = b]
  BY Zenon, <1>2 DEF Store
<1>4. b \in BOOLEAN
  BY Zenon, <1>2
<1>5. content' \in [Inodes -> Seq(Hellos)]
  BY <1>1, <1>3
<1>6. whole' \in [Inodes -> BOOLEAN]
  BY <1>1, <1>3, <1>4
<1> QED
  BY <1>5, <1>6

(* What a call may do to its own place, snapshot and open file. *)
LEMMA CallMoves ==
    ASSUME WritersInv, NEW o \in Offerers,
           NEW p \in {"idle", "open", "write", "rename"}, offer' = [offer EXCEPT ![o] = p],
           NEW s, Sound(s, MaxPool), snapshot' = [snapshot EXCEPT ![o] = s],
           NEW i \in {NoFile} \cup Inodes, fd' = [fd EXCEPT ![o] = i],
           p = "write" => i # NoFile
    PROVE  WritersInv'
<1>1. /\ offer \in [Offerers -> {"idle", "open", "write", "rename"}]
      /\ snapshot \in [Offerers -> Seq(Hellos)]
      /\ fd \in [Offerers -> {NoFile} \cup Inodes]
  BY Zenon DEF WritersInv, CallTypes
<1>2. \A q \in Offerers : Len(snapshot[q]) <= MaxPool /\ (offer[q] = "write" => fd[q] # NoFile)
  BY Zenon DEF WritersInv
<1>3. s \in Seq(Hellos) /\ Len(s) <= MaxPool
  BY Zenon DEF Sound
<1>4. offer' \in [Offerers -> {"idle", "open", "write", "rename"}]
  BY <1>1
<1>5. snapshot' \in [Offerers -> Seq(Hellos)]
  BY <1>1, <1>3
<1>6. fd' \in [Offerers -> {NoFile} \cup Inodes]
  BY <1>1
<1>7. ASSUME NEW q \in Offerers
      PROVE  Len(snapshot'[q]) <= MaxPool /\ (offer'[q] = "write" => fd'[q] # NoFile)
  <2>1. CASE q = o
    <3>1. snapshot'[q] = s /\ offer'[q] = p /\ fd'[q] = i
      BY Zenon, <1>1, <2>1
    <3> QED
      BY Zenon, <1>3, <3>1
  <2>2. CASE q # o
    <3>1. snapshot'[q] = snapshot[q] /\ offer'[q] = offer[q] /\ fd'[q] = fd[q]
      BY Zenon, <1>1, <2>2
    <3> QED
      BY Zenon, <1>2, <3>1
  <2> QED
    BY Zenon, <2>1, <2>2
<1> QED
  BY Zenon, <1>4, <1>5, <1>6, <1>7 DEF WritersInv, CallTypes

(* A step that leaves the pools in memory alone. *)
LEMMA MemoryKept ==
    ASSUME MemoryInv, UNCHANGED vars
    PROVE  MemoryInv'
<1>1. hellos' = hellos /\ pending' = pending /\ settled' = settled
  BY DEF vars
<1> QED
  BY Zenon, <1>1 DEF MemoryInv

(* Offer up to the unlock, with other calls under way. *)
LEMMA OverlapOffer ==
    ASSUME OverlapInv, NEW o \in Offerers, NEW h \in Hellos, OfferUnlocks(o, h)
    PROVE  OverlapInv'
<1>1. MemoryInv /\ DirectoryInv /\ WritersInv
  BY Zenon DEF OverlapInv
<1>2. /\ offer[o] = "idle" /\ fd' = fd /\ path' = path /\ tmp' = tmp /\ content' = content
      /\ whole' = whole /\ unsaved' = unsaved /\ unread' = unread /\ crashes' = crashes
  BY DEF OfferUnlocks, diskVars
<1>3. MemoryInv'
  BY Zenon, <1>1, MemoryOffer DEF OfferUnlocks
<1>4. DirectoryInv'
  BY Zenon, <1>1, <1>2 DEF DirectoryInv
<1>5. CASE offer' = offer /\ snapshot' = snapshot
  <2>1. WritersInv'
    BY Zenon, <1>1, <1>2, <1>5 DEF WritersInv, CallTypes
  <2> QED
    BY Zenon, <1>3, <1>4, <2>1 DEF OverlapInv
<1>6. CASE snapshot' = [snapshot EXCEPT ![o] = Snapshot] /\ offer' = [offer EXCEPT ![o] = "open"]
  <2>1. PICK s : s = hellos'
    OBVIOUS
  <2>2. Sound(s, MaxPool)
    BY Zenon, <1>3, <2>1 DEF MemoryInv
  <2>3. PICK i : i = fd[o]
    OBVIOUS
  <2>4. fd \in [Offerers -> {NoFile} \cup Inodes]
    BY Zenon, <1>1 DEF WritersInv, CallTypes
  <2>5. i \in {NoFile} \cup Inodes /\ fd' = [fd EXCEPT ![o] = i]
    BY <1>2, <2>3, <2>4
  <2>6. snapshot' = [snapshot EXCEPT ![o] = s]
    BY Zenon, <1>6, <2>1 DEF Snapshot
  <2>7. PICK p : p = "open"
    OBVIOUS
  <2>8. p \in {"idle", "open", "write", "rename"} /\ p # "write"
    BY <2>7
  <2>9. offer' = [offer EXCEPT ![o] = p]
    BY Zenon, <1>6, <2>7
  <2>10. WritersInv'
    BY Zenon, <1>1, <2>2, <2>5, <2>6, <2>8, <2>9, CallMoves
  <2> QED
    BY Zenon, <1>3, <1>4, <2>10 DEF OverlapInv
<1> QED
  BY Zenon, <1>5, <1>6 DEF OfferUnlocks

(* A call of writePoolFile is over. *)
LEMMA CallReturns ==
    ASSUME WritersInv, NEW o \in Offerers, Return(o),
           NEW i \in {NoFile} \cup Inodes, fd' = [fd EXCEPT ![o] = i]
    PROVE  WritersInv'
<1>1. PICK s, p : s = <<>> /\ p = "idle"
  OBVIOUS
<1>2. Sound(s, MaxPool)
  BY Zenon, <1>1, GoodNone DEF Good, Sound
<1>3. p \in {"idle", "open", "write", "rename"} /\ p # "write"
  BY <1>1
<1>4. offer' = [offer EXCEPT ![o] = p] /\ snapshot' = [snapshot EXCEPT ![o] = s]
  BY Zenon, <1>1 DEF Return
<1> QED
  BY Zenon, <1>2, <1>3, <1>4, CallMoves

(* What a call has open, and that it may go on with it. *)
LEMMA CallGoesOn ==
    ASSUME WritersInv, NEW o \in Offerers, snapshot' = snapshot,
           NEW p \in {"idle", "open", "write", "rename"}, offer' = [offer EXCEPT ![o] = p],
           NEW i \in {NoFile} \cup Inodes, fd' = [fd EXCEPT ![o] = i],
           p = "write" => i # NoFile
    PROVE  WritersInv'
<1>1. /\ offer \in [Offerers -> {"idle", "open", "write", "rename"}]
      /\ snapshot \in [Offerers -> Seq(Hellos)]
      /\ fd \in [Offerers -> {NoFile} \cup Inodes]
  BY Zenon DEF WritersInv, CallTypes
<1>2. \A q \in Offerers : Len(snapshot[q]) <= MaxPool /\ (offer[q] = "write" => fd[q] # NoFile)
  BY Zenon DEF WritersInv
<1>3. offer' \in [Offerers -> {"idle", "open", "write", "rename"}]
  BY <1>1
<1>4. fd' \in [Offerers -> {NoFile} \cup Inodes]
  BY <1>1
<1>5. ASSUME NEW q \in Offerers
      PROVE  offer'[q] = "write" => fd'[q] # NoFile
  <2>1. CASE q = o
    <3>1. offer'[q] = p /\ fd'[q] = i
      BY Zenon, <1>1, <2>1
    <3> QED
      BY Zenon, <3>1
  <2>2. CASE q # o
    <3>1. offer'[q] = offer[q] /\ fd'[q] = fd[q]
      BY Zenon, <1>1, <2>2
    <3> QED
      BY Zenon, <1>2, <3>1
  <2> QED
    BY Zenon, <2>1, <2>2
<1> QED
  BY Zenon, <1>1, <1>2, <1>3, <1>4, <1>5 DEF WritersInv, CallTypes

(* A call opens path.tmp, which another may have open. *)
LEMMA OverlapOpen ==
    ASSUME OverlapInv, NEW o \in Offerers, OpenTmp(o)
    PROVE  OverlapInv'
<1>1. MemoryInv /\ DirectoryInv /\ WritersInv
  BY Zenon DEF OverlapInv
<1>2. PICK i, e, p : /\ i = TmpInode /\ e = <<>> /\ p = "write"
                     /\ tmp' = i /\ Store(o, i, e) /\ fd' = [fd EXCEPT ![o] = i]
                     /\ offer' = [offer EXCEPT ![o] = p]
  BY Zenon DEF OpenTmp
<1>3. /\ UNCHANGED vars /\ snapshot' = snapshot /\ path' = path
      /\ unsaved' = unsaved /\ unread' = unread /\ crashes' = crashes
  BY Zenon DEF OpenTmp
<1>4. i \in Inodes
  <2>1. tmp \in {NoFile} \cup Inodes
    BY Zenon, <1>1 DEF DirectoryInv
  <2> QED
    BY Zenon, <1>1, <1>2, <2>1, FreeInodeExists DEF TmpInode
<1>5. i # NoFile
  BY <1>4 DEF Inodes, NoFile
<1>6. e \in Seq(Hellos)
  BY <1>2
<1>7. content' \in [Inodes -> Seq(Hellos)] /\ whole' \in [Inodes -> BOOLEAN]
  BY Zenon, <1>1, <1>2, <1>4, <1>6, StoreLines
<1>8. DirectoryInv'
  BY Zenon, <1>1, <1>2, <1>3, <1>4, <1>7 DEF DirectoryInv
<1>9. p \in {"idle", "open", "write", "rename"}
  BY <1>2
<1>10. i \in {NoFile} \cup Inodes
  BY Zenon, <1>4
<1>11. WritersInv'
  BY Zenon, <1>1, <1>2, <1>3, <1>5, <1>9, <1>10, CallGoesOn
<1>12. MemoryInv'
  BY <1>1, <1>3, MemoryKept
<1> QED
  BY Zenon, <1>8, <1>11, <1>12 DEF OverlapInv

(* What a call has open, and what is in it. *)
LEMMA OpenFile ==
    ASSUME DirectoryInv, WritersInv, NEW o \in Offerers, offer[o] = "write"
    PROVE  /\ fd[o] \in Inodes /\ content[fd[o]] \in Seq(Hellos)
           /\ snapshot[o] \in Seq(Hellos)
<1>1. fd \in [Offerers -> {NoFile} \cup Inodes] /\ fd[o] # NoFile /\ snapshot \in [Offerers -> Seq(Hellos)]
  BY Zenon DEF WritersInv, CallTypes
<1>2. fd[o] \in {NoFile} \cup Inodes /\ snapshot[o] \in Seq(Hellos)
  BY Zenon, <1>1
<1>3. fd[o] \in Inodes
  BY Zenon, <1>1, <1>2
<1>4. content \in [Inodes -> Seq(Hellos)]
  BY Zenon DEF DirectoryInv
<1>5. content[fd[o]] \in Seq(Hellos)
  BY Zenon, <1>3, <1>4
<1> QED
  BY Zenon, <1>2, <1>3, <1>5

(* A call writes all of its snapshot. *)
LEMMA OverlapWrite ==
    ASSUME OverlapInv, NEW o \in Offerers, WriteTmp(o)
    PROVE  OverlapInv'
<1>1. MemoryInv /\ DirectoryInv /\ WritersInv /\ offer[o] = "write"
  BY Zenon DEF OverlapInv, WriteTmp
<1>2. PICK i, s, u : i = fd[o] /\ s = snapshot[o] /\ u = Overlay(s, content[i])
  OBVIOUS
<1>3. i \in Inodes /\ content[i] \in Seq(Hellos) /\ s \in Seq(Hellos)
  BY Zenon, <1>1, <1>2, OpenFile
<1>4. u \in Seq(Hellos)
  BY Zenon, <1>2, <1>3, OverlayLines
<1>5. PICK p, n : /\ p = "rename" /\ offer' = [offer EXCEPT ![o] = p]
                  /\ n = NoFile /\ fd' = [fd EXCEPT ![o] = n]
  BY Zenon DEF WriteTmp, Close
<1>6. /\ Store(o, i, u) /\ UNCHANGED vars /\ snapshot' = snapshot /\ path' = path /\ tmp' = tmp
      /\ unsaved' = unsaved /\ unread' = unread /\ crashes' = crashes
  BY Zenon, <1>2 DEF WriteTmp
<1>7. content' \in [Inodes -> Seq(Hellos)] /\ whole' \in [Inodes -> BOOLEAN]
  BY Zenon, <1>1, <1>3, <1>4, <1>6, StoreLines
<1>8. DirectoryInv'
  BY Zenon, <1>1, <1>6, <1>7 DEF DirectoryInv
<1>9. p \in {"idle", "open", "write", "rename"} /\ p # "write" /\ n \in {NoFile} \cup Inodes
  BY <1>5
<1>10. WritersInv'
  BY Zenon, <1>1, <1>5, <1>6, <1>9, CallGoesOn
<1>11. MemoryInv'
  BY <1>1, <1>6, MemoryKept
<1> QED
  BY Zenon, <1>8, <1>10, <1>11 DEF OverlapInv

(* A call writes part of its snapshot and gives up. *)
LEMMA OverlapWriteFails ==
    ASSUME OverlapInv, NEW o \in Offerers, WriteFails(o)
    PROVE  OverlapInv'
<1>1. MemoryInv /\ DirectoryInv /\ WritersInv /\ offer[o] = "write"
  BY Zenon DEF OverlapInv, WriteFails, WritePart
<1>2. PICK i, s : i = fd[o] /\ s = snapshot[o]
  OBVIOUS
<1>3. i \in Inodes /\ content[i] \in Seq(Hellos) /\ s \in Seq(Hellos)
  BY Zenon, <1>1, <1>2, OpenFile
<1>4. PICK k \in 0 .. Len(s) - 1 : Store(o, i, Overlay(SubSeq(s, 1, k), content[i]))
  BY Zenon, <1>2 DEF WriteFails, WritePart
<1>5. PICK t, u : t = SubSeq(s, 1, k) /\ u = Overlay(t, content[i])
  OBVIOUS
<1>6. t \in Seq(Hellos)
  BY <1>3, <1>4, <1>5
<1>7. u \in Seq(Hellos)
  BY Zenon, <1>3, <1>5, <1>6, OverlayLines
<1>8. Store(o, i, u)
  BY Zenon, <1>4, <1>5
<1>9. content' \in [Inodes -> Seq(Hellos)] /\ whole' \in [Inodes -> BOOLEAN]
  BY Zenon, <1>1, <1>3, <1>7, <1>8, StoreLines
<1>10. PICK n : n = NoFile /\ fd' = [fd EXCEPT ![o] = n]
  BY Zenon DEF WriteFails, WritePart, Close
<1>11. /\ UNCHANGED vars /\ path' = path /\ tmp' = tmp /\ crashes' = crashes
       /\ Return(o) /\ unsaved' = TRUE /\ unread' = unread
  BY Zenon DEF WriteFails, WritePart
<1>12. DirectoryInv'
  BY Zenon, <1>1, <1>9, <1>11 DEF DirectoryInv
<1>13. n \in {NoFile} \cup Inodes
  BY Zenon, <1>10
<1>14. WritersInv'
  BY Zenon, <1>1, <1>10, <1>11, <1>13, CallReturns
<1>15. MemoryInv'
  BY <1>1, <1>11, MemoryKept
<1> QED
  BY Zenon, <1>12, <1>14, <1>15 DEF OverlapInv

(* A call that cannot open path.tmp, renames it, or cannot. *)
LEMMA OverlapReturns ==
    ASSUME OverlapInv, NEW o \in Offerers, OpenFails(o) \/ RenameTmp(o) \/ RenameFails(o)
    PROVE  OverlapInv'
<1>1. MemoryInv /\ DirectoryInv /\ WritersInv
  BY Zenon DEF OverlapInv
<1>2. /\ UNCHANGED vars /\ Return(o) /\ fd' = fd
      /\ content' = content /\ whole' = whole /\ crashes' = crashes
  BY Zenon DEF OpenFails, RenameTmp, RenameFails
<1>3. path' \in {path, tmp} /\ tmp' \in {tmp, NoFile} /\ unsaved' \in BOOLEAN /\ unread' \in BOOLEAN
  <2>1. CASE OpenFails(o)
    BY Zenon, <1>1, <2>1 DEF OpenFails, DirectoryInv
  <2>2. CASE RenameTmp(o)
    BY Zenon, <1>1, <2>2 DEF RenameTmp, DirectoryInv
  <2>3. CASE RenameFails(o)
    BY Zenon, <1>1, <2>3 DEF RenameFails, DirectoryInv
  <2> QED
    BY Zenon, <2>1, <2>2, <2>3
<1>4. DirectoryInv'
  BY Zenon, <1>1, <1>2, <1>3 DEF DirectoryInv
<1>5. PICK i : i = fd[o]
  OBVIOUS
<1>6. fd \in [Offerers -> {NoFile} \cup Inodes]
  BY Zenon, <1>1 DEF WritersInv, CallTypes
<1>7. i \in {NoFile} \cup Inodes /\ fd' = [fd EXCEPT ![o] = i]
  BY <1>2, <1>5, <1>6
<1>8. WritersInv'
  BY Zenon, <1>1, <1>2, <1>7, CallReturns
<1>9. MemoryInv'
  BY <1>1, <1>2, MemoryKept
<1> QED
  BY Zenon, <1>4, <1>8, <1>9 DEF OverlapInv

(* The process starts on whatever the file holds. *)
LEMMA OverlapRestart ==
    ASSUME OverlapInv, NEW readable \in BOOLEAN, Restart(readable)
    PROVE  OverlapInv'
<1>1. MemoryInv /\ DirectoryInv /\ WritersInv
  BY Zenon DEF OverlapInv
<1>2. /\ hellos' = Loaded(ReadPoolFile(readable)) /\ pending' = <<>> /\ settled' = settled
      /\ path' = path /\ tmp' = tmp /\ content' = content /\ whole' = whole
      /\ unsaved' = FALSE /\ unread' = ReadError(readable)
      /\ crashes < MaxCrashes /\ crashes' = crashes + 1
  BY DEF Restart
<1>3. PICK r : r = ReadPoolFile(readable)
  OBVIOUS
<1>4. r \in Seq(Hellos)
  <2>1. path \in {NoFile} \cup Inodes /\ content \in [Inodes -> Seq(Hellos)]
    BY Zenon, <1>1 DEF DirectoryInv
  <2>2. <<>> \in Seq(Hellos)
    OBVIOUS
  <2> QED
    BY Zenon, <1>3, <2>1, <2>2 DEF FileLines, ReadPoolFile
<1>5. Sound(hellos', MaxPool)
  BY Zenon, <1>2, <1>3, <1>4, LoadedSound
<1>6. Sound(<<>>, Budget)
  <2>1. 0 <= Budget /\ Len(<<>>) = 0
    BY PoolAssumption DEF Budget
  <2> QED
    BY Zenon, <2>1, GoodNone DEF Good, Sound
<1>7. MemoryInv'
  BY Zenon, <1>1, <1>2, <1>5, <1>6 DEF MemoryInv
<1>8. crashes' \in 0 .. MaxCrashes
  <2>1. crashes \in 0 .. MaxCrashes
    BY Zenon, <1>1 DEF DirectoryInv
  <2> QED
    BY <1>2, <2>1, CrashAssumption
<1>9. DirectoryInv'
  BY Zenon, <1>1, <1>2, <1>8 DEF DirectoryInv, ReadError
<1>10. /\ offer' = [o \in Offerers |-> "idle"] /\ snapshot' = [o \in Offerers |-> <<>>]
       /\ fd' = [o \in Offerers |-> NoFile]
  BY DEF Restart
<1>11. CallTypes'
  BY <1>10 DEF CallTypes
<1>12. ASSUME NEW o \in Offerers  PROVE Len(snapshot'[o]) <= MaxPool /\ offer'[o] # "write"
  BY <1>10, PoolAssumption
<1>13. WritersInv'
  BY Zenon, <1>11, <1>12 DEF WritersInv
<1> QED
  BY Zenon, <1>7, <1>9, <1>13 DEF OverlapInv

(* The first start. *)
LEMMA OverlapInit ==
    ASSUME FileInit
    PROVE  OverlapInv
<1>1. HarvestInv
  BY HarvestInit DEF FileInit
<1>2. MemoryInv
  BY Zenon, <1>1 DEF HarvestInv, Good, HeldBack, MemoryInv, Sound
<1>3. content \in [Inodes -> Seq(Hellos)]
  BY DEF FileInit
<1>4. whole \in [Inodes -> BOOLEAN] /\ unsaved \in BOOLEAN /\ unread \in BOOLEAN
  BY DEF FileInit
<1>5. crashes \in 0 .. MaxCrashes
  BY CrashAssumption DEF FileInit
<1>6. path = NoFile /\ tmp = NoFile
  BY DEF FileInit
<1>7. DirectoryInv
  BY Zenon, <1>3, <1>4, <1>5, <1>6 DEF DirectoryInv
<1>8. CallTypes
  BY DEF FileInit, CallTypes
<1>9. ASSUME NEW o \in Offerers  PROVE Len(snapshot[o]) <= MaxPool /\ offer[o] # "write"
  BY PoolAssumption DEF FileInit
<1>10. WritersInv
  BY Zenon, <1>8, <1>9 DEF WritersInv
<1> QED
  BY Zenon, <1>2, <1>7, <1>10 DEF OverlapInv

(* No step of any call, and no restart, breaks a bound. *)
LEMMA OverlapNext ==
    ASSUME OverlapInv, [FileNext]_fileVars
    PROVE  OverlapInv'
<1>1. CASE UNCHANGED fileVars
  <2>1. /\ UNCHANGED vars
        /\ offer' = offer /\ snapshot' = snapshot /\ fd' = fd
        /\ path' = path /\ tmp' = tmp /\ content' = content /\ whole' = whole
        /\ unsaved' = unsaved /\ unread' = unread /\ crashes' = crashes
    BY <1>1 DEF fileVars, callVars, diskVars
  <2>2. MemoryInv /\ DirectoryInv /\ WritersInv
    BY Zenon DEF OverlapInv
  <2>3. MemoryInv'
    BY <2>1, <2>2, MemoryKept
  <2>4. DirectoryInv'
    BY Zenon, <2>1, <2>2 DEF DirectoryInv
  <2>5. WritersInv'
    BY Zenon, <2>1, <2>2 DEF WritersInv, CallTypes
  <2> QED
    BY Zenon, <2>3, <2>4, <2>5 DEF OverlapInv
<1>2. ASSUME NEW o \in Offerers, NEW h \in Hellos, OfferUnlocks(o, h)  PROVE OverlapInv'
  BY Zenon, <1>2, OverlapOffer
<1>3. ASSUME NEW o \in Offerers,
             \/ OpenTmp(o) \/ WriteTmp(o) \/ RenameTmp(o)
             \/ OpenFails(o) \/ WriteFails(o) \/ RenameFails(o)
      PROVE  OverlapInv'
  BY Zenon, <1>3, OverlapOpen, OverlapWrite, OverlapWriteFails, OverlapReturns
<1>4. ASSUME NEW readable \in BOOLEAN, Restart(readable)  PROVE OverlapInv'
  BY Zenon, <1>4, OverlapRestart
<1> QED
  BY Zenon, <1>1, <1>2, <1>3, <1>4 DEF FileNext

(* However many calls of Offer overlap, whatever fails and whatever file   *)
(* the process starts on, a torn one included, every variable of the pool  *)
(* and its file keeps its type and its bound: there is always an inode for *)
(* path.tmp, and a call that writes has a file open (Offer, writePoolFile, *)
(* NewHarvester).                                                          *)
THEOREM FileTypesHold == FileSpec => []FileTypeOK
<1>1. FileInit => OverlapInv
  BY OverlapInit
<1>2. OverlapInv /\ [FileNext]_fileVars => OverlapInv'
  BY OverlapNext
<1>3. OverlapInv => FileTypeOK
  <2> SUFFICES ASSUME OverlapInv  PROVE FileTypeOK
    OBVIOUS
  <2>1. MemoryInv /\ DirectoryInv /\ WritersInv
    BY Zenon DEF OverlapInv
  <2>2. /\ hellos \in Seq(Hellos) /\ Len(hellos) <= MaxPool
        /\ pending \in Seq(Hellos) /\ Len(pending) <= Budget
        /\ settled \in {"any"} \cup {h.build : h \in Hellos}
    BY Zenon, <2>1 DEF MemoryInv, Sound
  <2>3. TypeOK
    BY Zenon, <2>2, ToSetFacts DEF TypeOK
  <2>4. ASSUME NEW o \in Offerers
        PROVE  ToSet(snapshot[o]) \subseteq Hellos /\ Len(snapshot[o]) <= MaxPool
    <3>1. snapshot[o] \in Seq(Hellos) /\ Len(snapshot[o]) <= MaxPool
      BY Zenon, <2>1 DEF WritersInv, CallTypes
    <3> QED
      BY Zenon, <3>1, ToSetFacts
  <2> QED
    BY Zenon, <2>1, <2>3, <2>4 DEF FileTypeOK, DirectoryInv, WritersInv, CallTypes
<1> QED
  BY <1>1, <1>2, <1>3, PTL DEF FileSpec

(* The device never emits from a pool that holds a contribution twice, and *)
(* holds none aside twice, however many calls of Offer overlap, whatever   *)
(* fails and whatever file the process starts on: NewHarvester drops the   *)
(* repeats of a torn file and Offer screens the rest (Offer, NewHarvester).*)
THEOREM PoolNeverRepeats ==
    FileSpec => [](/\ Cardinality(Keys(hellos)) = Len(hellos)
                   /\ Cardinality(Keys(pending)) = Len(pending))
<1>1. FileInit => OverlapInv
  BY OverlapInit
<1>2. OverlapInv /\ [FileNext]_fileVars => OverlapInv'
  BY OverlapNext
<1>3. OverlapInv => /\ Cardinality(Keys(hellos)) = Len(hellos)
                    /\ Cardinality(Keys(pending)) = Len(pending)
  <2> SUFFICES ASSUME OverlapInv
               PROVE  /\ Cardinality(Keys(hellos)) = Len(hellos)
                      /\ Cardinality(Keys(pending)) = Len(pending)
    OBVIOUS
  <2>1. /\ hellos \in Seq(Hellos) /\ Distinct(hellos)
        /\ pending \in Seq(Hellos) /\ Distinct(pending)
    BY Zenon DEF OverlapInv, MemoryInv, Sound
  <2> QED
    BY Zenon, <2>1, DistinctCount
<1> QED
  BY <1>1, <1>2, <1>3, PTL DEF FileSpec

-----------------------------------------------------------------------------
(* LoadPool *)

(* The pool file that is there has a pool in it. *)
LEMMA FileIsThere ==
    ASSUME FileInv
    PROVE  /\ (FileLines # <<>>) = (path # NoFile)
           /\ Good(FileLines)
<1>1. path # NoFile => Good(content[path]) /\ content[path] # <<>>
  BY Zenon DEF FileInv, DiskInv
<1> QED
  BY Zenon, <1>1, GoodNone DEF FileLines

(* The source that LoadPool takes. *)
LEMMA OriginFacts ==
    ASSUME NEW device \in BOOLEAN, NEW config \in BOOLEAN
    PROVE  /\ (Origin(device, config) = "device") = (ReadPoolFile(device) # <<>>)
           /\ Origin(device, config) \in {"device", "config", "embedded", "none"}
<1>1. PICK r, g : r = ReadPoolFile(device) /\ g = Config(config)
  OBVIOUS
<1>2. CASE r # <<>>
  <2>1. Origin(device, config) = "device"
    BY <1>1, <1>2 DEF Origin
  <2> QED
    BY <1>1, <1>2, <2>1
<1>3. CASE r = <<>> /\ g # <<>>
  <2>1. Origin(device, config) = "config"
    BY <1>1, <1>3 DEF Origin
  <2> QED
    BY <1>1, <1>3, <2>1
<1>4. CASE r = <<>> /\ g = <<>>
  <2>1. Origin(device, config) = "embedded" \/ Origin(device, config) = "none"
    BY <1>1, <1>4 DEF Origin
  <2> QED
    BY <1>1, <1>4, <2>1
<1> QED
  BY <1>2, <1>3, <1>4

(* What is loaded from the device is the pool file; from any other source  *)
(* it is one build.                                                        *)
Loads(device, config) ==
    IF Origin(device, config) = "device" THEN LoadPool(device, config) = FileLines
    ELSE Cardinality(Fingerprints(LoadPool(device, config))) <= 1

LEMMA LoadPoolFacts ==
    ASSUME FileInv, NEW device \in BOOLEAN, NEW config \in BOOLEAN
    PROVE  /\ Loads(device, config)
           /\ FileLines # <<>> => Origin(device, config) = "device" \/ SkippedDevice(device)
<1>1. Good(FileLines) /\ (FileLines # <<>> => path # NoFile)
  BY Zenon, FileIsThere
<1>2. PICK o, p : o = Origin(device, config) /\ p = LoadPool(device, config)
  OBVIOUS
<1>3. /\ o \in {"device", "config", "embedded", "none"}
      /\ (o = "device") = (ReadPoolFile(device) # <<>>)
  BY Zenon, <1>2, OriginFacts
<1>4. ReadPoolFile(device) # <<>> => ReadPoolFile(device) = FileLines
  BY Zenon DEF ReadPoolFile
<1>5. FileLines # <<>> => o = "device" \/ SkippedDevice(device)
  BY Zenon, <1>1, <1>3 DEF ReadPoolFile, SkippedDevice, ReadError
<1>6. CASE o = "device"
  <2>1. p = LargestBuild(ReadPoolFile(device))
    BY <1>2, <1>6 DEF LoadPool
  <2>2. p = FileLines
    BY Zenon, <1>1, <1>3, <1>4, <1>6, <2>1, LargestOfGood
  <2> QED
    BY Zenon, <1>2, <1>5, <1>6, <2>2 DEF Loads
<1>7. CASE o = "config"
  <2>1. p = ConfigBuild[config] /\ o # "device"
    BY <1>2, <1>7 DEF LoadPool
  <2>2. p = LargestBuild(Config(config))
    BY Zenon, <2>1 DEF ConfigBuild
  <2>3. Config(config) \in Seq(Hellos)
    BY SourceAssumption DEF Config
  <2>4. Cardinality(Fingerprints(p)) <= 1
    BY Zenon, <2>2, <2>3, LargestIsOneBuild
  <2> QED
    BY Zenon, <1>2, <1>5, <2>1, <2>4 DEF Loads
<1>8. CASE o = "embedded"
  <2>1. p = EmbeddedBuild /\ o # "device"
    BY <1>2, <1>8 DEF LoadPool
  <2>2. EmbeddedPool \in Seq(Hellos)
    BY SourceAssumption
  <2>3. Cardinality(Fingerprints(p)) <= 1
    BY Zenon, <2>1, <2>2, LargestIsOneBuild DEF EmbeddedBuild
  <2> QED
    BY Zenon, <1>2, <1>5, <2>1, <2>3 DEF Loads
<1>9. CASE o = "none"
  <2>1. p = <<>> /\ o # "device"
    BY <1>2, <1>9 DEF LoadPool
  <2>2. Coherent(<<>>)
    BY Zenon, GoodNone, GoodIsCoherent
  <2> QED
    BY Zenon, <1>2, <1>5, <2>1, <2>2 DEF Coherent, Loads
<1> QED
  BY Zenon, <1>3, <1>6, <1>7, <1>8, <1>9

(* The pool file never goes away. *)
LEMMA FileStays ==
    ASSUME OneAtATime, FileInv, [FileNext]_fileVars, FileLines # <<>>
    PROVE  FileLines' # <<>>
<1>1. PICK c : Offerers = {c}
  BY DEF OneAtATime
<1>2. CASE RenameTmp(c)
  <2>1. FileLines' = hellos /\ CallInv(c) /\ offer[c] = "rename"
    BY <1>1, <1>2, FileLinesReplaced DEF FileInv, RenameTmp
  <2> QED
    BY <2>1 DEF CallInv
<1>3. CASE ~RenameTmp(c)
  BY <1>1, <1>3, FileLinesKept
<1> QED
  BY <1>2, <1>3

(* Where calls of Offer do not overlap, a client whose device pool is      *)
(* there falls back to another source only when it cannot read the file,   *)
(* which it reports, and else loads the whole file; and from whatever      *)
(* source, it loads one build (LoadPool, readPoolFile).                    *)
THEOREM FallbackIsReported ==
    ASSUME OneAtATime
    PROVE  FileSpec => NoSilentFallback
<1> DEFINE Told == \A device, config \in BOOLEAN :
               /\ Loads(device, config)
               /\ FileLines # <<>> => Origin(device, config) = "device" \/ SkippedDevice(device)
           Step == FileReplaced => \A device, config \in BOOLEAN :
               /\ FileLines # <<>> => Origin(device, config)' = "device" \/ SkippedDevice(device)'
               /\ IF Origin(device, config)' = "device" THEN LoadPool(device, config)' = FileLines'
                  ELSE Cardinality(Fingerprints(LoadPool(device, config)')) <= 1
<1>1. FileInit => FileInv
  BY FileInitAll
<1>2. FileInv /\ [FileNext]_fileVars => FileInv'
  BY FileNextInv
<1>3. FileInv => Told
  BY Zenon, LoadPoolFacts
<1>4. FileInv /\ Told' /\ [FileNext]_fileVars => [Step]_diskVars
  <2> SUFFICES ASSUME FileInv, Told', [FileNext]_fileVars  PROVE Step
    OBVIOUS
  <2>1. FileLines # <<>> => FileLines' # <<>>
    BY FileStays
  <2>2. ASSUME NEW device \in BOOLEAN, NEW config \in BOOLEAN
        PROVE  /\ FileLines' # <<>> => Origin(device, config)' = "device" \/ SkippedDevice(device)'
               /\ IF Origin(device, config)' = "device" THEN LoadPool(device, config)' = FileLines'
                  ELSE Cardinality(Fingerprints(LoadPool(device, config)')) <= 1
    BY Zenon DEF Loads
  <2> QED
    BY Zenon, <2>1, <2>2
<1> HIDE DEF Told, Step
<1>5. FileSpec => [][Step]_diskVars
  BY <1>1, <1>2, <1>3, <1>4, PTL DEF FileSpec
<1> QED
  BY <1>5 DEF NoSilentFallback, Step
=============================================================================
