--------------------------- MODULE ContactsProofs ---------------------------
(* Proofs about Contacts, for all connections, networks, egresses and      *)
(* horizons.                                                               *)
EXTENDS Contacts, FiniteSetTheorems, TLAPS

(* Times are integers and Never is the least of them. *)
LEMMA TimeFacts ==
    /\ Never \in Times
    /\ Nat \subseteq Times
    /\ \A t \in Times : t \in Int /\ Never <= t
    /\ \A t \in Nat : Never <= t /\ Never # t
  BY DEF Times, Never

-----------------------------------------------------------------------------
(* Eviction *)

(* Eviction only removes entries: a key keeps its time or loses it. *)
LEMMA EvictionShrinks ==
    ASSUME NEW m \in [Keys -> Times], NEW r \in AfterEviction(m)
    PROVE  /\ r \in [Keys -> Times]
           /\ \A k \in Keys : r[k] = m[k] \/ r[k] = Never
  <1>1. PICK s \in Survivors(m) : r = [k \in Keys |-> IF k \in s THEN m[k] ELSE Never]
    BY DEF AfterEviction
  <1> QED
    BY <1>1 DEF Times

(* What eviction leaves fits the bound. *)
LEMMA EvictionBounds ==
    ASSUME NEW m \in [Keys -> Times], IsFiniteSet(Tracked(m)), NEW r \in AfterEviction(m)
    PROVE  IsFiniteSet(Tracked(r)) /\ Cardinality(Tracked(r)) <= Max
  <1> DEFINE live == {k \in Tracked(m) : ~Expired(m[k])}
  <1>1. PICK s \in Survivors(m) : r = [k \in Keys |-> IF k \in s THEN m[k] ELSE Never]
    BY DEF AfterEviction
  <1>2. IsFiniteSet(live) /\ Cardinality(live) \in Nat
    <2>1. live \subseteq Tracked(m)
      OBVIOUS
    <2> QED
      BY <2>1, FS_Subset, FS_CardinalityType
  <1>3. s \subseteq live /\ Cardinality(s) <= Max
    <2>1. CASE Over(live)
      BY <2>1, HorizonAssumption DEF Survivors
    <2>2. CASE ~Over(live)
      <3>1. s = live
        BY <2>2 DEF Survivors
      <3> QED
        BY <2>2, <3>1, <1>2, HorizonAssumption DEF Over
    <2> QED
      BY <2>1, <2>2
  <1>4. Tracked(r) = s
    BY <1>1, <1>3 DEF Tracked
  <1> QED
    BY <1>2, <1>3, <1>4, FS_Subset

-----------------------------------------------------------------------------
(* Types *)

Finite == IsFiniteSet(Tracked(seen))

(* Every variable of the contact memory keeps its type and the map keeps   *)
(* its bound (record and needsFull both evict before they return).         *)
THEOREM TypeCorrect == Spec => []TypeOK
  <1>1. Init => TypeOK /\ Finite
    <2> SUFFICES ASSUME Init PROVE TypeOK /\ Finite
      OBVIOUS
    <2>1. Tracked(seen) = {}
      BY DEF Init, Tracked, Keys
    <2>2. TypeInv
      BY DEF Init, TypeInv, Times
    <2> QED
      BY <2>1, <2>2, FS_EmptySet, HorizonAssumption DEF TypeOK, Finite
  <1>2. TypeOK /\ Finite /\ [Next]_vars => (TypeOK /\ Finite)'
    <2> SUFFICES ASSUME TypeOK, Finite, [Next]_vars PROVE (TypeOK /\ Finite)'
      OBVIOUS
    <2> USE DEF TypeOK, Finite
    <2>1. CASE Tick
      BY <2>1 DEF Tick, TypeInv, Tracked
    <2>2. ASSUME NEW c \in Conns, NEW e \in Egresses,
                 NEW asked \in BOOLEAN, NEW carrier \in BOOLEAN, NEW ticket \in BOOLEAN,
                 Decide(c, e, asked, carrier, ticket)
          PROVE  (TypeOK /\ Finite)'
      <3>1. seen \in [Keys -> Times] /\ seen' \in AfterEviction(seen)
        BY <2>2 DEF Decide, TypeInv
      <3>2. IsFiniteSet(Tracked(seen')) /\ Cardinality(Tracked(seen')) <= Max
        BY <3>1, EvictionBounds
      <3>3. seen' \in [Keys -> Times]
        BY <3>1, EvictionShrinks
      <3>4. call' \in [Conns -> Calls \cup {NoCall}]
        BY <2>2 DEF Decide, TypeInv, Calls
      <3> QED
        BY <2>2, <3>2, <3>3, <3>4 DEF Decide, TypeInv, Tracked
    <2>3. ASSUME NEW c \in Conns, Complete(c)
          PROVE  (TypeOK /\ Finite)'
      <3> DEFINE n == call[c].on
                 e == call[c].egress
                 k == Key(n, e)
                 m == [seen EXCEPT ![k] = now]
      <3>1. n \in Nets /\ e \in Egresses /\ k \in Keys
        BY <2>3 DEF Complete, TypeInv, Calls, Keys
      <3>2. lastFull' \in [Nets -> [Egresses -> Times]]
        BY <2>3, <3>1 DEF Complete, TypeInv, Times
      <3>3. m \in [Keys -> Times]
        BY <3>1 DEF TypeInv, Times
      <3>4. IsFiniteSet(Tracked(m))
        <4>1. Tracked(m) \subseteq Tracked(seen) \cup {k}
          BY <3>1 DEF Tracked, TypeInv
        <4>2. IsFiniteSet(Tracked(seen) \cup {k})
          BY FS_AddElement
        <4> QED
          BY <4>1, <4>2, FS_Subset
      <3>5. /\ seen' \in [Keys -> Times]
            /\ IsFiniteSet(Tracked(seen')) /\ Cardinality(Tracked(seen')) <= Max
        <4>1. CASE Records(c)
          <5>1. seen' \in AfterEviction(m)
            BY <2>3, <4>1 DEF Complete
          <5> QED
            BY <5>1, <3>3, <3>4, EvictionBounds, EvictionShrinks
        <4>2. CASE ~Records(c)
          BY <2>3, <4>2 DEF Complete, TypeInv
        <4> QED
          BY <4>1, <4>2
      <3> QED
        BY <2>3, <3>2, <3>5 DEF Complete, TypeInv, Tracked
    <2>4. ASSUME NEW c \in Conns, Fail(c)
          PROVE  (TypeOK /\ Finite)'
      BY <2>4 DEF Fail, TypeInv, Tracked
    <2>5. ASSUME NEW n \in Nets, MoveAndReset(n)
          PROVE  (TypeOK /\ Finite)'
      <3>1. Tracked(seen') = {}
        BY <2>5 DEF MoveAndReset, Reset, Tracked
      <3>2. IsFiniteSet(Tracked(seen')) /\ Cardinality(Tracked(seen')) <= Max
        BY <3>1, FS_EmptySet, HorizonAssumption
      <3>3. TypeInv'
        BY <2>5 DEF MoveAndReset, Reset, TypeInv, Times
      <3> QED
        BY <3>2, <3>3 DEF Tracked
    <2>6. ASSUME NEW n \in Nets, MoveSilently(n)
          PROVE  (TypeOK /\ Finite)'
      BY <2>6 DEF MoveSilently, TypeInv, Tracked
    <2>7. CASE UNCHANGED vars
      BY <2>7 DEF vars, TypeInv, Tracked
    <2> QED
      BY <2>1, <2>2, <2>3, <2>4, <2>5, <2>6, <2>7 DEF Next
  <1> QED
    BY <1>1, <1>2, PTL DEF Spec

-----------------------------------------------------------------------------
(* Resumptions *)

(* The inductive invariant: times lie in the past, generations are not     *)
(* ahead of the memory's, and EntriesAreEarned.                            *)
Past ==
    /\ \A n \in Nets, e \in Egresses : lastFull[n][e] <= now
    /\ \A c \in Conns : call[c] # NoCall => call[c].gen <= gen

HistoryInv == TypeInv /\ Past /\ EntriesAreEarned /\ NoOrphanResumption

(* Two networks of Since(h) never share an address, so an entry belongs to *)
(* one of them.                                                            *)
LEMMA SinceIsInjective ==
    ASSUME NEW h \in Nets, NEW a \in Since(h), NEW b \in Since(h),
           NEW d \in Egresses, NEW e \in Egresses, Key(a, d) = Key(b, e)
    PROVE  a = b /\ d = e
  BY DEF Since, Distinct, Key

(* TypeInv is part of the type theorem. *)
LEMMA TypesHold == Spec => []TypeInv
  <1>1. TypeOK => TypeInv
    BY DEF TypeOK
  <1> QED
    BY <1>1, TypeCorrect, PTL

(* The empty memory has chosen no resumption. *)
LEMMA InitHistory == Init => HistoryInv
  <1> SUFFICES ASSUME Init PROVE HistoryInv
    OBVIOUS
  <1>1. TypeInv /\ Past
    <2>1. TypeInv
      BY TimeFacts DEF Init, TypeInv
    <2>2. Past
      BY TimeFacts DEF Init, Past
    <2> QED
      BY <2>1, <2>2
  <1>2. \A n \in Since(net), e \in Egresses : seen[Key(n, e)] <= lastFull[n][e]
    BY DEF Init, Since, Distinct, Keys, Never
  <1>3. EntriesAreEarned
    BY <1>2 DEF Init, EntriesAreEarned, Since
  <1> QED
    BY <1>1, <1>3 DEF Init, HistoryInv, NoOrphanResumption

(* Every step keeps the history: one step per action. *)
LEMMA NextHistory == HistoryInv /\ TypeInv' /\ [Next]_vars => HistoryInv'
  <1> SUFFICES ASSUME HistoryInv, TypeInv', [Next]_vars PROVE HistoryInv'
    OBVIOUS
  <1> USE DEF HistoryInv
  <1>h. PICK h \in Nets :
          /\ net \in Since(h)
          /\ \A c \in Conns : call[c] # NoCall /\ GenMatches(c) => call[c].on \in Since(h)
          /\ \A n \in Since(h), e \in Egresses : seen[Key(n, e)] <= lastFull[n][e]
    BY DEF EntriesAreEarned
  <1>s. Since(h) \subseteq Nets /\ \A n \in Nets, e \in Egresses : Key(n, e) \in Keys
    BY DEF Since, Distinct, Keys
  <1>1. CASE Tick
    <2>1. Past'
      BY <1>1 DEF Tick, Past, TypeInv, Times, Never
    <2>2. EntriesAreEarned'
      BY <1>1 DEF Tick, EntriesAreEarned, GenMatches, Since, Distinct
    <2> QED
      BY <1>1, <2>1, <2>2 DEF Tick, NoOrphanResumption
  <1>2. ASSUME NEW c \in Conns, NEW e \in Egresses,
               NEW asked \in BOOLEAN, NEW carrier \in BOOLEAN, NEW ticket \in BOOLEAN,
               Decide(c, e, asked, carrier, ticket)
        PROVE  HistoryInv'
    <2>1. seen \in [Keys -> Times] /\ seen' \in AfterEviction(seen)
      BY <1>2 DEF Decide, TypeInv
    <2>2. \A k \in Keys : seen'[k] = seen[k] \/ seen'[k] = Never
      BY <2>1, EvictionShrinks
    <2>3. \A n \in Since(h), d \in Egresses : seen'[Key(n, d)] <= lastFull[n][d]
      <3> SUFFICES ASSUME NEW n \in Since(h), NEW d \in Egresses
                   PROVE  seen'[Key(n, d)] <= lastFull[n][d]
        OBVIOUS
      <3>1. Key(n, d) \in Keys /\ lastFull[n][d] \in Times
        BY <1>s DEF TypeInv
      <3> QED
        BY <3>1, <2>2, <1>h, TimeFacts
    <2>n. \A d \in Conns : \/ call'[d] = call[d]
                           \/ call'[d].gen = gen /\ call'[d].on = net
      BY <1>2 DEF Decide, TypeInv
    <2>4. Past'
      BY <1>2, <2>n DEF Decide, Past, TypeInv
    <2>5. \A d \in Conns : call'[d] # NoCall /\ call'[d].gen = gen => call'[d].on \in Since(h)
      BY <2>n, <1>h DEF GenMatches
    <2>6. EntriesAreEarned'
      BY <1>2, <1>h, <2>3, <2>5 DEF Decide, EntriesAreEarned, GenMatches
    <2>7. NoOrphanResumption'
      <3> DEFINE k == Key(net, e)
      <3>1. SUFFICES ASSUME ~NeedsFull(k, seen') PROVE HasPredecessor(net, e)
        BY <1>2 DEF Decide, NoOrphanResumption
      <3>2. seen'[k] # Never /\ ~Expired(seen'[k])
        BY <3>1 DEF NeedsFull
      <3>3. seen'[k] <= lastFull[net][e]
        BY <2>3, <1>h
      <3>4. seen'[k] \in Times /\ lastFull[net][e] \in Times /\ now \in Nat
        BY <1>s DEF TypeInv
      <3> QED
        BY <3>2, <3>3, <3>4, HorizonAssumption DEF HasPredecessor, Expired, Times, Never
    <2> QED
      BY <2>4, <2>6, <2>7
  <1>3. ASSUME NEW c \in Conns, Complete(c)
        PROVE  HistoryInv'
    <2> DEFINE n == call[c].on
               e == call[c].egress
               m == [seen EXCEPT ![Key(n, e)] = now]
    <2>1. n \in Nets /\ e \in Egresses
      BY <1>3 DEF Complete, TypeInv, Calls
    <2>2. /\ \A b \in Nets, d \in Egresses : lastFull[b][d] <= lastFull'[b][d]
          /\ \A b \in Nets, d \in Egresses : lastFull'[b][d] <= now
          /\ call[c].full => lastFull'[n][e] = now
      <3>1. now \in Nat /\ \A b \in Nets, d \in Egresses : /\ lastFull[b][d] \in Times
                                                           /\ lastFull[b][d] <= now
        BY DEF Past, TypeInv
      <3>2. lastFull' = IF call[c].full THEN [lastFull EXCEPT ![n][e] = now] ELSE lastFull
        BY <1>3 DEF Complete
      <3>3. \A b \in Nets, d \in Egresses :
              lastFull'[b][d] = IF call[c].full /\ b = n /\ d = e THEN now ELSE lastFull[b][d]
        BY <3>2, <2>1 DEF TypeInv
      <3> QED
        BY <3>1, <3>3, <2>1, TimeFacts
    <2>3. \A b \in Since(h), d \in Egresses : seen'[Key(b, d)] <= lastFull'[b][d]
      <3>1. CASE Records(c)
        <4>1. m \in [Keys -> Times] /\ seen' \in AfterEviction(m)
          BY <1>3, <3>1, <2>1, <1>s DEF Complete, TypeInv, Times
        <4>2. \A k \in Keys : seen'[k] = m[k] \/ seen'[k] = Never
          BY <4>1, EvictionShrinks
        <4>3. n \in Since(h) /\ call[c].full
          BY <1>3, <3>1, <1>h DEF Complete, Records
        <4> SUFFICES ASSUME NEW b \in Since(h), NEW d \in Egresses
                     PROVE  seen'[Key(b, d)] <= lastFull'[b][d]
          OBVIOUS
        <4>4. lastFull'[b][d] \in Times /\ lastFull[b][d] \in Times /\ Key(b, d) \in Keys
          BY <1>s DEF TypeInv
        <4>5. CASE Key(b, d) = Key(n, e)
          <5>1. b = n /\ d = e
            BY <4>3, <4>5, <2>1, SinceIsInjective
          <5>2. m[Key(b, d)] = now
            BY <4>4, <4>5 DEF TypeInv
          <5> QED
            BY <5>1, <5>2, <4>2, <4>3, <4>4, <2>2, TimeFacts DEF TypeInv
        <4>6. CASE Key(b, d) # Key(n, e)
          <5>1. m[Key(b, d)] = seen[Key(b, d)] /\ seen[Key(b, d)] \in Times
            BY <4>4, <4>6 DEF TypeInv
          <5>2. seen[Key(b, d)] <= lastFull[b][d] /\ lastFull[b][d] <= lastFull'[b][d]
            BY <1>h, <1>s, <2>2
          <5> QED
            BY <5>1, <5>2, <4>2, <4>4, TimeFacts
        <4> QED
          BY <4>5, <4>6
      <3>2. CASE ~Records(c)
        <4> SUFFICES ASSUME NEW b \in Since(h), NEW d \in Egresses
                     PROVE  seen'[Key(b, d)] <= lastFull'[b][d]
          OBVIOUS
        <4>1. seen'[Key(b, d)] = seen[Key(b, d)] /\ seen[Key(b, d)] <= lastFull[b][d]
          BY <1>3, <3>2, <1>h DEF Complete
        <4>2. /\ seen[Key(b, d)] \in Times /\ lastFull[b][d] \in Times
              /\ lastFull'[b][d] \in Times /\ lastFull[b][d] <= lastFull'[b][d]
          BY <1>s, <2>2 DEF TypeInv
        <4> QED
          BY <4>1, <4>2, TimeFacts
      <3> QED
        BY <3>1, <3>2
    <2>4. Past'
      BY <1>3, <2>2 DEF Complete, Past, TypeInv
    <2>5. EntriesAreEarned'
      BY <1>3, <1>h, <2>3 DEF Complete, EntriesAreEarned, GenMatches, TypeInv
    <2> QED
      BY <1>3, <2>4, <2>5 DEF Complete, NoOrphanResumption
  <1>4. ASSUME NEW c \in Conns, Fail(c)
        PROVE  HistoryInv'
    <2>1. Past'
      BY <1>4 DEF Fail, Past, TypeInv
    <2>2. EntriesAreEarned'
      BY <1>4, <1>h DEF Fail, EntriesAreEarned, GenMatches, TypeInv
    <2> QED
      BY <1>4, <2>1, <2>2 DEF Fail, NoOrphanResumption
  <1>5. ASSUME NEW n \in Nets, MoveAndReset(n)
        PROVE  HistoryInv'
    <2>1. Past'
      BY <1>5 DEF MoveAndReset, Reset, Past, TypeInv, Calls
    <2>2. \A b \in Since(n), d \in Egresses : seen'[Key(b, d)] <= lastFull[b][d]
      <3>1. \A b \in Since(n), d \in Egresses : seen'[Key(b, d)] = Never
        BY <1>5 DEF MoveAndReset, Reset, Since, Distinct, Keys
      <3>2. \A b \in Since(n), d \in Egresses : lastFull[b][d] \in Times
        BY DEF Since, Distinct, TypeInv
      <3> QED
        BY <3>1, <3>2 DEF Times, Never
    <2>3. \A c \in Conns : call[c] # NoCall => call[c].gen # gen'
      BY <1>5 DEF MoveAndReset, Reset, Past, TypeInv, Calls
    <2>4. EntriesAreEarned'
      BY <1>5, <2>2, <2>3 DEF MoveAndReset, EntriesAreEarned, GenMatches, Since
    <2> QED
      BY <1>5, <2>1, <2>4 DEF MoveAndReset, NoOrphanResumption
  <1>6. ASSUME NEW n \in Nets, MoveSilently(n)
        PROVE  HistoryInv'
    <2>1. Past'
      BY <1>6 DEF MoveSilently, Past
    <2>2. n \in Since(h)
      BY <1>6 DEF MoveSilently, Since
    <2>3. EntriesAreEarned'
      BY <1>6, <1>h, <2>2 DEF MoveSilently, EntriesAreEarned, GenMatches
    <2> QED
      BY <1>6, <2>1, <2>3 DEF MoveSilently, NoOrphanResumption
  <1>7. CASE UNCHANGED vars
    BY <1>7 DEF vars, Past, EntriesAreEarned, GenMatches, NoOrphanResumption
  <1> QED
    BY <1>1, <1>2, <1>3, <1>4, <1>5, <1>6, <1>7 DEF Next

(* Every entry of the memory was earned by a full handshake that the       *)
(* observers since the last Reset saw (contacts.go:191-202).               *)
THEOREM EntriesHaveHandshakes == Spec => []EntriesAreEarned
  <1>1. HistoryInv => EntriesAreEarned
    BY DEF HistoryInv
  <1> QED
    BY <1>1, InitHistory, NextHistory, TypesHold, PTL DEF Spec

(* No resumption that the contact memory chooses lacks a full handshake    *)
(* its observer saw inside the horizon, for any number of connections,     *)
(* networks, Resets and evictions (ContactMemory, contacts.go:11-21).      *)
THEOREM ResumptionsHavePredecessors == Spec => []NoOrphanResumption
  <1>1. HistoryInv => NoOrphanResumption
    BY DEF HistoryInv
  <1> QED
    BY <1>1, InitHistory, NextHistory, TypesHold, PTL DEF Spec
=============================================================================
