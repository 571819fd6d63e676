-------------------------- MODULE ReplayGateProofs --------------------------
(* Theorems about ReplayGate, for any number of clients, Server calls and  *)
(* tickets.                                                                *)
EXTENDS ReplayGate, FiniteSetTheorems, TLAPS

(* UnixSecond rounds a time down to a natural number. *)
LEMMA SecondIsNat ==
    ASSUME NEW t \in Nat PROVE UnixSecond(t) \in Nat
<1>1. t \div Second \in Nat
  BY TimeAssumption
<1>2. \A a, b \in Nat : a * b \in Nat
  OBVIOUS
<1> QED
  BY <1>1, <1>2, TimeAssumption DEF UnixSecond

(* The empty cache is well typed. *)
LEMMA TypeInit == Init => TypeOK
BY DEF Init, TypeOK

(* Admitting a ticket keeps the types. *)
LEMMA AdmittedType ==
    ASSUME TypeOK, NEW h \in Handlers, hello[h] # NoTicket,
           NEW victims, Admitted(h, victims),
           tracked' \subseteq Clients
    PROVE  TypeOK'
<1>1. hello[h] \in issued /\ hello[h] \in Tickets
  BY DEF TypeOK
<1> DEFINE t == hello[h]
<1>2. t.client \in Clients /\ t.id \in Nat /\ t.issued \in Nat
  BY <1>1 DEF Tickets
<1>3. UNCHANGED <<now, issued, nextID, nextCred, refused>>
  BY DEF Admitted, ConsumeDone, ticketVars
<1>4. hello' \in [Handlers -> issued \cup {NoTicket}] /\ at' \in [Handlers -> Nat]
  BY DEF Admitted, ConsumeDone, TypeOK
<1>5. TiesAfter(t) \in SUBSET Nat
  BY <1>2 DEF TiesAfter, TypeOK
<1>6. newest' \in [Clients -> Nat] /\ ties' \in [Clients -> SUBSET Nat] /\ seenAt' \in [Clients -> Nat]
  BY <1>2, <1>5 DEF Admitted, Remember, TypeOK
<1>7. spent' \subseteq issued /\ replayed' \subseteq spent' /\ forgotten' \subseteq spent'
  BY <1>1 DEF Admitted, Forget, TypeOK
<1> QED
  BY <1>3, <1>4, <1>6, <1>7 DEF TypeOK

(* Every step of a clock, an issuer or a Server call keeps the types. *)
LEMMA TypeNext == TypeOK /\ [Next]_vars => TypeOK'
<1> SUFFICES ASSUME TypeOK, [Next]_vars PROVE TypeOK'
  OBVIOUS
<1>1. CASE Tick
  BY <1>1 DEF Tick, TypeOK, ticketVars, handlerVars, cacheVars, histVars
<1>2. ASSUME NEW c \in Clients, Issue(c) PROVE TypeOK'
  <2>1. UnixSecond(now) \in Nat
    BY SecondIsNat DEF TypeOK
  <2>2. /\ Ticket(c, nextCred, nextID, now) \in Tickets
        /\ Ticket(c, nextCred, nextID + 1, CompanionTime(now)) \in Tickets
    BY <2>1 DEF Ticket, CompanionTime, Tickets, TypeOK
  <2>3. issued' \subseteq Tickets /\ issued \subseteq issued' /\ nextID' \in Nat /\ nextCred' \in Nat
    BY <1>2, <2>2 DEF Issue, TypeOK
  <2> QED
    BY <1>2, <2>3 DEF Issue, TypeOK, handlerVars, cacheVars, histVars
<1>3. ASSUME NEW t \in issued, IssueFullFor(t) PROVE TypeOK'
  <2>1. [t EXCEPT !.id = nextID] \in Tickets
    BY DEF TypeOK, Tickets
  <2>2. issued' \subseteq Tickets /\ issued \subseteq issued' /\ nextID' \in Nat
    BY <1>3, <2>1 DEF IssueFullFor, TypeOK
  <2> QED
    BY <1>3, <2>2 DEF IssueFullFor, TypeOK, handlerVars, cacheVars, histVars
<1>4. ASSUME NEW h \in Handlers, NEW t \in issued, Verify(h, t) PROVE TypeOK'
  BY <1>4 DEF Verify, TypeOK, ticketVars, cacheVars, histVars
<1>5. ASSUME NEW h \in Handlers, ConsumeUnknown(h) PROVE TypeOK'
  <2>1. hello[h].client \in Clients /\ Kept \subseteq Clients /\ Oldest \subseteq Clients
    BY <1>5 DEF ConsumeUnknown, TypeOK, Tickets, Kept, Oldest
  <2>2. tracked' \subseteq Clients
    BY <1>5, <2>1 DEF ConsumeUnknown
  <2> QED
    BY <1>5, <2>2, AdmittedType DEF ConsumeUnknown
<1>6. ASSUME NEW h \in Handlers, ConsumeKnown(h) PROVE TypeOK'
  <2>1. tracked' \subseteq Clients
    BY <1>6 DEF ConsumeKnown, Kept, TypeOK
  <2> QED
    BY <1>6, <2>1, AdmittedType DEF ConsumeKnown
<1>7. ASSUME NEW h \in Handlers, ConsumeRefused(h) PROVE TypeOK'
  BY <1>7 DEF ConsumeRefused, ConsumeDone, Kept, TypeOK, ticketVars
<1>8. CASE Restart
  BY <1>8 DEF Restart, Forget, TypeOK, ticketVars
<1>9. CASE UNCHANGED vars
  BY <1>9 DEF TypeOK, vars, ticketVars, handlerVars, cacheVars, histVars
<1> QED
  BY <1>1, <1>2, <1>3, <1>4, <1>5, <1>6, <1>7, <1>8, <1>9 DEF Next

(* Type correctness of the gate, for every instance. *)
THEOREM TypeCorrect == Spec => []TypeOK
BY TypeInit, TypeNext, PTL DEF Spec

-----------------------------------------------------------------------------
(* Single use *)

(* The horizon outlasts MaxAge by more than a Server call takes between    *)
(* its two readings of the clock.  Server enforces only Horizon >= MaxAge. *)
HorizonOutlasts == Horizon > MaxAge + MaxDelay

(* What a handler holds was fresh when it was verified, not long ago.      *)
VerifiedRecently ==
    \A h \in Handlers : hello[h] # NoTicket =>
        /\ at[h] - hello[h].issued <= MaxAge
        /\ now - at[h] <= MaxDelay

(* The client's record refuses t. *)
Covered(t) ==
    /\ t.client \in tracked
    /\ \/ newest[t.client] > t.issued
       \/ newest[t.client] = t.issued /\ t.id \in ties[t.client]

Aged(t) == now - t.issued >= Horizon

(* A spent ticket is past the horizon or covered by its client's record,   *)
(* unless that record was lost.                                            *)
SpentIsCovered ==
    \A t \in spent \ forgotten : Aged(t) \/ Covered(t)

(* The inductive invariant behind SingleUse. *)
GateInv == VerifiedRecently /\ SpentIsCovered /\ SingleUse

(* The empty cache has admitted nothing. *)
LEMMA GateInit == Init => GateInv
BY DEF Init, GateInv, VerifiedRecently, SpentIsCovered, SingleUse

(* Eviction forgets only clients whose spent tickets are past the horizon. *)
LEMMA EvictionIsSafe ==
    ASSUME TypeOK, NEW t \in spent, Aged(t) \/ Covered(t)
    PROVE  Aged(t) \/ t.client \in Kept
<1>1. t \in Tickets /\ now \in Nat /\ newest \in [Clients -> Nat]
  BY DEF TypeOK
<1>2. t.client \in Clients /\ t.issued \in Nat
  BY <1>1 DEF Tickets
<1> QED
  BY <1>1, <1>2, TimeAssumption DEF Aged, Covered, Kept

(* A ticket that a handler is about to spend is not past the horizon.      *)
LEMMA HeldIsNotAged ==
    ASSUME HorizonOutlasts, TypeOK, VerifiedRecently,
           NEW h \in Handlers, hello[h] # NoTicket
    PROVE  ~Aged(hello[h])
<1>1. hello[h] \in Tickets /\ now \in Nat /\ at[h] \in Nat
  BY DEF TypeOK
<1>2. hello[h].issued \in Nat
  BY <1>1 DEF Tickets
<1> QED
  BY <1>1, <1>2, TimeAssumption DEF HorizonOutlasts, VerifiedRecently, Aged

(* The other handlers keep what they verified. *)
LEMMA ConsumeKeepsVerified ==
    ASSUME TypeOK, VerifiedRecently, NEW h \in Handlers, ConsumeDone(h)
    PROVE  VerifiedRecently'
<1>1. now' = now
  BY DEF ConsumeDone
<1>2. hello'[h] = NoTicket /\ \A g \in Handlers \ {h} : hello'[g] = hello[g] /\ at'[g] = at[g]
  BY DEF ConsumeDone, TypeOK
<1> QED
  BY <1>1, <1>2 DEF VerifiedRecently

(* Admitting a ticket that the cache let through keeps the invariant.      *)
LEMMA AdmittedKeepsInv ==
    ASSUME HorizonOutlasts, TypeOK, GateInv,
           NEW h \in Handlers, hello[h] # NoTicket,
           NEW victims, Admitted(h, victims),
           hello[h].client \in Kept => Newer(hello[h]) \/ Sibling(hello[h]),
           hello[h].client \in tracked',
           Kept \subseteq tracked' \cup victims
    PROVE  GateInv'
<1>0. PICK t \in Tickets : t = hello[h]
  BY DEF TypeOK
<1>1. t \in Tickets /\ t.client \in Clients /\ t.issued \in Nat
  BY <1>0 DEF Tickets
<1>2. /\ now' = now /\ spent' = spent \cup {t}
      /\ forgotten' = Forget(victims) \ {t}
  BY <1>0 DEF Admitted, ConsumeDone
<1>3. /\ newest'[t.client] = t.issued
      /\ ties'[t.client] = TiesAfter(t)
      /\ \A c \in Clients \ {t.client} : newest'[c] = newest[c] /\ ties'[c] = ties[c]
  BY <1>0, <1>1 DEF Admitted, Remember, TypeOK
<1>4. t.id \in TiesAfter(t)
  BY DEF TiesAfter
<1>5. Covered(t)'
  BY <1>0, <1>1, <1>3, <1>4 DEF Covered
<1>6. ASSUME NEW s \in spent \ Forget(victims) PROVE Aged(s)' \/ Covered(s)'
  <2>1. s \in Tickets /\ s.client \in Clients /\ s.issued \in Nat
    BY DEF TypeOK, Tickets
  <2>2. s \in spent \ forgotten /\ s.client \notin victims
    BY DEF Forget
  <2>3. CASE Aged(s)
    BY <1>2, <2>3 DEF Aged
  <2>4. CASE Covered(s) /\ ~Aged(s)
    <3>1. s.client \in Kept /\ s.client \in tracked'
      BY <2>2, <2>4, EvictionIsSafe
    <3>2. CASE s.client = t.client
      <4>1. newest[s.client] \in Nat
        BY <2>1 DEF TypeOK
      <4>2. CASE t.issued > newest[s.client]
        <5>1. t.issued > s.issued
          BY <1>1, <2>1, <2>4, <4>1, <4>2 DEF Covered
        <5> QED
          BY <1>0, <1>3, <3>2, <5>1 DEF Covered
      <4>3. CASE t.issued = newest[s.client]
        <5>1. TiesAfter(t) = ties[t.client] \cup {t.id}
          BY <3>1, <3>2, <4>3 DEF TiesAfter
        <5> QED
          BY <1>0, <1>3, <2>4, <3>2, <4>3, <5>1 DEF Covered
      <4> QED
        BY <1>0, <3>1, <3>2, <4>2, <4>3 DEF Newer, Sibling
    <3>3. CASE s.client # t.client
      BY <1>3, <2>1, <2>4, <3>1, <3>3 DEF Covered
    <3> QED
      BY <3>2, <3>3
  <2> QED
    BY <2>2, <2>3, <2>4 DEF GateInv, SpentIsCovered
<1>7. SpentIsCovered'
  BY <1>2, <1>5, <1>6 DEF SpentIsCovered
<1>8. t \notin spent \ forgotten
  <2>1. SUFFICES ASSUME t \in spent \ forgotten PROVE FALSE
    OBVIOUS
  <2>2. ~Aged(t)
    BY <1>0, HeldIsNotAged DEF GateInv
  <2>3. Covered(t)
    BY <2>1, <2>2 DEF GateInv, SpentIsCovered
  <2>4. t.client \in Kept
    BY <2>1, <2>2, <2>3, EvictionIsSafe
  <2>5. newest[t.client] \in Nat
    BY <1>1 DEF TypeOK
  <2> QED
    BY <1>0, <1>1, <2>3, <2>4, <2>5 DEF Covered, Newer, Sibling
<1>9. SingleUse'
  BY <1>0, <1>8 DEF Admitted, GateInv, SingleUse
<1>10. VerifiedRecently'
  BY ConsumeKeepsVerified DEF Admitted, GateInv
<1> QED
  BY <1>7, <1>9, <1>10 DEF GateInv

(* Every step keeps the invariant: one step per action. *)
LEMMA GateNext ==
    ASSUME HorizonOutlasts
    PROVE  TypeOK /\ GateInv /\ [Next]_vars => GateInv'
<1> SUFFICES ASSUME TypeOK, GateInv, [Next]_vars PROVE GateInv'
  OBVIOUS
<1> USE DEF GateInv
<1>1. CASE Tick
  <2>1. UNCHANGED <<hello, at, tracked, newest, ties, spent, replayed, forgotten>> /\ now' = now + 1
    BY <1>1 DEF Tick, handlerVars, cacheVars, histVars
  <2>2. SpentIsCovered'
    <3>1. \A t \in spent : t.issued \in Nat /\ now \in Nat
      BY DEF TypeOK, Tickets
    <3>2. \A t \in spent : Aged(t) => Aged(t)'
      BY <2>1, <3>1, TimeAssumption DEF Aged
    <3> QED
      BY <2>1, <3>2 DEF SpentIsCovered, Covered
  <2>3. VerifiedRecently'
    <3>1. \A h \in Handlers : at[h] \in Nat /\ now \in Nat
      BY DEF TypeOK
    <3> QED
      BY <1>1, <2>1, <3>1, TimeAssumption DEF Tick, VerifiedRecently
  <2>4. SingleUse'
    BY <2>1 DEF SingleUse
  <2> QED
    BY <2>2, <2>3, <2>4
<1>2. CASE \/ \E c \in Clients : Issue(c)
           \/ \E t \in issued : IssueFullFor(t)
           \/ UNCHANGED vars
  <2>1. UNCHANGED <<now, hello, at, tracked, newest, ties, spent, replayed, forgotten>>
    BY <1>2 DEF Issue, IssueFullFor, vars, handlerVars, cacheVars, histVars
  <2> QED
    BY <2>1 DEF VerifiedRecently, SpentIsCovered, SingleUse, Aged, Covered
<1>3. ASSUME NEW h \in Handlers, NEW t \in issued, Verify(h, t) PROVE GateInv'
  <2>1. UNCHANGED <<now, tracked, newest, ties, spent, replayed, forgotten>>
    BY <1>3 DEF Verify, cacheVars, histVars
  <2>2. SpentIsCovered' /\ SingleUse'
    BY <2>1 DEF SpentIsCovered, SingleUse, Aged, Covered
  <2>3. /\ hello'[h] = t /\ at'[h] = now /\ now - t.issued <= MaxAge
        /\ \A g \in Handlers \ {h} : hello'[g] = hello[g] /\ at'[g] = at[g]
    BY <1>3 DEF Verify, Fresh, TypeOK
  <2>4. now - now <= MaxDelay
    BY TimeAssumption DEF TypeOK
  <2>5. VerifiedRecently'
    BY <2>1, <2>3, <2>4 DEF VerifiedRecently
  <2> QED
    BY <2>2, <2>5
<1>4. ASSUME NEW h \in Handlers, ConsumeUnknown(h) PROVE GateInv'
  <2>1. PICK victims : /\ hello[h] # NoTicket /\ Admitted(h, victims)
                       /\ hello[h].client \notin Kept
                       /\ hello[h].client \in tracked'
                       /\ Kept \subseteq tracked' \cup victims
    BY <1>4 DEF ConsumeUnknown
  <2> QED
    BY <2>1, AdmittedKeepsInv
<1>5. ASSUME NEW h \in Handlers, ConsumeKnown(h) PROVE GateInv'
  <2>1. /\ hello[h] # NoTicket /\ Admitted(h, {})
        /\ Newer(hello[h]) \/ Sibling(hello[h])
        /\ hello[h].client \in tracked'
        /\ Kept \subseteq tracked' \cup {}
    BY <1>5 DEF ConsumeKnown
  <2> QED
    BY <2>1, AdmittedKeepsInv
<1>6. ASSUME NEW h \in Handlers, ConsumeRefused(h) PROVE GateInv'
  <2>1. /\ UNCHANGED <<now, newest, ties, spent, replayed, forgotten>>
        /\ tracked' = Kept /\ ConsumeDone(h)
    BY <1>6 DEF ConsumeRefused, ConsumeDone
  <2>2. VerifiedRecently'
    BY <2>1, ConsumeKeepsVerified
  <2>3. SpentIsCovered'
    <3>1. ASSUME NEW s \in spent \ forgotten PROVE Aged(s)' \/ Covered(s)'
      <4>1. Aged(s) \/ Covered(s)
        BY <3>1 DEF SpentIsCovered
      <4>2. Aged(s) \/ s.client \in Kept
        BY <4>1, EvictionIsSafe
      <4> QED
        BY <2>1, <4>1, <4>2 DEF Aged, Covered
    <3> QED
      BY <2>1, <3>1 DEF SpentIsCovered
  <2>4. SingleUse'
    BY <2>1 DEF SingleUse
  <2> QED
    BY <2>2, <2>3, <2>4
<1>7. CASE Restart
  <2>1. /\ UNCHANGED <<now, newest, ties, spent, replayed>>
        /\ forgotten' = Forget(tracked)
        /\ \A h \in Handlers : hello'[h] = NoTicket
    BY <1>7 DEF Restart
  <2>2. VerifiedRecently' /\ SingleUse'
    BY <2>1 DEF VerifiedRecently, SingleUse
  <2>3. \A s \in spent \ forgotten : Covered(s) => s \in Forget(tracked)
    BY DEF Covered, Forget
  <2>4. SpentIsCovered'
    BY <2>1, <2>3 DEF SpentIsCovered, Forget, Aged
  <2> QED
    BY <2>2, <2>4
<1> QED
  BY <1>1, <1>2, <1>3, <1>4, <1>5, <1>6, <1>7 DEF Next

(* If the horizon outlasts MaxAge by more than the time a Server call      *)
(* takes from verifying a ticket to spending it, no ticket is admitted     *)
(* twice, unless the backstop or a restart lost its client's record.       *)
THEOREM TicketsAreSingleUse ==
    ASSUME HorizonOutlasts
    PROVE  Spec => []SingleUse
<1>1. TypeOK /\ GateInv /\ [Next]_vars => (TypeOK /\ GateInv)'
  BY TypeNext, GateNext
<1>2. Init => TypeOK /\ GateInv
  BY TypeInit, GateInit
<1>3. GateInv => SingleUse
  BY DEF GateInv
<1> QED
  BY <1>1, <1>2, <1>3, PTL DEF Spec

-----------------------------------------------------------------------------
(* The bound of the cache *)

(* The inductive invariant behind CacheBounded: that the cache is finite   *)
(* has to be said, as any number of clients may exist.                     *)
BoundInv == IsFiniteSet(tracked) /\ CacheBounded

(* Eviction leaves a finite cache within its bound. *)
LEMMA KeptIsBounded ==
    ASSUME BoundInv
    PROVE  IsFiniteSet(Kept) /\ Cardinality(Kept) \in Nat /\ Cardinality(Kept) <= MaxClients
<1>1. Kept \in SUBSET tracked
  BY DEF Kept
<1>2. /\ IsFiniteSet(Kept) /\ Cardinality(Kept) <= Cardinality(tracked)
      /\ Cardinality(Kept) \in Nat /\ Cardinality(tracked) \in Nat
  BY <1>1, FS_Subset, FS_CardinalityType DEF BoundInv
<1> QED
  BY <1>2, SizeAssumption DEF BoundInv, CacheBounded

(* Adding a client to the cache adds at most one entry. *)
LEMMA OneMore ==
    ASSUME NEW S, IsFiniteSet(S), NEW c
    PROVE  IsFiniteSet(S \cup {c}) /\ Cardinality(S \cup {c}) <= Cardinality(S) + 1
<1>1. Cardinality(S) \in Nat
  BY FS_CardinalityType
<1>2. /\ IsFiniteSet(S \cup {c})
      /\ Cardinality(S \cup {c}) = Cardinality(S) \/ Cardinality(S \cup {c}) = Cardinality(S) + 1
  BY FS_AddElement, Zenon
<1> QED
  BY <1>1, <1>2

(* Every step keeps the cache within its bound. *)
LEMMA BoundNext == BoundInv /\ [Next]_vars => BoundInv'
<1> SUFFICES ASSUME BoundInv, [Next]_vars PROVE BoundInv'
  OBVIOUS
<1>1. CASE UNCHANGED tracked
  BY <1>1 DEF BoundInv, CacheBounded
<1>2. CASE tracked' = Kept
  BY <1>2, KeptIsBounded DEF BoundInv, CacheBounded
<1>3. ASSUME NEW h \in Handlers, ConsumeUnknown(h) PROVE BoundInv'
  <2>1. CASE ~Full /\ tracked' = Kept \cup {hello[h].client}
    <3>1. Cardinality(Kept) + 1 <= MaxClients
      BY <2>1, KeptIsBounded, SizeAssumption DEF Full
    <3>2. IsFiniteSet(tracked') /\ Cardinality(tracked') <= Cardinality(Kept) + 1
      BY <2>1, KeptIsBounded, OneMore
    <3>3. Cardinality(tracked') \in Nat
      BY <3>2, FS_CardinalityType
    <3> QED
      BY <3>1, <3>2, <3>3, KeptIsBounded, SizeAssumption DEF BoundInv, CacheBounded
  <2>2. ASSUME NEW victim \in Oldest, tracked' = (Kept \ {victim}) \cup {hello[h].client}
        PROVE  BoundInv'
    <3>1. victim \in Kept
      BY DEF Oldest
    <3>2. IsFiniteSet(Kept \ {victim}) /\ Cardinality(Kept \ {victim}) = Cardinality(Kept) - 1
      BY <3>1, KeptIsBounded, FS_RemoveElement
    <3>3. IsFiniteSet(tracked') /\ Cardinality(tracked') <= Cardinality(Kept \ {victim}) + 1
      BY <2>2, <3>2, OneMore
    <3>4. Cardinality(tracked') \in Nat
      BY <3>3, FS_CardinalityType
    <3> QED
      BY <3>2, <3>3, <3>4, KeptIsBounded, SizeAssumption DEF BoundInv, CacheBounded
  <2> QED
    BY <1>3, <2>1, <2>2 DEF ConsumeUnknown
<1>4. CASE Restart
  BY <1>4, FS_EmptySet, SizeAssumption DEF Restart, BoundInv, CacheBounded
<1>5. CASE \/ Tick
           \/ \E c \in Clients : Issue(c)
           \/ \E t \in issued : IssueFullFor(t)
           \/ \E h \in Handlers : \E t \in issued : Verify(h, t)
           \/ UNCHANGED vars
  BY <1>1, <1>5 DEF Tick, Issue, IssueFullFor, Verify, vars, cacheVars
<1>6. CASE \E h \in Handlers : ConsumeKnown(h) \/ ConsumeRefused(h)
  BY <1>2, <1>6 DEF ConsumeKnown, ConsumeRefused
<1> QED
  BY <1>3, <1>4, <1>5, <1>6 DEF Next

(* The cache never holds more than max clients, whatever number of them    *)
(* connect: a full cache gives up one for each it admits.                  *)
THEOREM CacheStaysBounded == Spec => []CacheBounded
<1>1. Init => BoundInv
  BY FS_EmptySet, SizeAssumption DEF Init, BoundInv, CacheBounded
<1>2. BoundInv => CacheBounded
  BY DEF BoundInv
<1> QED
  BY <1>1, <1>2, BoundNext, PTL DEF Spec

-----------------------------------------------------------------------------
(* Who is refused *)

(* Two tickets never share their random part, and the tickets of one       *)
(* credential were issued in one second.                                   *)
TicketsDiffer ==
    /\ \A t \in issued : t.id < nextID /\ t.cred < nextCred
    /\ \A s, t \in issued : s.id = t.id => s = t
    /\ \A s, t \in issued : s.cred = t.cred => s.issued = t.issued

(* A spent ticket of client c, of the second of its record. *)
SpentAtNewest(c, s) == s.client = c /\ s.issued = newest[c]

(* A client's record is made of its spent tickets: one of its newest       *)
(* second, and every sibling it lists.                                     *)
RecordsAreSpent ==
    \A c \in tracked :
        /\ \E s \in spent : SpentAtNewest(c, s)
        /\ \A id \in ties[c] : \E s \in spent : SpentAtNewest(c, s) /\ s.id = id

(* The inductive invariant behind RefusedOnlyWhenSuperseded. *)
RefusalInv == TicketsDiffer /\ RecordsAreSpent /\ RefusedOnlyWhenSuperseded

(* Nothing was issued, spent or refused yet. *)
LEMMA RefusalInit == Init => RefusalInv
BY DEF Init, RefusalInv, TicketsDiffer, RecordsAreSpent, RefusedOnlyWhenSuperseded

(* More spent tickets only help. *)
LEMMA SpendingSupersedes ==
    ASSUME RefusedOnlyWhenSuperseded, refused' = refused, spent \subseteq spent'
    PROVE  RefusedOnlyWhenSuperseded'
BY DEF RefusedOnlyWhenSuperseded

(* A step that issues nothing keeps the tickets apart. *)
LEMMA SameTickets ==
    ASSUME TicketsDiffer, UNCHANGED ticketVars PROVE TicketsDiffer'
BY DEF TicketsDiffer, ticketVars

(* Admitting a ticket keeps the invariant. *)
LEMMA AdmittedKeepsRefusal ==
    ASSUME TypeOK, RefusalInv,
           NEW h \in Handlers, hello[h] # NoTicket,
           NEW victims, Admitted(h, victims),
           hello[h].client \in Kept => Newer(hello[h]) \/ Sibling(hello[h]),
           tracked' \subseteq Kept \cup {hello[h].client}
    PROVE  RefusalInv'
<1>0. PICK t \in Tickets : t = hello[h]
  BY DEF TypeOK
<1>1. t.client \in Clients /\ t.issued \in Nat
  BY DEF Tickets
<1>2. spent' = spent \cup {t} /\ refused' = refused /\ UNCHANGED ticketVars
  BY <1>0 DEF Admitted, ConsumeDone
<1>3. /\ newest'[t.client] = t.issued
      /\ ties'[t.client] = TiesAfter(t)
      /\ \A c \in Clients \ {t.client} : newest'[c] = newest[c] /\ ties'[c] = ties[c]
  BY <1>0, <1>1 DEF Admitted, Remember, TypeOK
<1>4. Kept \subseteq tracked /\ Kept \subseteq Clients
  BY DEF Kept, TypeOK
<1>5. ASSUME NEW c \in tracked'
      PROVE  /\ \E s \in spent' : s.client = c /\ s.issued = newest'[c]
             /\ \A id \in ties'[c] : \E s \in spent' :
                    s.client = c /\ s.issued = newest'[c] /\ s.id = id
  <2>1. CASE c # t.client
    <3>1. c \in tracked /\ newest'[c] = newest[c] /\ ties'[c] = ties[c]
      BY <1>0, <1>3, <1>4, <1>5, <2>1
    <3> QED
      BY <1>2, <3>1 DEF RefusalInv, RecordsAreSpent, SpentAtNewest
  <2>2. CASE c = t.client
    <3>1. ASSUME NEW id \in TiesAfter(t), id # t.id
          PROVE  \E s \in spent : s.client = c /\ s.issued = t.issued /\ s.id = id
      <4>1. c \in tracked /\ newest[c] = t.issued /\ id \in ties[c]
        BY <1>4, <2>2, <3>1 DEF TiesAfter
      <4> QED
        BY <4>1 DEF RefusalInv, RecordsAreSpent, SpentAtNewest
    <3> QED
      BY <1>2, <1>3, <2>2, <3>1
  <2> QED
    BY <2>1, <2>2
<1>6. RecordsAreSpent'
  BY <1>5 DEF RecordsAreSpent, SpentAtNewest
<1>7. TicketsDiffer' /\ RefusedOnlyWhenSuperseded'
  BY <1>2, SameTickets, SpendingSupersedes DEF RefusalInv
<1> QED
  BY <1>6, <1>7 DEF RefusalInv

(* Every step keeps the invariant: one step per action. *)
LEMMA RefusalNext == TypeOK /\ RefusalInv /\ [Next]_vars => RefusalInv'
<1> SUFFICES ASSUME TypeOK, RefusalInv, [Next]_vars PROVE RefusalInv'
  OBVIOUS
<1>1. ASSUME UNCHANGED <<cacheVars, spent, refused>> PROVE RecordsAreSpent' /\ RefusedOnlyWhenSuperseded'
  BY <1>1, SpendingSupersedes DEF RefusalInv, RecordsAreSpent, SpentAtNewest, cacheVars
<1>2. CASE Tick \/ UNCHANGED vars
  BY <1>1, <1>2, SameTickets DEF Tick, RefusalInv, vars, histVars
<1>3. ASSUME NEW c \in Clients, Issue(c) PROVE RefusalInv'
  <2> DEFINE a == Ticket(c, nextCred, nextID, now)
             b == Ticket(c, nextCred, nextID + 1, CompanionTime(now))
  <2>1. /\ issued' = issued \cup {a, b} /\ nextID' = nextID + 2 /\ nextCred' = nextCred + 1
    BY <1>3 DEF Issue
  <2>2. /\ a.id = nextID /\ b.id = nextID + 1 /\ a.cred = nextCred /\ b.cred = nextCred
        /\ a.issued = b.issued
    BY DEF Ticket, CompanionTime
  <2>3. nextID \in Nat /\ nextCred \in Nat /\ \A t \in issued : t.id \in Nat /\ t.cred \in Nat
    BY DEF TypeOK, Tickets
  <2> HIDE DEF a, b
  <2>4. TicketsDiffer'
    <3>1. \A t \in issued' : t.id < nextID' /\ t.cred < nextCred'
      BY <2>1, <2>2, <2>3 DEF RefusalInv, TicketsDiffer
    <3>2. \A s, t \in issued' : s.id = t.id => s = t
      BY <2>1, <2>2, <2>3 DEF RefusalInv, TicketsDiffer
    <3>3. \A s, t \in issued' : s.cred = t.cred => s.issued = t.issued
      BY <2>1, <2>2, <2>3 DEF RefusalInv, TicketsDiffer
    <3> QED
      BY <3>1, <3>2, <3>3 DEF TicketsDiffer
  <2> QED
    BY <1>1, <1>3, <2>4 DEF Issue, RefusalInv, histVars
<1>4. ASSUME NEW u \in issued, IssueFullFor(u) PROVE RefusalInv'
  <2>1. PICK a \in Tickets : a = [u EXCEPT !.id = nextID]
    BY DEF TypeOK, Tickets
  <2>2. a.id = nextID /\ a.cred = u.cred /\ a.issued = u.issued
    BY <2>1 DEF TypeOK, Tickets
  <2>3. issued' = issued \cup {a} /\ nextID' = nextID + 1 /\ nextCred' = nextCred
    BY <1>4, <2>1 DEF IssueFullFor
  <2>4. nextID \in Nat /\ nextCred \in Nat /\ \A t \in issued : t.id \in Nat /\ t.cred \in Nat
    BY DEF TypeOK, Tickets
  <2>5. TicketsDiffer'
    BY <2>2, <2>3, <2>4 DEF RefusalInv, TicketsDiffer
  <2> QED
    BY <1>1, <1>4, <2>5 DEF IssueFullFor, RefusalInv, histVars
<1>5. ASSUME NEW h \in Handlers, NEW t \in issued, Verify(h, t) PROVE RefusalInv'
  BY <1>1, <1>5, SameTickets DEF Verify, RefusalInv, histVars
<1>6. ASSUME NEW h \in Handlers, ConsumeUnknown(h) PROVE RefusalInv'
  <2>1. PICK victims : /\ hello[h] # NoTicket /\ Admitted(h, victims)
                       /\ hello[h].client \notin Kept
                       /\ tracked' \subseteq Kept \cup {hello[h].client}
    BY <1>6 DEF ConsumeUnknown
  <2> QED
    BY <2>1, AdmittedKeepsRefusal
<1>7. ASSUME NEW h \in Handlers, ConsumeKnown(h) PROVE RefusalInv'
  BY <1>7, AdmittedKeepsRefusal DEF ConsumeKnown
<1>8. ASSUME NEW h \in Handlers, ConsumeRefused(h) PROVE RefusalInv'
  <2>0. PICK t \in issued : t = hello[h] /\ t \in Tickets
    BY <1>8 DEF ConsumeRefused, TypeOK
  <2>1. /\ UNCHANGED <<newest, ties, spent>> /\ tracked' = Kept /\ UNCHANGED ticketVars
        /\ t.client \in Kept /\ ~(Newer(t) \/ Sibling(t))
        /\ refused' \subseteq refused \cup {t}
    BY <1>8, <2>0 DEF ConsumeRefused, ConsumeDone
  <2>2. Kept \subseteq tracked
    BY DEF Kept
  <2>3. RecordsAreSpent'
    BY <2>1, <2>2 DEF RefusalInv, RecordsAreSpent, SpentAtNewest
  <2>4. t \in spent \/ \E s \in spent : s.client = t.client /\ s.cred # t.cred /\ s.issued > t.issued
    <3>1. t.client \in Clients /\ t.issued \in Nat /\ newest[t.client] \in Nat
      BY DEF Tickets, TypeOK
    <3>2. \/ t.issued < newest[t.client]
          \/ t.issued = newest[t.client] /\ t.id \in ties[t.client]
      BY <2>1, <3>1 DEF Newer, Sibling
    <3>3. spent \subseteq issued /\ t.client \in tracked
      BY <2>1, <2>2 DEF TypeOK
    <3>4. CASE t.issued < newest[t.client]
      <4>1. PICK s \in spent : SpentAtNewest(t.client, s)
        BY <3>3 DEF RefusalInv, RecordsAreSpent
      <4>2. t.cred # s.cred /\ s.client = t.client /\ s.issued = newest[t.client]
        BY <3>1, <3>3, <3>4, <4>1 DEF RefusalInv, TicketsDiffer, SpentAtNewest
      <4> QED
        BY <3>4, <4>1, <4>2
    <3>5. CASE t.issued = newest[t.client] /\ t.id \in ties[t.client]
      <4>1. PICK s \in spent : SpentAtNewest(t.client, s) /\ s.id = t.id
        BY <3>3, <3>5 DEF RefusalInv, RecordsAreSpent
      <4> QED
        BY <3>3, <4>1 DEF RefusalInv, TicketsDiffer
    <3> QED
      BY <3>2, <3>4, <3>5
  <2>5. RefusedOnlyWhenSuperseded'
    BY <2>1, <2>4 DEF RefusalInv, RefusedOnlyWhenSuperseded
  <2> QED
    BY <2>1, <2>3, <2>5, SameTickets DEF RefusalInv
<1>9. CASE Restart
  BY <1>9, SameTickets, SpendingSupersedes DEF Restart, RefusalInv, RecordsAreSpent
<1> QED
  BY <1>2, <1>3, <1>4, <1>5, <1>6, <1>7, <1>8, <1>9 DEF Next

(* A genuine ticket that was never spent is refused only because the       *)
(* client presented one of a newer credential: no sibling, no companion    *)
(* and no ticket of another client ever stands in its way.                 *)
THEOREM RefusalsAreSuperseded == Spec => []RefusedOnlyWhenSuperseded
<1>1. TypeOK /\ RefusalInv /\ [Next]_vars => (TypeOK /\ RefusalInv)'
  BY TypeNext, RefusalNext
<1>2. Init => TypeOK /\ RefusalInv
  BY TypeInit, RefusalInit
<1>3. RefusalInv => RefusedOnlyWhenSuperseded
  BY DEF RefusalInv
<1> QED
  BY <1>1, <1>2, <1>3, PTL DEF Spec
=============================================================================
